--------------------------- MODULE NtdsCommProofs ---------------------------
(***************************************************************************)
(* Theorems about NtdsComm, for any threads, names, ports and devices: the *)
(* calls of Send_NTDS_Mesg and Recv_NTDS_Mesg find the queues that they    *)
(* use, however configuration goes on between their steps; what passes is  *)
(* the device's own; a queue that is up has its partner, and is down when  *)
(* the process has left.  The last section is about ReceiveBuffer, which   *)
(* runs beside it.                                                         *)
(***************************************************************************)
EXTENDS NtdsComm, ReceiveBuffer, NtdsPortsProofs

(* A port that a receiver may use, or is just about to get its queues.     *)
Marking == {"configured", "published"}
Ready(p) == Usable(p) \/ (Configuring(p) /\ stage \in Marking)

Places == {"idle", "send", "check", "poll", "try", "broken"}

CallsTyped ==
  /\ pc \in [Threads -> Places]
  /\ device \in [Threads -> Devices \cup {0}]
  /\ port \in [Threads -> Ports]

(* What an entry shows, or will, as primary and normal port.               *)
PortsMarked ==
  /\ \A i \in Ports : Device_Ports[i].device_id # 0 => Marked(Device_Ports[i])
  /\ stage = "storing" => \A k \in 1..Len(stores) : Marked(stores[k])

(* The configured mark promises the queues, or that they are being made.   *)
MarkPromises == \A p \in Ports : Comm_Configured[p] => Ready(p)

Strays(t) == port[t] = 0 /\ device[t] \in strayed
CallsRouted ==
  /\ \A s \in Senders :
       pc[s] = "send" => Usable(port[s]) \/ Configuring(port[s]) \/ Strays(s)
  /\ \A r \in Receivers : pc[r] \in {"poll", "try"} => Ready(port[r])

(* Nothing is deleted before the main thread leaves.                       *)
KeptWhileRunning == exit = "running" => deleted = {}

CommInv ==
  /\ Inv
  /\ CallsTyped
  /\ PortsMarked
  /\ MarkPromises
  /\ CallsRouted
  /\ KeptWhileRunning
----------------------------------------------------------------------------
(* The tables move as NtdsPorts says.                                      *)
LEMMA TablesMove == [CommNext]_commVars => [Next]_vars
<1> SUFFICES ASSUME [CommNext]_commVars PROVE [Next]_vars
  OBVIOUS
<1>1. CASE Configure
  BY <1>1 DEF Configure, Next, ConfigureStep
<1>2. CASE OpenPublishQueue \/ OpenSubscribeQueue
  BY <1>2 DEF OpenPublishQueue, OpenSubscribeQueue, Next, ConfigureStep
<1>3. CASE \E n \in Names : PartnerOpens(n) \/ PartnerSends(n) \/ PartnerTakes(n)
  BY <1>3 DEF PartnerOpens, PartnerSends, PartnerTakes
<1>4. CASE \E s \in Senders : SendStep(s)
  BY <1>4 DEF SendStep, Send_NTDS_Mesg, FindPort, Publish, UseNothing
<1>5. CASE \E r \in Receivers : RecvStep(r) \/ PollStep(r)
  BY <1>5, Zenon DEF RecvStep, PollStep, Recv_NTDS_Mesg, FindPort, CheckConfigured, GoOn,
    TryOnce, TryInVain, Poll, Take, UseNothing
<1>6. CASE Leave \/ DeleteQueue \/ Left
  BY <1>6 DEF Leave, DeleteQueue, Left
<1>7. CASE UNCHANGED commVars
  BY <1>7 DEF commVars
<1> QED
  BY <1>1, <1>2, <1>3, <1>4, <1>5, <1>6, <1>7 DEF CommNext

(* A port that is ready stays ready, also when it is configured again.     *)
LEMMA ReadyStays ==
  ASSUME Inv, [Next]_vars, NEW p \in Ports, Ready(p)
  PROVE  Ready(p)'
<1>1. CASE Usable(p)
  BY <1>1, RoutesStay DEF Ready, Usable
<1>2. CASE Configuring(p) /\ stage \in Marking
  <2>1. Configuring(p)' \/ Usable(p)'
    BY <1>2, ConfiguringUntilDone DEF Usable
  <2>2. stage' \in Marking \cup {"list"}
    BY <1>2 DEF Marking, Next, ConfigureStep, vars, Configure_NTDS_Device, AssignPort, StoreField,
      RefusePort, SkipPort, MarkConfigured, CreatePublishQueue, CreateSubscribeQueue,
      MakeSubscribeQueue, EndOfList, Report_Port_Status
  <2> QED
    BY <2>1, <2>2 DEF Ready, Configuring
<1> QED
  BY <1>1, <1>2 DEF Ready

LEMMA NextPortsMarked == Inv /\ PortsMarked /\ [Next]_vars => PortsMarked'
<1> SUFFICES ASSUME Inv, PortsMarked, [Next]_vars PROVE PortsMarked'
  OBVIOUS
<1>0. Device_Ports \in [Ports -> EntryType] /\ stores \in Seq(EntryType)
  BY DEF Inv, TypeOK
<1>1. CASE AssignPort
  <2>1. PICK i \in Ports, c \in Seq(EntryType) :
          /\ Len(c) \in {3, 6}
          /\ \A n \in 1..Len(c) : Holds(c[n], Device_Ports[i], head.device, head.port)
          /\ Device_Ports' = [Device_Ports EXCEPT ![i] = c[1]]
          /\ stores' = Tail(c)
    BY <1>1, AssignPortIs
  <2>2. \A n \in 1..Len(c) : Marked(c[n])
    BY <2>1 DEF Holds, PortsMarked
  <2>3. Marked(c[1]) /\ \A k \in 1..Len(stores') : Marked(stores'[k])
    BY <2>1, <2>2, RestIs
  <2>4. ASSUME NEW k \in Ports, Device_Ports'[k].device_id # 0 PROVE Marked(Device_Ports'[k])
    <3>1. Device_Ports'[k] = IF k = i THEN c[1] ELSE Device_Ports[k]
      BY <1>0, <2>1
    <3> QED
      BY <2>3, <2>4, <3>1 DEF PortsMarked
  <2> QED
    BY <2>3, <2>4 DEF PortsMarked, Marked
<1>2. CASE StoreField
  <2>1. /\ stage = "storing" /\ stores' = Tail(stores) /\ Len(stores) > 0
        /\ Device_Ports' = [Device_Ports EXCEPT ![lcl_index] = stores[1]]
    <3>1. stage = "storing"
      BY <1>2 DEF StoreField
    <3> QED
      BY <1>2, <3>1, StoreFieldIs
  <2>2. \A n \in 1..Len(stores) : Marked(stores[n])
    BY <2>1 DEF PortsMarked
  <2>3. Marked(stores[1]) /\ \A k \in 1..Len(stores') : Marked(stores'[k])
    BY <1>0, <2>1, <2>2, RestIs
  <2>4. ASSUME NEW k \in Ports, Device_Ports'[k].device_id # 0 PROVE Marked(Device_Ports'[k])
    <3>1. Device_Ports'[k] = IF k = lcl_index THEN stores[1] ELSE Device_Ports[k]
      BY <1>0, <2>1
    <3> QED
      BY <2>3, <2>4, <3>1 DEF PortsMarked
  <2> QED
    BY <2>3, <2>4 DEF PortsMarked, Marked
<1>3. CASE ~AssignPort /\ ~StoreField
  BY <1>3, OthersKeepTable DEF PortsMarked, Marked
<1> QED
  BY <1>1, <1>2, <1>3

LEMMA NextMarkPromises == Inv /\ MarkPromises /\ [Next]_vars => MarkPromises'
<1> SUFFICES ASSUME Inv, MarkPromises, [Next]_vars, NEW p \in Ports, Comm_Configured'[p]
             PROVE  Ready(p)'
  BY DEF MarkPromises
<1>1. CASE Comm_Configured[p]
  BY <1>1, ReadyStays DEF MarkPromises
<1>2. CASE ~Comm_Configured[p]
  <2>1. MarkConfigured
    BY <1>2, Zenon DEF Next, ConfigureStep, vars, tables, Configure_NTDS_Device, AssignPort,
      StoreField, RefusePort, SkipPort, CreatePublishQueue, CreateSubscribeQueue, MakeSubscribeQueue,
      EndOfList, Report_Port_Status
  <2>2. head.port = p
    BY <1>2, <2>1 DEF MarkConfigured, Inv, TypeOK
  <2> QED
    BY <2>1, <2>2 DEF MarkConfigured, Ready, Configuring, Marking, head
<1> QED
  BY <1>1, <1>2
----------------------------------------------------------------------------
(* Everything but the calls: the route of a port that was found stays.     *)
RoutesKept ==
  \A p \in Ports :
    /\ Usable(p) \/ Configuring(p) => (Usable(p) \/ Configuring(p))'
    /\ Ready(p) => Ready(p)'

LEMMA NextRoutesKept == Inv /\ [Next]_vars => RoutesKept
<1> SUFFICES ASSUME Inv, [Next]_vars, NEW p \in Ports
             PROVE  /\ Usable(p) \/ Configuring(p) => (Usable(p) \/ Configuring(p))'
                    /\ Ready(p) => Ready(p)'
  BY DEF RoutesKept
<1>1. Usable(p) => Usable(p)'
  BY RoutesStay DEF Usable
<1>2. Configuring(p) => Configuring(p)' \/ Usable(p)'
  BY ConfiguringUntilDone DEF Usable
<1> QED
  BY <1>1, <1>2, ReadyStays

(* A step that changes no call.                                            *)
LEMMA CallsStay ==
  ASSUME CommInv, RoutesKept, UNCHANGED callers
  PROVE  CallsTyped' /\ CallsRouted'
<1>0. UNCHANGED <<pc, device, port, strayed>>
  BY DEF callers
<1>1. CallsTyped'
  BY <1>0 DEF CommInv, CallsTyped
<1>2. \A t \in Threads : port[t] \in Ports
  BY DEF CommInv, CallsTyped
<1>3. \A s \in Senders : pc'[s] = "send" => (Usable(port[s]) \/ Configuring(port[s]) \/ Strays(s))'
  <2> SUFFICES ASSUME NEW s \in Senders, pc[s] = "send"
               PROVE  (Usable(port[s]) \/ Configuring(port[s]) \/ Strays(s))'
    BY <1>0
  <2>1. (Usable(port[s]) \/ Configuring(port[s]) \/ Strays(s)) /\ port[s] \in Ports
    BY <1>2 DEF CommInv, CallsRouted, Threads
  <2> QED
    BY <1>0, <2>1 DEF RoutesKept, Usable, Configuring, Strays, head
<1> QED
  BY <1>0, <1>1, <1>2, <1>3 DEF CommInv, CallsRouted, RoutesKept, Threads, Ready, Usable, Configuring, head

(* A step that ends a call, or lets a receiver go on to a port that it has *)
(* seen to be configured, and moves no table.                              *)
LEMMA CallMoves ==
  ASSUME CommInv, UNCHANGED <<vars, port, device, strayed>>, NEW t \in Threads, NEW next \in Places,
         pc' = [pc EXCEPT ![t] = next],
         next # "send",
         next \in {"poll", "try"} => Comm_Configured[port[t]]
  PROVE  CallsTyped' /\ CallsRouted'
<1>1. CallsTyped /\ CallsTyped'
  BY DEF CommInv, CallsTyped
<1>2. \A u \in Threads : pc'[u] = IF u = t THEN next ELSE pc[u]
  BY <1>1 DEF CallsTyped
<1>3. \A p \in Ports : Ready(p)' = Ready(p) /\ Usable(p)' = Usable(p) /\ Configuring(p)' = Configuring(p)
  BY DEF vars, tables, queues, Ready, Usable, Configuring, head
<1>4. /\ port' = port /\ \A u \in Threads : port[u] \in Ports
      /\ \A u \in Threads : Strays(u)' <=> Strays(u)
  BY <1>1 DEF CallsTyped, Strays
<1>5. next \in {"poll", "try"} => Ready(port[t])
  BY <1>4 DEF CommInv, MarkPromises
<1>6. CallsRouted
  BY DEF CommInv
<1> QED
  BY <1>1, <1>2, <1>3, <1>4, <1>5, <1>6, Zenon DEF CallsRouted, Threads

(* A call that finds its port.                                             *)
LEMMA CallStarts ==
  ASSUME CommInv, NEW t \in Threads, NEW d \in Devices, NEW found, NEW to \in {"send", "check"},
         FindPort(t, d, found, to),
         found \in {Entry(d).primary_port, Entry(d).normal_port}
  PROVE  CallsTyped' /\ CallsRouted'
<1>1. /\ found # NO_PRIMARY_PORT
      /\ HasEntry(d)
      /\ pc' = [pc EXCEPT ![t] = to]
      /\ port' = [port EXCEPT ![t] = found]
      /\ UNCHANGED vars /\ device' = [device EXCEPT ![t] = d]
      /\ strayed \subseteq strayed' /\ (Unstored(d, found) => d \in strayed')
  BY DEF FindPort, Goto
<1>2. PICK i \in Ports : Device_Ports[i].device_id = d /\ Entry(d) = Device_Ports[i]
  BY <1>1, EntryIs DEF CommInv
<1>3. d # 0
  BY PortsAssumption
<1>4. found \in Ports
  BY <1>1, <1>2, <1>3 DEF CommInv, PortsMarked, Marked
<1>5. found \in PortsIn(Device_Ports[i])
  BY <1>2, <1>4 DEF PortsIn
<1>6. Usable(found) \/ Configuring(found) \/ (found = 0 /\ d \in strayed')
  <2>1. Usable(found) \/ Configuring(found) \/ (found = 0 /\ Entry(d).count = 0)
    BY <1>2, <1>3, <1>5 DEF CommInv, Inv, RoutesComplete, Usable
  <2>2. CASE found = 0 /\ Entry(d).count = 0 /\ found = head.port
    BY <1>2, <1>3, <2>2 DEF CommInv, Inv, EntriesWhole, Configuring
  <2>3. CASE found = 0 /\ Entry(d).count = 0 /\ found # head.port
    BY <1>1, <2>3 DEF Unstored
  <2> QED
    BY <2>1, <2>2, <2>3
<1>7. CallsTyped /\ CallsTyped'
  BY <1>1, <1>4 DEF CommInv, CallsTyped, Places
<1>8. \A u \in Threads : /\ pc'[u] = IF u = t THEN to ELSE pc[u]
                         /\ port'[u] = IF u = t THEN found ELSE port[u]
  BY <1>1, <1>7 DEF CallsTyped
<1>12. \A u \in Threads : device'[u] = IF u = t THEN d ELSE device[u]
  BY <1>1, <1>7 DEF CommInv, CallsTyped
<1>13. \A u \in Threads : Strays(u)' <=> port'[u] = 0 /\ device'[u] \in strayed'
  BY DEF Strays
<1>14. \A u \in Threads : u # t => (Strays(u) => Strays(u)')
  BY <1>1, <1>8, <1>12 DEF Strays
<1>15. found = 0 /\ d \in strayed' => Strays(t)'
  BY <1>8, <1>12 DEF Strays
<1>9. \A p \in Ports : Ready(p)' = Ready(p) /\ Usable(p)' = Usable(p) /\ Configuring(p)' = Configuring(p)
  BY <1>1 DEF vars, tables, queues, Ready, Usable, Configuring, head
<1>10. \A u \in Threads : port[u] \in Ports
  BY <1>7 DEF CallsTyped
<1>11. CallsRouted
  BY DEF CommInv
<1> QED
  BY <1>4, <1>6, <1>7, <1>8, <1>9, <1>10, <1>11, <1>14, <1>15, Zenon DEF CallsRouted, Threads

LEMMA NextCalls == CommInv /\ [CommNext]_commVars => CallsTyped' /\ CallsRouted'
<1> SUFFICES ASSUME CommInv, [CommNext]_commVars PROVE CallsTyped' /\ CallsRouted'
  OBVIOUS
<1>0. RoutesKept
  BY TablesMove, NextRoutesKept DEF CommInv
<1>1. CASE Configure \/ OpenPublishQueue \/ OpenSubscribeQueue \/ Leave \/ DeleteQueue \/ Left
             \/ UNCHANGED commVars
  <2>1. UNCHANGED callers
    BY <1>1 DEF Configure, OpenPublishQueue, OpenSubscribeQueue, Leave, DeleteQueue, Left, commVars
  <2> QED
    BY <1>0, <2>1, CallsStay
<1>2. CASE \E n \in Names : PartnerOpens(n) \/ PartnerSends(n) \/ PartnerTakes(n)
  <2>1. UNCHANGED callers
    BY <1>2 DEF PartnerOpens, PartnerSends, PartnerTakes
  <2> QED
    BY <1>0, <2>1, CallsStay
<1>3. ASSUME NEW s \in Senders, SendStep(s) PROVE CallsTyped' /\ CallsRouted'
  <2>0. s \in Threads
    BY DEF Threads
  <2>1. ASSUME NEW d \in Devices, Send_NTDS_Mesg(s, d) PROVE CallsTyped' /\ CallsRouted'
    BY <2>0, <2>1, CallStarts, Zenon DEF Send_NTDS_Mesg, get_port
  <2>2. CASE Publish(s)
    <3>1. UNCHANGED <<vars, port, device, strayed>> /\ pc' = [pc EXCEPT ![s] = "idle"]
      BY <2>2 DEF Publish, Goto
    <3> QED
      BY <2>0, <3>1, CallMoves DEF Places
  <2>3. CASE UseNothing(s)
    <3>1. UNCHANGED <<vars, port, device, strayed>> /\ pc' = [pc EXCEPT ![s] = "broken"]
      BY <2>3 DEF UseNothing
    <3> QED
      BY <2>0, <3>1, CallMoves DEF Places
  <2> QED
    BY <1>3, <2>1, <2>2, <2>3 DEF SendStep
<1>4. ASSUME NEW r \in Receivers, RecvStep(r) \/ PollStep(r) PROVE CallsTyped' /\ CallsRouted'
  <2>0. r \in Threads
    BY DEF Threads
  <2>1. ASSUME NEW d \in Devices, Recv_NTDS_Mesg(r, d) PROVE CallsTyped' /\ CallsRouted'
    BY <2>0, <2>1, CallStarts, Zenon DEF Recv_NTDS_Mesg, get_port
  <2>2. CASE CheckConfigured(r)
    <3>1. PICK next \in {"poll", "try"} : GoOn(r, IF Comm_Configured[port[r]] THEN next ELSE "idle")
      BY <2>2 DEF CheckConfigured
    <3>2. /\ UNCHANGED <<vars, port, device, strayed>>
          /\ pc' = [pc EXCEPT ![r] = IF Comm_Configured[port[r]] THEN next ELSE "idle"]
      BY <3>1 DEF GoOn, Goto
    <3> QED
      BY <2>0, <3>2, CallMoves DEF Places
  <2>3. CASE TryOnce(r) \/ TryInVain(r) \/ Poll(r)
    <3>1. UNCHANGED <<vars, port, device, strayed>> /\ pc' = [pc EXCEPT ![r] = "idle"]
      BY <2>3 DEF TryOnce, TryInVain, Poll, Take, Goto
    <3> QED
      BY <2>0, <3>1, CallMoves DEF Places
  <2>4. CASE UseNothing(r)
    <3>1. UNCHANGED <<vars, port, device, strayed>> /\ pc' = [pc EXCEPT ![r] = "broken"]
      BY <2>4 DEF UseNothing
    <3> QED
      BY <2>0, <3>1, CallMoves DEF Places
  <2> QED
    BY <1>4, <2>1, <2>2, <2>3, <2>4 DEF RecvStep, PollStep
<1> QED
  BY <1>1, <1>2, <1>3, <1>4, Zenon DEF CommNext

LEMMA NextKept == KeptWhileRunning /\ [CommNext]_commVars => KeptWhileRunning'
BY Zenon DEF KeptWhileRunning, CommNext, commVars, Configure, OpenPublishQueue,
  OpenSubscribeQueue, PartnerOpens, PartnerSends, PartnerTakes, SendStep, Send_NTDS_Mesg, FindPort,
  Publish, RecvStep, PollStep, Recv_NTDS_Mesg, CheckConfigured, GoOn, TryOnce, TryInVain, Poll,
  Take, UseNothing, Leave, DeleteQueue, Left

LEMMA InitCommInv == CommInit => CommInv
<1> SUFFICES ASSUME CommInit PROVE CommInv
  OBVIOUS
<1>1. Init /\ Inv
  BY InitInv DEF CommInit
<1>2. CallsTyped
  <2>1. 0 \in Ports
    BY PortsAssumption DEF Ports
  <2> QED
    BY <2>1 DEF CommInit, CallsTyped, Places
<1>3. PortsMarked
  BY <1>1, Zenon DEF Init, EmptyEntry, PortsMarked
<1>4. MarkPromises
  BY <1>1 DEF Init, MarkPromises
<1>5. CallsRouted
  BY DEF CommInit, CallsRouted, Threads
<1> QED
  BY <1>1, <1>2, <1>3, <1>4, <1>5 DEF CommInv, KeptWhileRunning, CommInit
----------------------------------------------------------------------------
THEOREM CommInvariance == CommSpec => []CommInv
<1>1. CommInv /\ [CommNext]_commVars => CommInv'
  BY TablesMove, TablesKeepInv, NextPortsMarked, NextMarkPromises, NextCalls, NextKept, Zenon
  DEF CommInv
<1> QED
  BY InitCommInv, <1>1, PTL DEF CommSpec

(* A call that has found its port, and has not seen that it is not         *)
(* configured, has the queue that it is going to use, unless that port is  *)
(* just being configured or the call is a Send of a device whose entry     *)
(* showed port 0 before its own was stored.                                *)
THEOREM RouteSafe == CommSpec => []RouteThere
<1>1. CommInv => RouteThere
  BY Zenon DEF CommInv, CallsRouted, RouteThere, Ready, Usable, Strays, Marking
<1> QED
  BY <1>1, CommInvariance, PTL
----------------------------------------------------------------------------
(* What passes through the queues.  A queue's semaphore never promises     *)
(* more than is there while the queue is up.                               *)
Mesgs == Devices \cup Names
Queue == [there : BOOLEAN, up : BOOLEAN, tokens : Nat, content : Seq(Mesgs)]

QueuesTyped ==
  /\ queueName \in [Ports -> Names]
  /\ shared \in [Directions -> [Names -> Queue]]
  /\ mesg \in [Threads -> SUBSET Mesgs]
  /\ \A dir \in Directions, n \in Names :
       shared[dir][n].up => shared[dir][n].tokens <= Len(shared[dir][n].content)

(* The two queues of a port are made once.                                 *)
MadeOnce ==
  /\ \A p \in Ports : subscribeQueue[p] => publishQueue[p]
  /\ stage = "published" => ~subscribeQueue[head.port]

(* An entry shows, or will, only ports that its device was given, and zero *)
(* until it is counted; whoever is in a call uses a port that its device   *)
(* was given, unless a call of the device has strayed to port 0.           *)
WasGiven(d, p) == \E k \in 1..Len(given[d]) : given[d][k].port = p
OnlyGiven(e) == \A p \in PortsIn(e) : WasGiven(e.device_id, p) \/ (p = 0 /\ e.count = 0)
EntriesGiven ==
  /\ \A i \in Ports : Device_Ports[i].device_id # 0 => OnlyGiven(Device_Ports[i])
  /\ stage = "storing" =>
       /\ WasGiven(head.device, head.port)
       /\ \A k \in 1..Len(stores) : OnlyGiven(stores[k])
MayUse(d, p) == WasGiven(d, p) \/ (p = 0 /\ d \in strayed)
CallsGiven ==
  \A t \in Threads : pc[t] \in {"send", "check", "poll", "try"} =>
    device[t] \in Devices /\ MayUse(device[t], port[t])

(* A partner sends on its own queue; a device's messages are under its own *)
(* names.                                                                  *)
QueuesOwn ==
  \A n \in Names :
    /\ \A i \in 1..Len(shared["pub"][n].content) :
         /\ shared["pub"][n].content[i] \in Devices
         /\ n \in NamesUsed(shared["pub"][n].content[i])
    /\ \A i \in 1..Len(shared["sub"][n].content) : shared["sub"][n].content[i] = n
MesgsOwn ==
  \A t \in Threads : mesg[t] # {} =>
    device[t] \in Devices /\ mesg[t] \subseteq NamesUsed(device[t])

(* The ends of a queue that the process has, and has not deleted.          *)
Owned(dir, n) == \E q \in ToDelete : q[1] = dir /\ queueName[q[2]] = n

(* Without two ports of one name, a queue that the partner has not opened  *)
(* has one user; and with them, one that is up has one here, unless the    *)
(* process has closed it.                                                  *)
OneUser ==
  \A dir \in Directions, n \in Names :
    n \notin partner =>
      /\ shared[dir][n].there => Owned(dir, n)
      /\ NamesApart => ~shared[dir][n].up
UpIsOwned ==
  \A dir \in Directions, n \in Names : shared[dir][n].up => Owned(dir, n)
IdleWhenLeaving ==
  /\ exit # "running" => stage = "idle"
  /\ exit = "left" => ToDelete = {}

TrafficInv ==
  /\ CommInv
  /\ QueuesTyped
  /\ MadeOnce
  /\ EntriesGiven
  /\ CallsGiven
  /\ QueuesOwn
  /\ MesgsOwn
  /\ OneUser
  /\ UpIsOwned
  /\ IdleWhenLeaving
----------------------------------------------------------------------------
(* How a queue moves: it is opened by one that had not opened it, closed   *)
(* by its owner, or used while it is up.                                   *)
Has(dir, p) == IF dir = "pub" THEN publishQueue[p] ELSE subscribeQueue[p]

OpensHere(dir, n) ==
  exit = "running" /\ \E p \in Ports : queueName[p] = n /\ ~Has(dir, p) /\ Has(dir, p)'
SendsOwn(dir, n, m) ==
  /\ dir = "pub" => \E s \in Senders : pc[s] = "send" /\ n = queueName[port[s]] /\ m = device[s]
  /\ dir = "sub" => m = n

Added(q, m) == [q EXCEPT !.content = Append(q.content, m), !.tokens = q.tokens + 1]
Taken(q) == [q EXCEPT !.content = Tail(q.content), !.tokens = q.tokens - 1]

Stays(dir, n) == shared'[dir][n] = shared[dir][n]
Opens(dir, n) ==
  shared'[dir][n] = Opened(shared[dir][n]) /\ (n \in partner' \ partner \/ OpensHere(dir, n))
Closes(dir, n) == shared'[dir][n] = Closed(shared[dir][n]) /\ exit = "leaving"
Adds(dir, n, m) ==
  shared[dir][n].up /\ SendsOwn(dir, n, m) /\ shared'[dir][n] = Added(shared[dir][n], m)
Takes(dir, n) == CanGet(dir, n) /\ shared'[dir][n] = Taken(shared[dir][n])

CellMoves(dir, n) ==
  \/ Stays(dir, n)
  \/ Opens(dir, n)
  \/ Closes(dir, n)
  \/ \E m : Adds(dir, n, m)
  \/ Takes(dir, n)

IsTable(new) == new = [dir \in Directions |-> [n \in Names |-> new[dir][n]]]
QueuesMove == IsTable(shared') /\ \A dir \in Directions, n \in Names : CellMoves(dir, n)

(* One cell changes.                                                       *)
LEMMA OneCell ==
  ASSUME QueuesTyped, NEW dir \in Directions, NEW n \in Names, NEW new,
         shared' = [shared EXCEPT ![dir][n] = new],
         shared'[dir][n] = new => CellMoves(dir, n)
  PROVE  QueuesMove
<1>1. shared \in [Directions -> [Names -> Queue]]
  BY DEF QueuesTyped
<1>2. IsTable(shared')
  BY <1>1 DEF IsTable
<1>3. \A e \in Directions, m \in Names :
        shared'[e][m] = IF e = dir /\ m = n THEN new ELSE shared[e][m]
  BY <1>1
<1>4. ASSUME NEW e \in Directions, NEW m \in Names PROVE CellMoves(e, m)
  <2>1. CASE e = dir /\ m = n
    BY <1>3, <2>1
  <2>2. CASE ~(e = dir /\ m = n)
    BY <1>3, <2>2, Zenon DEF CellMoves, Stays
  <2> QED
    BY <2>1, <2>2
<1> QED
  BY <1>2, <1>4 DEF QueuesMove

LEMMA NoCell ==
  ASSUME QueuesTyped, shared' = shared
  PROVE  QueuesMove
  BY DEF QueuesTyped, QueuesMove, IsTable, CellMoves, Stays

LEMMA NextQueuesMove == TrafficInv /\ [CommNext]_commVars => QueuesMove
<1> SUFFICES ASSUME TrafficInv, [CommNext]_commVars PROVE QueuesMove
  OBVIOUS
<1>1. QueuesTyped /\ CommInv
  BY DEF TrafficInv
<1>2. queueName \in [Ports -> Names] /\ port \in [Threads -> Ports]
  BY <1>1 DEF QueuesTyped, CommInv, CallsTyped
<1>3. CASE Configure \/ Leave \/ Left \/ UNCHANGED commVars
  <2>1. shared' = shared
    BY <1>3 DEF Configure, Leave, Left, commVars
  <2> QED
    BY <1>1, <2>1, NoCell
<1>4. ASSUME stage \in {"configured", "published"}
      PROVE  head.port \in Ports /\ queueName[head.port] \in Names /\ exit = "running"
  BY <1>2, <1>4 DEF TrafficInv, CommInv, Inv, HeadInRange, Stages, IdleWhenLeaving
<1>5. CASE OpenPublishQueue
  <2> DEFINE n == queueName[head.port]
  <2>0. n \in Names /\ head.port \in Ports /\ exit = "running" /\ "pub" \in Directions
    BY <1>4, <1>5 DEF OpenPublishQueue, CreatePublishQueue, Directions
  <2>1. CASE publishQueue[head.port]
    <3>1. shared' = shared
      BY <1>5, <2>1 DEF OpenPublishQueue
    <3> QED
      BY <1>1, <3>1, NoCell
  <2>2. CASE ~publishQueue[head.port]
    <3>1. shared' = [shared EXCEPT !["pub"][n] = Opened(shared["pub"][n])]
      BY <1>5, <2>2 DEF OpenPublishQueue, Open
    <3>2. publishQueue' = [publishQueue EXCEPT ![head.port] = TRUE]
      BY <1>5 DEF OpenPublishQueue, CreatePublishQueue
    <3>3. publishQueue'[head.port] /\ publishQueue \in [Ports -> BOOLEAN]
      BY <1>1, <2>0, <3>2 DEF CommInv, Inv, TypeOK
    <3>4. OpensHere("pub", n)
      BY <2>0, <2>2, <3>3 DEF OpensHere, Has
    <3>5. shared'["pub"][n] = Opened(shared["pub"][n]) => CellMoves("pub", n)
      BY <3>4, Zenon DEF CellMoves, Opens
    <3> HIDE DEF n
    <3> QED
      BY <1>1, <2>0, <3>1, <3>5, OneCell
  <2> QED
    BY <2>1, <2>2
<1>6. CASE OpenSubscribeQueue
  <2> DEFINE n == queueName[head.port]
  <2>0. n \in Names /\ head.port \in Ports /\ exit = "running" /\ "sub" \in Directions
    BY <1>4, <1>6 DEF OpenSubscribeQueue, CreateSubscribeQueue, MakeSubscribeQueue, Directions
  <2>1. shared' = [shared EXCEPT !["sub"][n] = Opened(shared["sub"][n])]
    BY <1>6 DEF OpenSubscribeQueue, Open
  <2>2. subscribeQueue' = [subscribeQueue EXCEPT ![head.port] = TRUE] /\ stage = "published"
    BY <1>6 DEF OpenSubscribeQueue, CreateSubscribeQueue, MakeSubscribeQueue
  <2>3. subscribeQueue'[head.port] /\ ~subscribeQueue[head.port]
    BY <1>1, <2>0, <2>2 DEF CommInv, Inv, TypeOK, TrafficInv, MadeOnce
  <2>4. OpensHere("sub", n)
    BY <2>0, <2>3 DEF OpensHere, Has
  <2>5. shared'["sub"][n] = Opened(shared["sub"][n]) => CellMoves("sub", n)
    BY <2>4, Zenon DEF CellMoves, Opens
  <2> HIDE DEF n
  <2> QED
    BY <1>1, <2>0, <2>1, <2>5, OneCell
<1>7. ASSUME NEW n \in Names, PartnerOpens(n) PROVE QueuesMove
  <2>1. shared \in [Directions -> [Names -> Queue]]
    BY <1>1 DEF QueuesTyped
  <2>2. /\ shared' = [dir \in Directions |-> [shared[dir] EXCEPT ![n] = Opened(@)]]
        /\ n \in partner' \ partner
    BY <1>7 DEF PartnerOpens
  <2>3. IsTable(shared')
    BY <2>1, <2>2 DEF IsTable
  <2>4. \A e \in Directions, m \in Names :
          shared'[e][m] = IF m = n THEN Opened(shared[e][n]) ELSE shared[e][m]
    BY <2>1, <2>2
  <2> QED
    <3>1. ASSUME NEW e \in Directions, NEW m \in Names PROVE Stays(e, m) \/ Opens(e, m)
      BY <2>2, <2>4 DEF Stays, Opens
    <3> QED
      BY <2>3, <3>1, Zenon DEF QueuesMove, CellMoves
<1>8. ASSUME NEW n \in Names, PartnerSends(n) PROVE QueuesMove
  <2>1. /\ shared["sub"][n].up
        /\ shared' = [shared EXCEPT !["sub"][n].content = Append(@, n), !["sub"][n].tokens = @ + 1]
    BY <1>8 DEF PartnerSends, Add
  <2> DEFINE new == Added(shared["sub"][n], n)
  <2>2. shared' = [shared EXCEPT !["sub"][n] = new] /\ "sub" \in Directions
    BY <1>1, <2>1 DEF QueuesTyped, Queue, Directions, Added
  <2>3. SendsOwn("sub", n, n)
    BY DEF SendsOwn
  <2>4. shared'["sub"][n] = new => CellMoves("sub", n)
    BY <2>1, <2>3, Zenon DEF CellMoves, Adds
  <2> HIDE DEF new
  <2> QED
    BY <1>1, <2>2, <2>4, OneCell
<1>9. ASSUME NEW dir \in Directions, NEW n \in Names, Get(dir, n) PROVE QueuesMove
  <2> DEFINE new == Taken(shared[dir][n])
  <2>1. shared' = [shared EXCEPT ![dir][n] = new] /\ CanGet(dir, n)
    BY <1>1, <1>9 DEF QueuesTyped, Queue, Get, Taken
  <2>2. shared'[dir][n] = new => CellMoves(dir, n)
    BY <2>1, Zenon DEF CellMoves, Takes
  <2> HIDE DEF new
  <2> QED
    BY <1>1, <2>1, <2>2, OneCell
<1>10. ASSUME NEW n \in Names, PartnerTakes(n) PROVE QueuesMove
  BY <1>9, <1>10 DEF PartnerTakes, Directions
<1>11. ASSUME NEW s \in Senders, SendStep(s) PROVE QueuesMove
  <2>1. CASE shared' = shared
    BY <1>1, <2>1, NoCell
  <2>2. CASE shared' # shared
    <3> DEFINE n == queueName[port[s]]
    <3>1. Publish(s) /\ pc[s] = "send"
      BY <1>11, <2>2 DEF SendStep, Send_NTDS_Mesg, FindPort, UseNothing, Publish, Goto
    <3>2. Add("pub", n, device[s])
      BY <2>2, <3>1 DEF Publish
    <3>3. n \in Names /\ "pub" \in Directions
      BY <1>2 DEF Threads, Directions
    <3>4. /\ shared["pub"][n].up
          /\ shared' = [shared EXCEPT !["pub"][n].content = Append(@, device[s]), !["pub"][n].tokens = @ + 1]
      BY <3>2 DEF Add
    <3> DEFINE new == Added(shared["pub"][n], device[s])
    <3>5. SendsOwn("pub", n, device[s])
      BY <3>1 DEF SendsOwn
    <3> HIDE DEF n
    <3>6. shared' = [shared EXCEPT !["pub"][n] = new]
      BY <1>1, <3>3, <3>4 DEF QueuesTyped, Queue, Added
    <3>7. shared'["pub"][n] = new => CellMoves("pub", n)
      BY <3>4, <3>5, Zenon DEF CellMoves, Adds
    <3> HIDE DEF new
    <3> QED
      BY <1>1, <3>3, <3>6, <3>7, OneCell
  <2> QED
    BY <2>1, <2>2
<1>12. ASSUME NEW r \in Receivers, RecvStep(r) \/ PollStep(r) PROVE QueuesMove
  <2>1. CASE shared' = shared
    BY <1>1, <2>1, NoCell
  <2>2. CASE shared' # shared
    <3>1. Take(r, "sub")
      BY <1>12, <2>2, Zenon DEF RecvStep, PollStep, Recv_NTDS_Mesg, FindPort, UseNothing, CheckConfigured,
        GoOn, TryOnce, TryInVain, Poll
    <3>2. Get("sub", queueName[port[r]]) /\ queueName[port[r]] \in Names
      BY <1>2, <3>1 DEF Take, Threads
    <3> QED
      BY <1>9, <3>2 DEF Directions
  <2> QED
    BY <2>1, <2>2
<1>13. CASE DeleteQueue
  <2>1. PICK q \in ToDelete : shared' = [shared EXCEPT ![q[1]][queueName[q[2]]] = Closed(@)]
    BY <1>13 DEF DeleteQueue
  <2>2. q[1] \in Directions /\ queueName[q[2]] \in Names
    BY <1>2 DEF ToDelete, Created
  <2> DEFINE dir == q[1]
             n == queueName[q[2]]
  <2>3. shared' = [shared EXCEPT ![dir][n] = Closed(shared[dir][n])]
    BY <2>1
  <2>4. shared'[dir][n] = Closed(shared[dir][n]) => CellMoves(dir, n)
    BY <1>13, Zenon DEF CellMoves, Closes, DeleteQueue
  <2> HIDE DEF dir, n
  <2>5. dir \in Directions /\ n \in Names
    BY <2>2 DEF dir, n
  <2> QED
    BY <1>1, <2>3, <2>4, <2>5, OneCell
<1> QED
  BY <1>3, <1>5, <1>6, <1>7, <1>8, <1>10, <1>11, <1>12, <1>13, Zenon DEF CommNext
----------------------------------------------------------------------------
(* What a move leaves in a queue.                                          *)
Backed(q) == q.up => q.tokens <= Len(q.content)

LEMMA CellKept ==
  ASSUME NEW q \in Queue, Backed(q)
  PROVE  /\ Opened(q) \in Queue /\ Backed(Opened(q))
         /\ Closed(q) \in Queue /\ Backed(Closed(q))
         /\ \A m \in Mesgs : Added(q, m) \in Queue /\ Backed(Added(q, m))
         /\ q.up /\ q.tokens > 0 => Taken(q) \in Queue /\ Backed(Taken(q)) /\ Len(q.content) > 0
<1> DEFINE S == Seq(Mesgs)
           Q == [there : BOOLEAN, up : BOOLEAN, tokens : Nat, content : S]
<1>0. Queue = Q /\ q \in Q /\ q.tokens \in Nat /\ Len(q.content) \in Nat /\ q.content \in S
  BY DEF Queue
<1>a. <<>> \in S
  OBVIOUS
<1>b. \A m \in Mesgs : Append(q.content, m) \in S /\ Len(Append(q.content, m)) = Len(q.content) + 1
  BY <1>0
<1> HIDE DEF S
<1>1. Opened(q) \in Q /\ Opened(q).tokens = 0 /\ Len(Opened(q).content) \in Nat
  <2>1. CASE q.there
    <3> DEFINE u == [q EXCEPT !.up = TRUE]
    <3>1. u \in Q /\ u.content = q.content
      BY <1>0
    <3>2. Opened(q) = [u EXCEPT !.tokens = 0]
      BY <2>1 DEF Opened
    <3> HIDE DEF u
    <3>3. Opened(q) \in Q /\ Opened(q).tokens = 0 /\ Opened(q).content = q.content
      BY <1>0, <3>1, <3>2
    <3> QED
      BY <1>0, <3>3
  <2>2. CASE ~q.there
    <3>1. Opened(q) = [there |-> TRUE, up |-> FALSE, tokens |-> 0, content |-> <<>>]
      BY <2>2 DEF Opened, Unused
    <3> QED
      BY <1>a, <3>1
  <2> QED
    BY <2>1, <2>2
<1>2. Closed(q) \in Q /\ ~Closed(q).up
  <2> DEFINE u == [q EXCEPT !.there = FALSE]
             v == [u EXCEPT !.up = FALSE]
  <2>1. u \in Q /\ u.tokens = q.tokens
    BY <1>0
  <2>2. v \in Q /\ v.tokens = q.tokens /\ v.up = FALSE
    <3> HIDE DEF u
    <3> QED
      BY <2>1
  <2>3. Closed(q) = [v EXCEPT !.tokens = q.tokens + 1]
    BY DEF Closed
  <2> HIDE DEF v
  <2> QED
    BY <1>0, <2>2, <2>3
<1>3. ASSUME NEW m \in Mesgs PROVE Added(q, m) \in Q /\ Backed(Added(q, m))
  <2> DEFINE u == [q EXCEPT !.content = Append(q.content, m)]
  <2>a. u \in Q /\ Added(q, m) = [u EXCEPT !.tokens = q.tokens + 1]
    BY <1>0, <1>b DEF Added
  <2>1. Added(q, m) \in Q
    <3> HIDE DEF u
    <3> QED
      BY <1>0, <2>a
  <2>2. /\ Added(q, m).up = q.up
        /\ Added(q, m).tokens = q.tokens + 1
        /\ Added(q, m).content = Append(q.content, m)
    BY <1>0 DEF Added
  <2>3. q.tokens <= Len(q.content) => Added(q, m).tokens <= Len(Added(q, m).content)
    BY <1>0, <1>b, <2>2
  <2> QED
    BY <2>1, <2>2, <2>3, Zenon DEF Backed
<1>4. ASSUME q.up, q.tokens > 0
      PROVE  Taken(q) \in Q /\ Backed(Taken(q)) /\ Len(q.content) > 0
  <2>1. Len(q.content) >= q.tokens
    BY <1>0, <1>4 DEF Backed
  <2>2. q.content # <<>> /\ Len(q.content) > 0
    BY <1>0, <1>4, <2>1
  <2>3. Tail(q.content) \in S /\ Len(Tail(q.content)) = Len(q.content) - 1
    BY <1>0, <2>2 DEF S
  <2> DEFINE u == [q EXCEPT !.content = Tail(q.content)]
  <2>a. u \in Q /\ Taken(q) = [u EXCEPT !.tokens = q.tokens - 1]
    BY <1>0, <2>3 DEF Taken
  <2>4. Taken(q) \in Q
    <3> HIDE DEF u
    <3> QED
      BY <1>0, <1>4, <2>a
  <2>5. Taken(q).tokens = q.tokens - 1 /\ Taken(q).content = Tail(q.content)
    BY <1>0 DEF Taken
  <2>6. Taken(q).tokens <= Len(Taken(q).content)
    BY <1>0, <2>1, <2>3, <2>5
  <2> QED
    BY <2>2, <2>4, <2>6, Zenon DEF Backed
<1> HIDE DEF Q
<1>5. Backed(Opened(q)) /\ Backed(Closed(q))
  <2>1. 0 <= Len(Opened(q).content)
    BY <1>1
  <2> QED
    BY <1>1, <1>2, <2>1, Zenon DEF Backed
<1> QED
  BY <1>0, <1>1, <1>2, <1>3, <1>4, <1>5, Zenon

(* What is in a queue was there before or has just been sent.              *)
LEMMA ContentFrom ==
  ASSUME TrafficInv, NEW dir \in Directions, NEW n \in Names, CellMoves(dir, n)
  PROVE  /\ shared'[dir][n] \in Queue
         /\ Backed(shared'[dir][n])
         /\ \A i \in 1..Len(shared'[dir][n].content) :
              \/ \E j \in 1..Len(shared[dir][n].content) :
                   shared'[dir][n].content[i] = shared[dir][n].content[j]
              \/ SendsOwn(dir, n, shared'[dir][n].content[i])
<1> DEFINE q == shared[dir][n]
           new == shared'[dir][n]
           From(r) == \A i \in 1..Len(r.content) :
                        \/ \E j \in 1..Len(q.content) : r.content[i] = q.content[j]
                        \/ SendsOwn(dir, n, r.content[i])
<1>1. q \in Queue /\ Backed(q)
  BY DEF TrafficInv, QueuesTyped, Backed
<1>2. q.content \in Seq(Mesgs)
  BY <1>1 DEF Queue
<1>3. CASE Stays(dir, n)
  BY <1>1, <1>3 DEF Stays
<1>4. CASE Opens(dir, n)
  <2>1. new = Opened(q)
    BY <1>4 DEF Opens
  <2>2. Opened(q).content = q.content \/ Opened(q).content = <<>>
    BY <1>1 DEF Opened, Unused, Queue
  <2> HIDE DEF new, q
  <2>3. From(new)
    BY <2>1, <2>2
  <2> QED
    BY <1>1, <2>1, <2>3, CellKept DEF new, q
<1>5. CASE Closes(dir, n)
  <2>1. new = Closed(q)
    BY <1>5 DEF Closes
  <2>2. Closed(q).content = q.content
    BY <1>1 DEF Closed, Queue
  <2> HIDE DEF new, q
  <2>3. From(new)
    BY <2>1, <2>2
  <2> QED
    BY <1>1, <2>1, <2>3, CellKept DEF new, q
<1>6. ASSUME NEW m, Adds(dir, n, m)
      PROVE  new \in Queue /\ Backed(new) /\ From(new)
  <2>1. new = Added(q, m) /\ SendsOwn(dir, n, m)
    BY <1>6 DEF Adds
  <2>2. m \in Mesgs
    BY <2>1 DEF SendsOwn, TrafficInv, CallsGiven, Threads, Mesgs, Directions
  <2>3. Added(q, m).content = Append(q.content, m)
    BY <1>1 DEF Added, Queue
  <2>4. From(Added(q, m))
    <3> HIDE DEF q
    <3> SUFFICES ASSUME NEW i \in 1..Len(Append(q.content, m))
                 PROVE  \/ \E j \in 1..Len(q.content) : Append(q.content, m)[i] = q.content[j]
                        \/ SendsOwn(dir, n, Append(q.content, m)[i])
      BY <2>3
    <3>1. CASE i = Len(q.content) + 1
      BY <1>2, <2>1, <2>2, <3>1
    <3>2. CASE i \in 1..Len(q.content)
      BY <1>2, <2>2, <3>2
    <3> QED
      BY <1>2, <2>2, <3>1, <3>2
  <2> HIDE DEF new, q, From
  <2> QED
    BY <1>1, <2>1, <2>2, <2>4, CellKept
<1>7. CASE Takes(dir, n)
  <2>1. new = Taken(q) /\ q.up /\ q.tokens > 0
    BY <1>7 DEF Takes, CanGet
  <2>2. Taken(q).content = Tail(q.content)
    BY <1>1 DEF Taken, Queue
  <2> HIDE DEF new, q
  <2>3. Taken(q) \in Queue /\ Backed(Taken(q)) /\ Len(q.content) > 0
    BY <1>1, <2>1, CellKept
  <2>4. q.content # <<>>
    BY <1>2, <2>3
  <2>5. \A i \in 1..Len(Tail(q.content)) :
          i + 1 \in 1..Len(q.content) /\ Tail(q.content)[i] = q.content[i + 1]
    BY <1>2, <2>4
  <2>6. From(Taken(q))
    BY <2>2, <2>5
  <2> QED
    BY <2>1, <2>3, <2>6 DEF new, q
<1> QED
  BY <1>3, <1>4, <1>5, <1>6, <1>7 DEF CellMoves

(* A port that was given stays given, and queues that were made stay made. *)
GivenThen(d, p) == \E k \in 1..Len(given'[d]) : given'[d][k].port = p
NamesThen(d) ==
  {queueName'[given'[d][k].port] : k \in 1..Len(given'[d])}
    \cup (IF d \in strayed' THEN {queueName'[0]} ELSE {})

Grows ==
  /\ queueName' = queueName
  /\ partner \subseteq partner' /\ strayed \subseteq strayed'
  /\ \A d \in Devices, p \in Ports : WasGiven(d, p) => GivenThen(d, p)
  /\ \A p \in Ports : (publishQueue[p] => publishQueue'[p]) /\ (subscribeQueue[p] => subscribeQueue'[p])

LEMMA NextGrows == TrafficInv /\ [CommNext]_commVars => Grows
<1> SUFFICES ASSUME TrafficInv, [CommNext]_commVars PROVE Grows
  OBVIOUS
<1>0. Inv /\ [Next]_vars
  BY TablesMove DEF TrafficInv, CommInv
<1>1. queueName' = queueName /\ partner \subseteq partner' /\ strayed \subseteq strayed'
  BY Zenon DEF CommNext, commVars, callers, Configure, OpenPublishQueue, OpenSubscribeQueue, PartnerOpens,
    PartnerSends, PartnerTakes, SendStep, Send_NTDS_Mesg, FindPort, Publish, RecvStep, PollStep,
    Recv_NTDS_Mesg, CheckConfigured, GoOn, TryOnce, TryInVain, Poll, Take, UseNothing, Leave,
    DeleteQueue, Left
<1>2. ASSUME NEW d \in Devices, NEW p \in Ports, WasGiven(d, p) PROVE GivenThen(d, p)
  <2>1. CASE given' = given
    BY <1>2, <2>1 DEF WasGiven, GivenThen
  <2>2. CASE given' # given
    <3>1. AssignPort
      BY <1>0, <2>2, Zenon DEF Next, ConfigureStep, vars, Configure_NTDS_Device, StoreField, RefusePort, SkipPort,
        MarkConfigured, CreatePublishQueue, CreateSubscribeQueue, MakeSubscribeQueue, EndOfList,
        Report_Port_Status
    <3> DEFINE T == [port : Ports, flag : Flags]
               r == [port |-> head.port, flag |-> list[at].flag]
    <3>2. given \in [Devices -> Seq(T)] /\ head.device \in Devices /\ r \in T
      BY <1>0, <3>1, AssignPortIs DEF Inv, TypeOK, Flags
    <3>3. given' = [given EXCEPT ![head.device] = Append(given[head.device], r)]
      BY <3>1 DEF AssignPort
    <3> HIDE DEF T, r
    <3>4. given'[d] = given[d] \/ given'[d] = Append(given[d], r)
      BY <3>2, <3>3
    <3>5. PICK k \in 1..Len(given[d]) : given[d][k].port = p
      BY <1>2 DEF WasGiven, GivenThen
    <3>6. given[d] \in Seq(T)
      BY <3>2
    <3>7. k \in 1..Len(given'[d]) /\ given'[d][k] = given[d][k]
      BY <3>2, <3>4, <3>5, <3>6
    <3> QED
      BY <3>5, <3>7 DEF WasGiven, GivenThen
  <2> QED
    BY <2>1, <2>2
<1>3. ASSUME NEW p \in Ports
      PROVE (publishQueue[p] => publishQueue'[p]) /\ (subscribeQueue[p] => subscribeQueue'[p])
  BY <1>0 DEF Inv, TypeOK, Next, ConfigureStep, vars, tables, queues, Configure_NTDS_Device, AssignPort,
    StoreField, RefusePort, SkipPort, MarkConfigured, CreatePublishQueue, CreateSubscribeQueue,
    MakeSubscribeQueue, EndOfList, Report_Port_Status
<1> QED
  BY <1>1, <1>2, <1>3 DEF Grows

(* The name of a port that a device was given, or has strayed to, is among *)
(* those it uses, for good.                                                *)
LEMMA NameKept ==
  ASSUME TrafficInv, Grows, NEW d \in Devices, NEW n \in NamesUsed(d)
  PROVE  n \in NamesThen(d)
<1>1. CASE n \in NamesOf(d)
  <2>1. PICK k \in 1..Len(given[d]) : n = queueName[given[d][k].port]
    BY <1>1 DEF NamesOf
  <2> DEFINE T == [port : Ports, flag : Flags]
             p == given[d][k].port
  <2>2. given \in [Devices -> Seq(T)]
    BY DEF TrafficInv, CommInv, Inv, TypeOK, Flags
  <2> HIDE DEF T
  <2>3. given[d][k] \in T
    BY <2>2
  <2>4. p \in Ports
    BY <2>3 DEF T
  <2>5. WasGiven(d, p)
    BY <2>1 DEF WasGiven
  <2> HIDE DEF p
  <2>6. PICK j \in 1..Len(given'[d]) : given'[d][j].port = p
    BY <2>4, <2>5 DEF Grows, GivenThen
  <2>7. n = queueName'[p]
    BY <2>1 DEF p, Grows
  <2> QED
    BY <2>6, <2>7 DEF NamesThen
<1>2. CASE d \in strayed /\ n = queueName[0]
  BY <1>2 DEF Grows, NamesThen
<1> QED
  BY <1>1, <1>2 DEF NamesUsed

LEMMA NameIs ==
  ASSUME NEW d \in Devices, NEW p \in Ports, MayUse(d, p)
  PROVE  queueName[p] \in NamesUsed(d)
  BY DEF MayUse, WasGiven, NamesOf, NamesUsed

(* What a step does to the call of a thread.                               *)
GoesOn(t) ==
  /\ UNCHANGED <<device[t], mesg[t], port[t]>>
  /\ pc'[t] \in {pc[t], "idle", "broken", "poll", "try"}
  /\ pc'[t] \in {"poll", "try"} => pc[t] \in {"check", "poll", "try"}
Finds(t, d) ==
  /\ HasEntry(d)
  /\ device'[t] = d
  /\ port'[t] \in {Entry(d).primary_port, Entry(d).normal_port} \ {NO_PRIMARY_PORT}
  /\ mesg'[t] = {}
  /\ Unstored(d, port'[t]) => d \in strayed'
  /\ UNCHANGED vars
Receives(t) ==
  /\ UNCHANGED <<device[t], port[t]>>
  /\ pc[t] \in {"poll", "try"} /\ pc'[t] = "idle"
  /\ CanGet("sub", queueName[port[t]])
  /\ mesg'[t] = {Head(shared["sub"][queueName[port[t]]].content)}
CallStep(t) == GoesOn(t) \/ (\E d \in Devices : Finds(t, d)) \/ Receives(t)

LEMMA NextCallStep ==
  TrafficInv /\ [CommNext]_commVars =>
    /\ \A t \in Threads : CallStep(t)
    /\ device' = [t \in Threads |-> device'[t]]
    /\ mesg' = [t \in Threads |-> mesg'[t]]
<1> DEFINE AsSaid == /\ \A t \in Threads : CallStep(t)
                     /\ device' = [t \in Threads |-> device'[t]]
                     /\ mesg' = [t \in Threads |-> mesg'[t]]
<1> SUFFICES ASSUME TrafficInv, [CommNext]_commVars PROVE AsSaid
  OBVIOUS
<1>1. /\ pc \in [Threads -> Places] /\ port \in [Threads -> Ports]
      /\ device \in [Threads -> Devices \cup {0}] /\ mesg \in [Threads -> SUBSET Mesgs]
  BY DEF TrafficInv, CommInv, CallsTyped, QueuesTyped
<1>2. CASE UNCHANGED <<pc, port, device, mesg>>
  BY <1>1, <1>2 DEF CallStep, GoesOn, Finds, Receives
<1>3. ASSUME NEW t \in Threads, NEW next, UNCHANGED <<port, device, mesg>>,
             pc' = [pc EXCEPT ![t] = next],
             next \in {"idle", "broken"} \/ (pc[t] = "check" /\ next \in {"poll", "try"})
      PROVE  AsSaid
  BY <1>1, <1>3 DEF CallStep, GoesOn, Finds, Receives
<1>4. ASSUME NEW t \in Threads, NEW d \in Devices, NEW found, NEW to, FindPort(t, d, found, to),
             found \in {Entry(d).primary_port, Entry(d).normal_port}
      PROVE  AsSaid
  <2>1. /\ device' = [device EXCEPT ![t] = d]
        /\ port' = [port EXCEPT ![t] = found]
        /\ mesg' = [mesg EXCEPT ![t] = {}]
        /\ pc' = [pc EXCEPT ![t] = to]
        /\ HasEntry(d) /\ found # NO_PRIMARY_PORT
        /\ Unstored(d, found) => d \in strayed'
        /\ UNCHANGED vars
    BY <1>4, Zenon DEF FindPort, Goto
  <2>2. CallStep(t)
    <3>1. /\ device'[t] = d /\ port'[t] = found /\ mesg'[t] = {}
      BY <1>1, <2>1, Zenon
    <3>2. Finds(t, d)
      BY <1>4, <2>1, <3>1, Zenon DEF Finds
    <3> QED
      BY <3>2 DEF CallStep
  <2>3. ASSUME NEW u \in Threads, u # t PROVE CallStep(u)
    BY <1>1, <2>1, <2>3 DEF CallStep, GoesOn, Finds, Receives
  <2> QED
    BY <1>1, <2>1, <2>2, <2>3
<1>5. ASSUME NEW r \in Receivers, Take(r, "sub"), pc[r] \in {"poll", "try"}, pc' = [pc EXCEPT ![r] = "idle"]
      PROVE  AsSaid
  <2>1. /\ mesg' = [mesg EXCEPT ![r] = {Head(shared["sub"][queueName[port[r]]].content)}]
        /\ CanGet("sub", queueName[port[r]])
        /\ UNCHANGED <<device, port>>
    BY <1>5 DEF Take, Get
  <2>2. r \in Threads
    BY DEF Threads
  <2>3. CallStep(r)
    BY <1>1, <1>5, <2>1, <2>2, Zenon DEF CallStep, GoesOn, Finds, Receives
  <2>4. ASSUME NEW u \in Threads, u # r PROVE CallStep(u)
    BY <1>1, <1>5, <2>1, <2>4 DEF CallStep, GoesOn, Finds, Receives
  <2> QED
    BY <1>1, <2>1, <2>3, <2>4
<1> HIDE DEF AsSaid
<1>6. CASE Configure \/ OpenPublishQueue \/ OpenSubscribeQueue \/ Leave \/ DeleteQueue \/ Left
             \/ UNCHANGED commVars
  BY <1>2, <1>6, Zenon DEF Configure, OpenPublishQueue, OpenSubscribeQueue, Leave, DeleteQueue, Left,
    commVars, callers
<1>7. CASE \E n \in Names : PartnerOpens(n) \/ PartnerSends(n) \/ PartnerTakes(n)
  BY <1>2, <1>7, Zenon DEF PartnerOpens, PartnerSends, PartnerTakes, callers
<1>8. ASSUME NEW s \in Senders, SendStep(s) PROVE AsSaid
  <2>0. s \in Threads
    BY DEF Threads
  <2>1. ASSUME NEW d \in Devices, Send_NTDS_Mesg(s, d) PROVE AsSaid
    BY <1>4, <2>0, <2>1, Zenon DEF Send_NTDS_Mesg, get_port
  <2>2. CASE Publish(s)
    BY <1>3, <2>0, <2>2, Zenon DEF Publish, Goto
  <2>3. CASE UseNothing(s)
    BY <1>3, <2>0, <2>3, Zenon DEF UseNothing
  <2> QED
    BY <1>8, <2>1, <2>2, <2>3 DEF SendStep
<1>9. ASSUME NEW r \in Receivers, RecvStep(r) \/ PollStep(r) PROVE AsSaid
  <2>0. r \in Threads
    BY DEF Threads
  <2>1. ASSUME NEW d \in Devices, Recv_NTDS_Mesg(r, d) PROVE AsSaid
    BY <1>4, <2>0, <2>1, Zenon DEF Recv_NTDS_Mesg, get_port
  <2>2. CASE CheckConfigured(r)
    <3>1. PICK next \in {"poll", "try"} : GoOn(r, IF Comm_Configured[port[r]] THEN next ELSE "idle")
      BY <2>2 DEF CheckConfigured
    <3> DEFINE to == IF Comm_Configured[port[r]] THEN next ELSE "idle"
    <3>2. to \in {"poll", "try", "idle"}
      OBVIOUS
    <3>3. pc[r] = "check" /\ pc' = [pc EXCEPT ![r] = to] /\ UNCHANGED <<port, device, mesg>>
      BY <3>1, Zenon DEF GoOn, Goto
    <3> HIDE DEF to
    <3> QED
      BY <1>3, <2>0, <3>2, <3>3
  <2>3. CASE TryOnce(r) \/ Poll(r)
    BY <1>5, <2>3, Zenon DEF TryOnce, Poll, Goto
  <2>4. CASE TryInVain(r)
    BY <1>3, <2>0, <2>4, Zenon DEF TryInVain, Goto
  <2>5. CASE UseNothing(r)
    BY <1>3, <2>0, <2>5, Zenon DEF UseNothing
  <2> QED
    BY <1>9, <2>1, <2>2, <2>3, <2>4, <2>5 DEF RecvStep, PollStep
<1> QED
  BY <1>6, <1>7, <1>8, <1>9, Zenon DEF CommNext, AsSaid
----------------------------------------------------------------------------
(* Every part of the invariant is kept.                                    *)
LEMMA HeadOfMail ==
  ASSUME TrafficInv, NEW n \in Names, CanGet("sub", n)
  PROVE  Head(shared["sub"][n].content) = n
<1> DEFINE q == shared["sub"][n]
<1>1. q \in Queue /\ q.up /\ q.tokens > 0 /\ q.tokens <= Len(q.content)
  BY DEF TrafficInv, QueuesTyped, CanGet, Directions
<1>2. q.content \in Seq(Mesgs) /\ Len(q.content) > 0
  BY <1>1 DEF Queue
<1>3. 1 \in 1..Len(q.content) /\ Head(q.content) = q.content[1]
  BY <1>2
<1> QED
  BY <1>3 DEF TrafficInv, QueuesOwn

LEMMA NextQueuesTyped ==
  ASSUME TrafficInv, [CommNext]_commVars
  PROVE  QueuesTyped'
<1>1. QueuesMove /\ Grows /\ QueuesTyped
  BY NextQueuesMove, NextGrows DEF TrafficInv
<1>2. \A dir \in Directions, n \in Names : shared'[dir][n] \in Queue /\ Backed(shared'[dir][n])
  BY <1>1, ContentFrom DEF QueuesMove
<1>3. shared' \in [Directions -> [Names -> Queue]]
  BY <1>1, <1>2 DEF QueuesMove, IsTable
<1>4. queueName' \in [Ports -> Names]
  BY <1>1 DEF Grows, QueuesTyped
<1>5. ASSUME NEW t \in Threads PROVE device'[t] \in Devices \cup {0} /\ mesg'[t] \in SUBSET Mesgs
  <2>1. CallStep(t)
    BY NextCallStep
  <2>2. queueName[port[t]] \in Names
    BY DEF TrafficInv, QueuesTyped, CommInv, CallsTyped
  <2>3. device[t] \in Devices \cup {0} /\ mesg[t] \in SUBSET Mesgs
    BY <1>1 DEF TrafficInv, CommInv, CallsTyped, QueuesTyped
  <2>4. CASE GoesOn(t)
    BY <2>3, <2>4 DEF GoesOn
  <2>5. CASE \E d \in Devices : Finds(t, d)
    BY <2>5 DEF Finds
  <2>6. CASE Receives(t)
    BY <2>2, <2>3, <2>6, HeadOfMail DEF Receives, Mesgs
  <2> QED
    BY <2>1, <2>4, <2>5, <2>6 DEF CallStep
<1>6. device' = [t \in Threads |-> device'[t]] /\ mesg' = [t \in Threads |-> mesg'[t]]
  BY NextCallStep
<1>7. mesg' \in [Threads -> SUBSET Mesgs]
  BY <1>5, <1>6
<1> QED
  BY <1>2, <1>3, <1>4, <1>7 DEF QueuesTyped, Backed

LEMMA NextMadeOnce ==
  ASSUME TrafficInv, [CommNext]_commVars
  PROVE  MadeOnce'
<1>1. Inv /\ [Next]_vars /\ MadeOnce
  BY TablesMove DEF TrafficInv, CommInv
<1>2. publishQueue \in [Ports -> BOOLEAN] /\ subscribeQueue \in [Ports -> BOOLEAN]
  BY <1>1 DEF Inv, TypeOK
<1>3. CASE CreatePublishQueue
  <2>1. head.port \in Ports /\ head' = head
    BY <1>1, <1>3 DEF Inv, HeadInRange, Stages, CreatePublishQueue, head
  <2> QED
    BY <1>1, <1>2, <1>3, <2>1 DEF CreatePublishQueue, MadeOnce
<1>4. CASE CreateSubscribeQueue
  <2>1. stage = "published" /\ publishQueue[head.port]
    BY <1>1, <1>4 DEF Inv, QueuesPaired, CreateSubscribeQueue, MakeSubscribeQueue
  <2> QED
    BY <1>1, <1>2, <1>4, <2>1 DEF CreateSubscribeQueue, MakeSubscribeQueue, MadeOnce
<1>5. CASE ~CreatePublishQueue /\ ~CreateSubscribeQueue
  <2>1. UNCHANGED <<publishQueue, subscribeQueue>>
    BY <1>1, <1>5, Zenon DEF Next, ConfigureStep, vars, tables, queues, Configure_NTDS_Device, AssignPort,
      StoreField, RefusePort, SkipPort, MarkConfigured, EndOfList, Report_Port_Status
  <2>2. stage' = "published" => stage = "published" /\ head' = head
    BY <1>1, <1>5 DEF Next, ConfigureStep, vars, tables, queues, Configure_NTDS_Device, AssignPort,
      StoreField, RefusePort, SkipPort, MarkConfigured, EndOfList, Report_Port_Status, head
  <2> QED
    BY <1>1, <2>1, <2>2 DEF MadeOnce
<1> QED
  BY <1>3, <1>4, <1>5

LEMMA NextEntriesGiven ==
  ASSUME TrafficInv, [CommNext]_commVars
  PROVE  EntriesGiven'
<1>1. Inv /\ [Next]_vars /\ Grows /\ EntriesGiven
  BY TablesMove, NextGrows DEF TrafficInv, CommInv
<1>2. Device_Ports \in [Ports -> EntryType] /\ stores \in Seq(EntryType)
  BY <1>1 DEF Inv, TypeOK
<1> DEFINE Good(e) == \A p \in PortsIn(e) : GivenThen(e.device_id, p) \/ (p = 0 /\ e.count = 0)
<1>3. ASSUME NEW e \in EntryType, e.device_id # 0, OnlyGiven(e) PROVE Good(e)
  BY <1>1, <1>3 DEF OnlyGiven, Grows, EntryType, PortsIn
<1>4. ASSUME \A i \in Ports : Device_Ports'[i].device_id # 0 => Good(Device_Ports'[i]),
             stage' = "storing" =>
               GivenThen(head'.device, head'.port) /\ \A k \in 1..Len(stores') : Good(stores'[k])
      PROVE  EntriesGiven'
  BY <1>4 DEF EntriesGiven, OnlyGiven, WasGiven, GivenThen, PortsIn
<1>5. CASE AssignPort
  <2>1. head.device \in Devices /\ head.port \in Ports /\ list[at].flag \in Flags /\ head' = head
    BY <1>1, <1>5, AssignPortIs DEF AssignPort, head
  <2>2. GivenThen(head.device, head.port)
    <3> DEFINE T == [port : Ports, flag : Flags]
               r == [port |-> head.port, flag |-> list[at].flag]
    <3>1. given \in [Devices -> Seq(T)] /\ r \in T /\ r.port = head.port
      BY <1>1, <2>1 DEF Inv, TypeOK, Flags
    <3>2. given' = [given EXCEPT ![head.device] = Append(given[head.device], r)]
      BY <1>5 DEF AssignPort
    <3> HIDE DEF T, r
    <3>3. given'[head.device] = Append(given[head.device], r) /\ given[head.device] \in Seq(T)
      BY <2>1, <3>1, <3>2
    <3> DEFINE k == Len(given[head.device]) + 1
    <3>4. k \in 1..Len(given'[head.device]) /\ given'[head.device][k] = r
      BY <3>1, <3>3
    <3> QED
      BY <3>1, <3>4 DEF GivenThen
  <2>3. PICK j \in Ports, c \in Seq(EntryType) :
          /\ Device_Ports[j].device_id \in {0, head.device}
          /\ Len(c) \in {3, 6}
          /\ \A n \in 1..Len(c) : Holds(c[n], Device_Ports[j], head.device, head.port)
          /\ Device_Ports' = [Device_Ports EXCEPT ![j] = c[1]]
          /\ stores' = Tail(c)
    BY <1>1, <1>5, AssignPortIs
  <2>4. ASSUME NEW e, Holds(e, Device_Ports[j], head.device, head.port) PROVE Good(e)
    <3> SUFFICES ASSUME NEW p \in PortsIn(e), ~(p = 0 /\ e.count = 0)
                 PROVE  GivenThen(head.device, p)
      BY <2>4 DEF Holds
    <3>1. p \in Ports
      BY DEF PortsIn
    <3>2. p = head.port \/ (Device_Ports[j].device_id # 0 /\ p \in PortsIn(Device_Ports[j]))
      BY <2>4 DEF Holds
    <3>3. CASE p = head.port
      BY <2>2, <3>3
    <3>4. CASE Device_Ports[j].device_id # 0 /\ p \in PortsIn(Device_Ports[j])
      <4>1. Device_Ports[j].device_id = head.device /\ Device_Ports[j].count # 0
        BY <1>1, <1>5, <2>3, <3>4 DEF AssignPort, Inv, EntriesWhole
      <4>2. WasGiven(head.device, p)
        BY <1>1, <3>4, <4>1 DEF EntriesGiven, OnlyGiven
      <4> QED
        BY <1>1, <2>1, <3>1, <4>2 DEF Grows
    <3> QED
      BY <3>2, <3>3, <3>4
  <2>5. \A n \in 1..Len(c) : Good(c[n])
    BY <2>3, <2>4
  <2> HIDE DEF Good
  <2>6. Good(c[1]) /\ \A k \in 1..Len(stores') : Good(stores'[k])
    BY <2>3, <2>5, RestIs
  <2>7. ASSUME NEW i \in Ports, Device_Ports'[i].device_id # 0 PROVE Good(Device_Ports'[i])
    <3>1. Device_Ports'[i] = IF i = j THEN c[1] ELSE Device_Ports[i]
      BY <1>2, <2>3
    <3> QED
      BY <1>1, <1>2, <1>3, <2>6, <2>7, <3>1 DEF EntriesGiven
  <2> QED
    BY <1>4, <2>1, <2>2, <2>6, <2>7
<1>6. CASE StoreField
  <2>1. /\ stage = "storing" /\ stores' = Tail(stores) /\ Len(stores) > 0 /\ head' = head
        /\ Device_Ports' = [Device_Ports EXCEPT ![lcl_index] = stores[1]]
        /\ head.device \in Devices /\ head.port \in Ports /\ head.device # 0
    <3>1. stage = "storing" /\ head' = head
      BY <1>6 DEF StoreField, head
    <3> QED
      BY <1>1, <1>6, <3>1, StoreFieldIs
  <2>2. GivenThen(head.device, head.port)
    BY <1>1, <2>1 DEF EntriesGiven, Grows
  <2>3. ASSUME NEW n \in 1..Len(stores) PROVE Good(stores[n])
    <3>1. stores[n] \in EntryType /\ stores[n].device_id = head.device /\ OnlyGiven(stores[n])
      BY <1>1, <1>2, <2>1 DEF Inv, StoresGood, EntriesGiven
    <3> QED
      BY <1>3, <2>1, <3>1
  <2> HIDE DEF Good
  <2>6. Good(stores[1]) /\ \A k \in 1..Len(stores') : Good(stores'[k])
    BY <1>2, <2>1, <2>3, RestIs
  <2>7. ASSUME NEW i \in Ports, Device_Ports'[i].device_id # 0 PROVE Good(Device_Ports'[i])
    <3>1. Device_Ports'[i] = IF i = lcl_index THEN stores[1] ELSE Device_Ports[i]
      BY <1>2, <2>1
    <3> QED
      BY <1>1, <1>2, <1>3, <2>6, <2>7, <3>1 DEF EntriesGiven
  <2> QED
    BY <1>4, <2>1, <2>2, <2>6, <2>7
<1>7. CASE ~AssignPort /\ ~StoreField
  <2>1. /\ Device_Ports' = Device_Ports /\ stores' = stores
        /\ stage' = "storing" => stage = "storing" /\ head' = head
    BY <1>1, <1>7, OthersKeepTable DEF head
  <2>2. \A i \in Ports : Device_Ports[i].device_id # 0 => Good(Device_Ports[i])
    BY <1>1, <1>2, <1>3 DEF EntriesGiven
  <2>3. ASSUME stage = "storing"
        PROVE  GivenThen(head.device, head.port) /\ \A n \in 1..Len(stores) : Good(stores[n])
    <3>1. head.device \in Devices /\ head.device # 0 /\ head.port \in Ports
      BY <1>1, <2>3, HeadIs, PortsAssumption DEF Inv, HeadInRange, Stages
    <3>2. \A n \in 1..Len(stores) :
            stores[n] \in EntryType /\ stores[n].device_id = head.device /\ OnlyGiven(stores[n])
      BY <1>1, <1>2, <2>3 DEF Inv, StoresGood, EntriesGiven
    <3>3. \A n \in 1..Len(stores) : Good(stores[n])
      BY <1>3, <3>1, <3>2
    <3> QED
      BY <1>1, <2>3, <3>1, <3>3 DEF EntriesGiven, Grows
  <2> HIDE DEF Good
  <2> QED
    BY <1>4, <2>1, <2>2, <2>3
<1> QED
  BY <1>5, <1>6, <1>7

LEMMA NextCallsGiven ==
  ASSUME TrafficInv, [CommNext]_commVars
  PROVE  CallsGiven'
<1> DEFINE UseThen(d, p) == GivenThen(d, p) \/ (p = 0 /\ d \in strayed')
<1>1. Grows /\ CallsGiven /\ EntriesGiven /\ Inv /\ PortsMarked /\ port \in [Threads -> Ports]
  BY NextGrows DEF TrafficInv, CommInv, CallsTyped
<1> SUFFICES ASSUME NEW t \in Threads, pc'[t] \in {"send", "check", "poll", "try"}
             PROVE  device'[t] \in Devices /\ UseThen(device'[t], port'[t])
  BY DEF CallsGiven, MayUse, WasGiven, GivenThen
<1>2. CallStep(t)
  BY NextCallStep
<1>3. CASE GoesOn(t) \/ Receives(t)
  <2>1. pc[t] \in {"send", "check", "poll", "try"} /\ device'[t] = device[t] /\ port'[t] = port[t]
    BY <1>3 DEF GoesOn, Receives
  <2> QED
    BY <1>1, <2>1 DEF CallsGiven, MayUse, Grows
<1>4. ASSUME NEW d \in Devices, Finds(t, d)
      PROVE  device'[t] \in Devices /\ UseThen(device'[t], port'[t])
  <2>1. PICK i \in Ports : Device_Ports[i].device_id = d /\ Entry(d) = Device_Ports[i]
    BY <1>1, <1>4, EntryIs DEF Finds
  <2>2. d # 0
    BY PortsAssumption
  <2>3. port'[t] \in Ports /\ port'[t] \in PortsIn(Device_Ports[i])
    BY <1>1, <1>4, <2>1, <2>2 DEF Finds, PortsMarked, Marked, PortsIn
  <2>4. WasGiven(d, port'[t]) \/ (port'[t] = 0 /\ d \in strayed')
    <3>1. WasGiven(d, port'[t]) \/ (port'[t] = 0 /\ Entry(d).count = 0)
      BY <1>1, <2>1, <2>2, <2>3 DEF EntriesGiven, OnlyGiven
    <3>2. CASE port'[t] = 0 /\ Entry(d).count = 0 /\ port'[t] = head.port
      <4>1. stage = "storing" /\ head.device = d
        BY <1>1, <2>1, <2>2, <3>2 DEF Inv, EntriesWhole, StoresGood
      <4> QED
        BY <1>1, <3>2, <4>1 DEF EntriesGiven
    <3>3. CASE port'[t] = 0 /\ Entry(d).count = 0 /\ port'[t] # head.port
      BY <1>4, <3>3 DEF Finds, Unstored
    <3> QED
      BY <3>1, <3>2, <3>3
  <2>5. given' = given /\ device'[t] = d
    BY <1>4 DEF Finds, vars
  <2> QED
    BY <2>4, <2>5 DEF WasGiven, GivenThen
<1> QED
  BY <1>2, <1>3, <1>4 DEF CallStep

LEMMA NextMesgsOwn ==
  ASSUME TrafficInv, [CommNext]_commVars
  PROVE  MesgsOwn'
<1>1. Grows /\ MesgsOwn /\ CallsGiven /\ port \in [Threads -> Ports] /\ queueName \in [Ports -> Names]
  BY NextGrows DEF TrafficInv, CommInv, CallsTyped, QueuesTyped
<1> SUFFICES ASSUME NEW t \in Threads, mesg'[t] # {}
             PROVE  device'[t] \in Devices /\ mesg'[t] \subseteq NamesThen(device'[t])
  BY DEF MesgsOwn, NamesOf, NamesUsed, NamesThen
<1>2. CallStep(t)
  BY NextCallStep
<1>3. CASE GoesOn(t)
  <2>1. device'[t] = device[t] /\ mesg'[t] = mesg[t]
    BY <1>3 DEF GoesOn
  <2> QED
    BY <1>1, <2>1, NameKept DEF MesgsOwn
<1>4. CASE Receives(t)
  <2>1. device'[t] = device[t] /\ device[t] \in Devices /\ MayUse(device[t], port[t])
    BY <1>1, <1>4 DEF Receives, CallsGiven
  <2>2. port[t] \in Ports /\ queueName[port[t]] \in Names
    BY <1>1
  <2>3. mesg'[t] = {queueName[port[t]]}
    BY <1>4, <2>2, HeadOfMail DEF Receives
  <2>4. queueName[port[t]] \in NamesUsed(device[t])
    BY <2>1, <2>2, NameIs
  <2> QED
    BY <1>1, <2>1, <2>3, <2>4, NameKept
<1>5. CASE \E d \in Devices : Finds(t, d)
  BY <1>5 DEF Finds
<1> QED
  BY <1>2, <1>3, <1>4, <1>5 DEF CallStep

LEMMA NextQueuesOwn ==
  ASSUME TrafficInv, [CommNext]_commVars
  PROVE  QueuesOwn'
<1>1. QueuesMove /\ Grows /\ QueuesOwn /\ CallsGiven /\ port \in [Threads -> Ports]
  BY NextQueuesMove, NextGrows DEF TrafficInv, CommInv, CallsTyped
<1>2. ASSUME NEW n \in Names, NEW i \in 1..Len(shared'["pub"][n].content)
      PROVE  /\ shared'["pub"][n].content[i] \in Devices
             /\ n \in NamesThen(shared'["pub"][n].content[i])
  <2> DEFINE m == shared'["pub"][n].content[i]
  <2>1. \/ \E j \in 1..Len(shared["pub"][n].content) : m = shared["pub"][n].content[j]
        \/ SendsOwn("pub", n, m)
    BY <1>1, ContentFrom DEF QueuesMove, Directions
  <2>2. CASE \E j \in 1..Len(shared["pub"][n].content) : m = shared["pub"][n].content[j]
    <3>1. m \in Devices /\ n \in NamesUsed(m)
      BY <1>1, <2>2 DEF QueuesOwn
    <3> HIDE DEF m
    <3>2. n \in NamesThen(m)
      BY <1>1, <3>1, NameKept
    <3> QED
      BY <3>1, <3>2 DEF m
  <2>3. CASE SendsOwn("pub", n, m)
    <3>1. PICK s \in Senders : pc[s] = "send" /\ n = queueName[port[s]] /\ m = device[s]
      BY <2>3 DEF SendsOwn
    <3>2. m \in Devices /\ MayUse(m, port[s]) /\ port[s] \in Ports
      BY <1>1, <3>1 DEF CallsGiven, Threads
    <3>3. n \in NamesUsed(m)
      BY <3>1, <3>2, NameIs
    <3> HIDE DEF m
    <3>4. n \in NamesThen(m)
      BY <1>1, <3>2, <3>3, NameKept
    <3> QED
      BY <3>2, <3>4 DEF m
  <2> QED
    BY <2>1, <2>2, <2>3
<1>3. ASSUME NEW n \in Names, NEW i \in 1..Len(shared'["sub"][n].content)
      PROVE  shared'["sub"][n].content[i] = n
  <2>1. \/ \E j \in 1..Len(shared["sub"][n].content) :
             shared'["sub"][n].content[i] = shared["sub"][n].content[j]
        \/ SendsOwn("sub", n, shared'["sub"][n].content[i])
    BY <1>1, ContentFrom DEF QueuesMove, Directions
  <2> QED
    BY <1>1, <2>1 DEF QueuesOwn, SendsOwn
<1> QED
  BY <1>2, <1>3 DEF QueuesOwn, NamesOf, NamesUsed, NamesThen

(* An end that the process has stays its own until it is deleted.          *)
LEMMA OwnedStays ==
  ASSUME TrafficInv, Grows, deleted' = deleted, NEW dir \in Directions, NEW n \in Names, Owned(dir, n)
  PROVE  Owned(dir, n)'
<1>1. PICK q \in ToDelete : q[1] = dir /\ queueName[q[2]] = n
  BY DEF Owned
<1>2. q \in Directions \X Ports /\ q[2] \in Ports
  BY <1>1 DEF ToDelete, Created
<1>3. q \in Created'
  BY <1>1, <1>2 DEF ToDelete, Created, Grows
<1>4. q \in ToDelete'
  BY <1>1, <1>3 DEF ToDelete
<1> QED
  BY <1>1, <1>4 DEF Owned, Grows

LEMMA NowOwned ==
  ASSUME TrafficInv, Grows, deleted' = deleted, NEW dir \in Directions, NEW n \in Names, OpensHere(dir, n)
  PROVE  Owned(dir, n)'
<1>1. PICK p \in Ports : queueName[p] = n /\ Has(dir, p)'
  BY DEF OpensHere
<1>2. deleted = {} /\ exit = "running"
  BY DEF OpensHere, TrafficInv, CommInv, KeptWhileRunning
<1>3. <<dir, p>> \in Created'
  BY <1>1 DEF Created, Has, Directions
<1>4. <<dir, p>> \in ToDelete'
  BY <1>2, <1>3 DEF ToDelete
<1> QED
  BY <1>1, <1>4 DEF Owned, Grows

(* A port whose queue is opened here is not the only one of its name, if   *)
(* the name had an owner.                                                  *)
LEMMA SecondUser ==
  ASSUME TrafficInv, Grows, MadeOnce', NEW dir \in Directions, NEW n \in Names, OpensHere(dir, n), Owned(dir, n)
  PROVE  ~NamesApart'
<1>1. PICK p \in Ports : queueName[p] = n /\ ~Has(dir, p) /\ Has(dir, p)'
  BY DEF OpensHere
<1>2. PICK q \in ToDelete : q[1] = dir /\ queueName[q[2]] = n
  BY DEF Owned
<1>3. q[2] \in Ports /\ Has(dir, q[2])
  BY <1>2 DEF ToDelete, Created, Has
<1>4. q[2] # p
  BY <1>1, <1>3
<1>5. publishQueue'[p] /\ publishQueue'[q[2]]
  BY <1>1, <1>3 DEF Has, Grows, MadeOnce, TrafficInv
<1> QED
  BY <1>1, <1>2, <1>3, <1>4, <1>5 DEF NamesApart, Grows

LEMMA NextUsers ==
  ASSUME TrafficInv, [CommNext]_commVars, MadeOnce'
  PROVE  OneUser' /\ UpIsOwned'
<1>1. /\ QueuesMove /\ Grows /\ OneUser /\ UpIsOwned /\ QueuesTyped
      /\ NamesApart' => NamesApart
  <2>1. Grows
    BY NextGrows
  <2>2. NamesApart' => NamesApart
    BY <2>1 DEF Grows, NamesApart
  <2> QED
    BY <2>1, <2>2, NextQueuesMove DEF TrafficInv
<1> DEFINE Good(dir, n) ==
             /\ n \notin partner' => /\ shared'[dir][n].there => Owned(dir, n)'
                                     /\ NamesApart' => ~shared'[dir][n].up
             /\ shared'[dir][n].up => Owned(dir, n)'
<1> SUFFICES ASSUME NEW dir \in Directions, NEW n \in Names PROVE Good(dir, n)
  BY DEF OneUser, UpIsOwned, Directions
<1> DEFINE q == shared[dir][n]
           new == shared'[dir][n]
<1>2. q \in Queue
  BY <1>1 DEF QueuesTyped
<1>3. n \notin partner' => n \notin partner
  BY <1>1 DEF Grows
<1>4. CASE Closes(dir, n)
  <2>1. new = Closed(q)
    BY <1>4 DEF Closes
  <2>2. ~Closed(q).there /\ ~Closed(q).up
    BY <1>2 DEF Closed, Queue
  <2> QED
    BY <2>1, <2>2
<1>5. ASSUME new.there = q.there, new.up = q.up, Owned(dir, n) => Owned(dir, n)'
      PROVE  Good(dir, n)
  BY <1>1, <1>3, <1>5 DEF OneUser, UpIsOwned
<1>6. CASE deleted' = deleted
  <2>1. Owned(dir, n) => Owned(dir, n)'
    BY <1>1, <1>6, OwnedStays
  <2>2. CASE Stays(dir, n)
    BY <1>5, <2>1, <2>2 DEF Stays
  <2>3. CASE Opens(dir, n)
    <3>1. new = Opened(q)
      BY <2>3 DEF Opens
    <3>2. new.up => q.there
      <4>1. CASE q.there
        BY <4>1
      <4>2. CASE ~q.there
        BY <3>1, <4>2 DEF Opened, Unused
      <4> QED
        BY <4>1, <4>2
    <3>3. CASE n \in partner' \ partner
      <4>1. q.there => Owned(dir, n)'
        BY <1>1, <2>1, <3>3 DEF OneUser
      <4> QED
        BY <3>2, <3>3, <4>1
    <3>4. CASE OpensHere(dir, n)
      <4>1. Owned(dir, n)'
        BY <1>1, <1>6, <3>4, NowOwned
      <4>2. Owned(dir, n) => ~NamesApart'
        BY <1>1, <3>4, SecondUser
      <4>3. n \notin partner' => (q.there => Owned(dir, n))
        BY <1>1, <1>3 DEF OneUser
      <4> QED
        BY <3>2, <4>1, <4>2, <4>3
    <3> QED
      BY <2>3, <3>3, <3>4 DEF Opens
  <2>4. ASSUME NEW m, Adds(dir, n, m) PROVE Good(dir, n)
    <3>1. new = Added(q, m)
      BY <2>4 DEF Adds
    <3>2. new.there = q.there /\ new.up = q.up
      BY <1>2, <3>1 DEF Added, Queue
    <3> QED
      BY <1>5, <2>1, <3>2
  <2>5. CASE Takes(dir, n)
    <3>1. new = Taken(q)
      BY <2>5 DEF Takes
    <3>2. new.there = q.there /\ new.up = q.up
      BY <1>2, <3>1 DEF Taken, Queue
    <3> QED
      BY <1>5, <2>1, <3>2
  <2> QED
    BY <1>1, <1>4, <2>2, <2>3, <2>4, <2>5 DEF QueuesMove, CellMoves
<1>7. CASE deleted' # deleted
  <2>1. DeleteQueue
    BY <1>7, Zenon DEF CommNext, commVars, Configure, OpenPublishQueue, OpenSubscribeQueue, PartnerOpens,
      PartnerSends, PartnerTakes, SendStep, Send_NTDS_Mesg, FindPort, Publish, RecvStep, PollStep,
      Recv_NTDS_Mesg, CheckConfigured, GoOn, TryOnce, TryInVain, Poll, Take, UseNothing, Leave, Left
  <2>2. PICK d \in ToDelete : /\ deleted' = deleted \cup {d}
                              /\ shared' = [shared EXCEPT ![d[1]][queueName[d[2]]] = Closed(@)]
    BY <2>1 DEF DeleteQueue
  <2>3. UNCHANGED <<vars, queueName, partner>>
    BY <2>1 DEF DeleteQueue
  <2>4. Created' = Created
    BY <2>3 DEF Created, vars, tables, queues
  <2>5. CASE d[1] = dir /\ queueName[d[2]] = n
    <3>1. new = Closed(q)
      BY <1>1, <2>2, <2>5 DEF QueuesTyped
    <3>2. ~Closed(q).there /\ ~Closed(q).up
      BY <1>2 DEF Closed, Queue
    <3> QED
      BY <3>1, <3>2
  <2>6. CASE ~(d[1] = dir /\ queueName[d[2]] = n)
    <3>0. d[1] \in Directions /\ queueName[d[2]] \in Names
      BY <1>1 DEF ToDelete, Created, QueuesTyped
    <3>1. new = q
      BY <1>1, <2>2, <2>6, <3>0 DEF QueuesTyped
    <3>2. Owned(dir, n) => Owned(dir, n)'
      BY <2>2, <2>3, <2>4, <2>6 DEF Owned, ToDelete
    <3> HIDE DEF new, q, Good
    <3> QED
      BY <1>5, <3>1, <3>2
  <2> QED
    BY <2>5, <2>6
<1> QED
  BY <1>6, <1>7

LEMMA NextIdle ==
  ASSUME TrafficInv, [CommNext]_commVars
  PROVE  IdleWhenLeaving'
<1>1. IdleWhenLeaving
  BY DEF TrafficInv
<1>2. CASE UNCHANGED <<vars, exit, deleted>>
  BY <1>1, <1>2 DEF IdleWhenLeaving, vars, tables, queues, ToDelete, Created
<1>3. CASE Configure
  BY <1>3 DEF Configure, IdleWhenLeaving
<1>4. CASE OpenPublishQueue \/ OpenSubscribeQueue
  <2>1. stage # "idle" /\ exit' = exit
    BY <1>4 DEF OpenPublishQueue, CreatePublishQueue, OpenSubscribeQueue, CreateSubscribeQueue, MakeSubscribeQueue
  <2> QED
    BY <1>1, <2>1 DEF IdleWhenLeaving
<1>5. CASE Leave
  BY <1>5 DEF Leave, IdleWhenLeaving, vars
<1>6. CASE DeleteQueue
  BY <1>1, <1>6 DEF DeleteQueue, IdleWhenLeaving, vars
<1>7. CASE Left
  BY <1>1, <1>7 DEF Left, IdleWhenLeaving, vars, tables, queues, ToDelete, Created
<1>8. CASE \E n \in Names : PartnerOpens(n) \/ PartnerSends(n) \/ PartnerTakes(n)
  BY <1>2, <1>8, Zenon DEF PartnerOpens, PartnerSends, PartnerTakes
<1>9. CASE \E s \in Senders : SendStep(s)
  BY <1>2, <1>9, Zenon DEF SendStep, Send_NTDS_Mesg, FindPort, Publish, UseNothing
<1>10. CASE \E r \in Receivers : RecvStep(r) \/ PollStep(r)
  BY <1>2, <1>10, Zenon DEF RecvStep, PollStep, Recv_NTDS_Mesg, FindPort, CheckConfigured, GoOn,
    TryOnce, TryInVain, Poll, Take, UseNothing
<1>11. CASE UNCHANGED commVars
  BY <1>2, <1>11, Zenon DEF commVars
<1> QED
  BY <1>3, <1>4, <1>5, <1>6, <1>7, <1>8, <1>9, <1>10, <1>11, Zenon DEF CommNext

LEMMA InitTrafficInv == CommInit => TrafficInv
<1> SUFFICES ASSUME CommInit PROVE TrafficInv
  OBVIOUS
<1>1. CommInv /\ Init
  BY InitCommInv DEF CommInit
<1>2. Unused \in Queue /\ ~Unused.up /\ ~Unused.there /\ Unused.content = <<>>
  BY DEF Unused, Queue
<1>3. \A dir \in Directions, n \in Names : shared[dir][n] = Unused
  BY DEF CommInit
<1>4. shared \in [Directions -> [Names -> Queue]]
  BY <1>2 DEF CommInit
<1>5. QueuesTyped
  BY <1>2, <1>3, <1>4 DEF CommInit, QueuesTyped
<1>6. QueuesOwn /\ OneUser /\ UpIsOwned
  BY <1>2, <1>3 DEF QueuesOwn, OneUser, UpIsOwned, Directions
<1>7. MadeOnce /\ EntriesGiven
  BY <1>1 DEF Init, MadeOnce, EntriesGiven, EmptyEntry
<1>8. CallsGiven /\ MesgsOwn /\ IdleWhenLeaving
  BY DEF CommInit, CallsGiven, MesgsOwn, IdleWhenLeaving
<1> QED
  BY <1>1, <1>5, <1>6, <1>7, <1>8 DEF TrafficInv

THEOREM TrafficInvariance == CommSpec => []TrafficInv
<1>1. TrafficInv /\ [CommNext]_commVars => TrafficInv'
  <2> SUFFICES ASSUME TrafficInv, [CommNext]_commVars PROVE TrafficInv'
    OBVIOUS
  <2>1. CommInv'
    BY TablesMove, TablesKeepInv, NextPortsMarked, NextMarkPromises, NextCalls, NextKept, Zenon
    DEF CommInv, TrafficInv
  <2> QED
    BY <2>1, NextQueuesTyped, NextMadeOnce, NextEntriesGiven, NextCallsGiven, NextQueuesOwn,
      NextMesgsOwn, NextUsers, NextIdle DEF TrafficInv
<1> QED
  BY InitTrafficInv, <1>1, PTL DEF CommSpec

(* What a device sends leaves under the name of a port it was given, and   *)
(* its receivers get what came under one; or under the name of port 0, if  *)
(* a call of the device has read that zero before the port was stored.     *)
THEOREM TrafficSafe == CommSpec => []TrafficIsOwn
<1>1. TrafficInv => TrafficIsOwn
  BY DEF TrafficInv, QueuesOwn, MesgsOwn, TrafficIsOwn, Threads
<1> QED
  BY <1>1, TrafficInvariance, PTL

(* While no two ports have queues of one name, a queue is up only if the   *)
(* partner is there, however often its port is configured.                 *)
THEOREM UpSafe == CommSpec => []UpMeansPartner
<1>1. TrafficInv => UpMeansPartner
  BY DEF TrafficInv, OneUser, UpMeansPartner
<1> QED
  BY <1>1, TrafficInvariance, PTL

(* ~QueueFactory takes every interface down, in whatever order the names   *)
(* come and whoever opens them meanwhile.                                  *)
THEOREM DownSafe == CommSpec => []DownAfterExit
<1>1. TrafficInv => DownAfterExit
  BY DEF TrafficInv, UpIsOwned, Owned, IdleWhenLeaving, DownAfterExit
<1> QED
  BY <1>1, TrafficInvariance, PTL
----------------------------------------------------------------------------
(* ReceiveBuffer: however many callers receive on however many ports, and  *)
(* however often, the one buffer of Recv_NTDS_Mesg gives a caller its own  *)
(* message unless another one copied in between, and holds no mixture      *)
(* unless two ports were served at once.                                   *)

BufferPlaces == {"out", "copy1", "copy2", "returned", "half", "read"}

BufferTypes ==
  /\ buffer \in [Halves -> Nat]
  /\ where \in [Callers -> BufferPlaces]
  /\ ours \in [Callers -> Nat]
  /\ read \in [Callers -> [Halves -> Nat]]
  /\ received \in Nat
  /\ crossed \in BOOLEAN

(* How far an undisturbed caller has come with its own message.            *)
OwnSoFar ==
  \A c \in Callers \ disturbed :
    /\ where[c] = "copy2" => buffer[1] = ours[c]
    /\ where[c] \in {"returned", "half"} => buffer[1] = ours[c] /\ buffer[2] = ours[c]
    /\ where[c] \in {"half", "read"} => read[c][1] = ours[c]
    /\ where[c] = "read" => read[c][2] = ours[c]

(* Unless two have copied at once: one copies at most, its first half is   *)
(* its own, and before and after a copy the buffer holds one message.      *)
OneMessage ==
  ~crossed =>
    /\ \A c, d \in Copying : c = d
    /\ \A c \in Callers : where[c] = "copy2" => buffer[1] = ours[c]
    /\ (\A c \in Callers : where[c] # "copy2") => buffer[1] = buffer[2]

BufferInv == BufferTypes /\ OwnSoFar /\ OneMessage

LEMMA InitBufferInv == BufferInit => BufferInv
<1> SUFFICES ASSUME BufferInit PROVE BufferInv
  OBVIOUS
<1>1. /\ \A c \in Callers : where[c] = "out"
      /\ buffer[1] = buffer[2]
  BY DEF BufferInit, Halves
<1>2. BufferTypes
  BY DEF BufferInit, BufferTypes, None, BufferPlaces
<1>3. OwnSoFar
  BY <1>1 DEF OwnSoFar
<1>4. OneMessage
  BY <1>1 DEF OneMessage, Copying
<1> QED
  BY <1>2, <1>3, <1>4 DEF BufferInv

(* A copy begins; the previous readers are left in peace.                  *)
LEMMA BeginKeeps ==
  ASSUME BufferInv, NEW c \in Callers, GetBegins(c)
  PROVE  BufferInv'
<1>1. /\ where[c] = "out" /\ where' = [where EXCEPT ![c] = "copy1"]
      /\ ours' = [ours EXCEPT ![c] = received'] /\ received' = received + 1
      /\ disturbed' = disturbed \ {c}
      /\ crossed' = (crossed \/ Copying # {})
      /\ buffer' = buffer /\ read' = read
  BY DEF GetBegins, Passes
<1>2. BufferTypes'
  BY <1>1 DEF BufferInv, BufferTypes, BufferPlaces
<1>3. \A d \in Callers \ {c} : where'[d] = where[d] /\ ours'[d] = ours[d]
  BY <1>1 DEF BufferInv, BufferTypes
<1>4. where'[c] = "copy1"
  BY <1>1 DEF BufferInv, BufferTypes
<1>5. OwnSoFar'
  BY <1>1, <1>3, <1>4 DEF BufferInv, OwnSoFar
<1>6. OneMessage'
  <2>1. SUFFICES ASSUME ~crossed' PROVE OneMessage'
    BY DEF OneMessage
  <2>2. ~crossed /\ Copying = {}
    BY <2>1, <1>1
  <2>3. \A d \in Callers : where[d] \notin {"copy1", "copy2"}
    BY <2>2 DEF Copying
  <2>4. Copying' = {c}
    BY <2>3, <1>3, <1>4 DEF Copying
  <2>5. buffer[1] = buffer[2]
    BY <2>2, <2>3 DEF BufferInv, OneMessage
  <2> QED
    BY <2>3, <2>4, <2>5, <1>1, <1>3, <1>4 DEF OneMessage
<1> QED
  BY <1>2, <1>5, <1>6 DEF BufferInv

(* Every other caller that is in its call or reading counts as disturbed.  *)
LEMMA CopyKeeps ==
  ASSUME BufferInv, NEW c \in Callers,
         CopyHalf(c, 1, "copy1", "copy2") \/ CopyHalf(c, 2, "copy2", "returned")
  PROVE  BufferInv'
<1>1. ours' = ours /\ read' = read /\ received' = received /\ crossed' = crossed
      /\ disturbed' = disturbed \cup (Using \ {c})
  BY DEF CopyHalf
<1>2. \A d \in Callers \ {c} : where'[d] = where[d]
  BY DEF CopyHalf, Passes, BufferInv, BufferTypes
<1>3. \A d \in Callers \ {c} : d \notin disturbed' => where[d] = "out"
  BY <1>1 DEF Using
<1>4. c \in Copying
  BY DEF CopyHalf, Passes, Copying
<1>5. CASE CopyHalf(c, 1, "copy1", "copy2")
  <2>1. where'[c] = "copy2" /\ buffer' = [buffer EXCEPT ![1] = ours[c]]
    BY <1>5 DEF CopyHalf, Passes, BufferInv, BufferTypes
  <2>2. buffer'[1] = ours[c] /\ buffer'[2] = buffer[2]
    BY <2>1 DEF BufferInv, BufferTypes, Halves
  <2>3. BufferTypes'
    BY <1>5, <2>1, <1>1 DEF CopyHalf, Passes, BufferInv, BufferTypes, BufferPlaces, Halves
  <2>4. OwnSoFar'
    BY <1>1, <1>2, <1>3, <2>1, <2>2 DEF OwnSoFar
  <2>5. Copying' = Copying
    BY <1>2, <1>4, <2>1 DEF Copying
  <2>6. OneMessage'
    BY <1>1, <1>2, <1>4, <2>1, <2>2, <2>5 DEF BufferInv, OneMessage, Copying
  <2> QED
    BY <2>3, <2>4, <2>6 DEF BufferInv
<1>6. CASE CopyHalf(c, 2, "copy2", "returned")
  <2>1. where[c] = "copy2" /\ where'[c] = "returned" /\ buffer' = [buffer EXCEPT ![2] = ours[c]]
    BY <1>6 DEF CopyHalf, Passes, BufferInv, BufferTypes
  <2>2. buffer'[2] = ours[c] /\ buffer'[1] = buffer[1]
    BY <2>1 DEF BufferInv, BufferTypes, Halves
  <2>3. BufferTypes'
    BY <1>6, <2>1, <1>1 DEF CopyHalf, Passes, BufferInv, BufferTypes, BufferPlaces, Halves
  <2>4. OwnSoFar'
    BY <1>1, <1>2, <1>3, <2>1, <2>2 DEF BufferInv, OwnSoFar
  <2>5. Copying' = Copying \ {c}
    BY <1>2, <2>1 DEF Copying
  <2>6. OneMessage'
    BY <1>1, <1>2, <1>4, <2>1, <2>2, <2>5 DEF BufferInv, OneMessage
  <2> QED
    BY <2>3, <2>4, <2>6 DEF BufferInv
<1> QED
  BY <1>5, <1>6

(* A read touches the reader's own record only, and leaving nothing.       *)
LEMMA ReadKeeps ==
  ASSUME BufferInv, NEW c \in Callers,
         \/ ReadHalf(c, 1, "returned", "half") \/ ReadHalf(c, 2, "half", "read")
         \/ Leaves(c)
  PROVE  BufferInv'
<1>1. buffer' = buffer /\ ours' = ours /\ received' = received /\ disturbed' = disturbed
      /\ crossed' = crossed
  BY DEF ReadHalf, Leaves
<1>2. \A d \in Callers \ {c} : where'[d] = where[d] /\ read'[d] = read[d]
  BY DEF ReadHalf, Leaves, Passes, BufferInv, BufferTypes
<1>3. where[c] \notin {"copy1", "copy2"} /\ where'[c] \notin {"copy1", "copy2"}
  BY DEF ReadHalf, Leaves, Passes, BufferInv, BufferTypes
<1>4. BufferTypes'
  <2>1. where' \in [Callers -> BufferPlaces]
    BY DEF ReadHalf, Leaves, Passes, BufferInv, BufferTypes, BufferPlaces
  <2>2. read' \in [Callers -> [Halves -> Nat]]
    BY DEF ReadHalf, Leaves, BufferInv, BufferTypes, Halves
  <2> QED
    BY <1>1, <2>1, <2>2 DEF BufferInv, BufferTypes
<1>5. OwnSoFar'
  <2>1. SUFFICES ASSUME c \notin disturbed
                 PROVE /\ where'[c] \in {"returned", "half"} => buffer[1] = ours[c] /\ buffer[2] = ours[c]
                       /\ where'[c] \in {"half", "read"} => read'[c][1] = ours[c]
                       /\ where'[c] = "read" => read'[c][2] = ours[c]
    BY <1>1, <1>2, <1>3 DEF BufferInv, OwnSoFar
  <2>2. CASE ReadHalf(c, 1, "returned", "half")
    <3>1. where[c] = "returned" /\ where'[c] = "half" /\ read'[c][1] = buffer[1]
      BY <2>2 DEF ReadHalf, Passes, BufferInv, BufferTypes, Halves
    <3> QED
      BY <2>1, <3>1 DEF BufferInv, OwnSoFar
  <2>3. CASE ReadHalf(c, 2, "half", "read")
    <3>1. where[c] = "half" /\ where'[c] = "read" /\ read'[c][1] = read[c][1] /\ read'[c][2] = buffer[2]
      BY <2>3 DEF ReadHalf, Passes, BufferInv, BufferTypes, Halves
    <3> QED
      BY <2>1, <3>1 DEF BufferInv, OwnSoFar
  <2>4. CASE Leaves(c)
    BY <2>4 DEF Leaves, Passes, BufferInv, BufferTypes
  <2> QED
    BY <2>2, <2>3, <2>4
<1>6. OneMessage'
  <2>1. Copying' = Copying
    BY <1>2, <1>3 DEF Copying
  <2> QED
    BY <1>1, <1>2, <1>3, <2>1 DEF BufferInv, OneMessage
<1> QED
  BY <1>4, <1>5, <1>6 DEF BufferInv

LEMMA NextBufferInv == BufferInv /\ [BufferNext]_bufferVars => BufferInv'
<1> SUFFICES ASSUME BufferInv, [BufferNext]_bufferVars PROVE BufferInv'
  OBVIOUS
<1>1. CASE UNCHANGED bufferVars
  BY <1>1 DEF bufferVars, BufferInv, BufferTypes, OwnSoFar, OneMessage, Copying
<1>2. CASE BufferNext
  BY <1>2, BeginKeeps, CopyKeeps, ReadKeeps DEF BufferNext
<1> QED
  BY <1>1, <1>2

LEMMA InvReadsOwn == BufferInv => ReadsOwn
BY DEF BufferInv, OwnSoFar, OneMessage, ReadsOwn, Copying, Halves

(* A caller that was not disturbed has read its own message, whole; and    *)
(* the buffer mixes messages only if two ports were served at once: the    *)
(* static Receive_Buffer of Recv_NTDS_Mesg, for any callers and ports.     *)
THEOREM UndisturbedReadOwn == BufferSpec => []ReadsOwn
<1>1. BufferSpec => []BufferInv
  BY InitBufferInv, NextBufferInv, PTL DEF BufferSpec
<1> QED
  BY <1>1, InvReadsOwn, PTL
=============================================================================
