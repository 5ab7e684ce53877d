----------------------------- MODULE NtdsPorts -----------------------------
(***************************************************************************)
(* The tables of ntds_comm: which ports a logical device has, which device *)
(* a port has, which ports are configured, and the two queues of a port.   *)
(* Configure_NTDS_Device walks a list of descriptors and fills the tables; *)
(* the protocol reports the status of ports; the getters read the tables   *)
(* at any moment, and nothing is locked.  An entry of the device table is  *)
(* filled store by store, because every call searches it.  What is stored  *)
(* for the one port that is being configured is one step: the properties   *)
(* except that port, and name the entries that they except.                *)
(***************************************************************************)
EXTENDS Integers, Sequences, FiniteSets

CONSTANTS
  NumPorts,      \* NUM_OF_NTDS_PORTS: ports, and entries of Device_Ports
  Devices,       \* logical unit numbers
  Lists,         \* bound: the descriptor lists that may be configured
  Readiness,     \* bound: the statuses that a protocol may report
  MaxCalls       \* bound: calls of Configure_NTDS_Device

Ports == 0..(NumPorts - 1)
NTDS_PRIMARY_PORT == 0
NTDS_SECONDARY_PORT == 1

(* A descriptor: its port may be out of range by one.                      *)
Descriptors ==
  [device : Devices, port : 0..NumPorts, flag : {NTDS_PRIMARY_PORT, NTDS_SECONDARY_PORT}]

(* A device id is not zero: zero marks an empty entry.                     *)
ASSUME PortsAssumption ==
  /\ NumPorts \in Nat \ {0}
  /\ Devices \subseteq Nat \ {0}
  /\ Lists \subseteq Seq(Descriptors) \ {<<>>}
  /\ Readiness \subseteq Int
  /\ MaxCalls \in Nat

MAX_PORTS_PER_DEVICE == 2
NO_PRIMARY_PORT == -23        \* also NO_NORMAL_PORT
NO_SECONDARY_PORT == -22      \* also NO_ALTERNATE_PORT
INVALID_DEVICE == -1
BAD_PORT_ID == -2
CHANNEL_STATUS_UNKNOWN == -2
PORT_STATUS_UNKNOWN == -3
CHANNEL_FAILED_CONFIG == -1
CHANNEL_RESET == 0
CHANNEL_READY == 10

(* A protocol reports one of the statuses that the header names.           *)
ASSUME ReadinessAssumption == Readiness \subseteq CHANNEL_STATUS_UNKNOWN..CHANNEL_READY

VARIABLES
  Device_Ports,         \* entry -> the device and its ports
  Port_Device,          \* port -> the device it was last configured for, or 0
  Comm_Configured,      \* port -> configured (elements 1.. of the array)
  configuredCount,      \* element 0 of the array
  NTDS_Channel_Status,  \* port -> status
  device_config,        \* port -> the descriptor saved for it
  publishQueue, subscribeQueue,  \* port -> the queue has been created
  list, at,             \* the descriptors being configured, and the place
  stage,                \* where Configure_NTDS_Device stands
  lcl_index,            \* the entry that assign_port_to_device fills
  stores,               \* what that entry has yet to hold, store by store
  calls,
  given                 \* history: device -> the ports assigned to it, in order

queues == <<publishQueue, subscribeQueue>>
tables == <<Device_Ports, Port_Device, Comm_Configured, configuredCount,
            NTDS_Channel_Status, device_config, queues>>
filling == <<lcl_index, stores>>
vars == <<tables, list, at, stage, filling, calls, given>>

EmptyEntry == [device_id |-> 0, primary_port |-> 0, secondary_port |-> 0,
               normal_port |-> 0, alternate_port |-> 0, count |-> 0]
EmptyConfig == [device |-> 0, port |-> 0, flag |-> 0]

(* Static storage is zero.                                                 *)
Init ==
  /\ Device_Ports = [i \in Ports |-> EmptyEntry]
  /\ Port_Device = [p \in Ports |-> 0]
  /\ Comm_Configured = [p \in Ports |-> FALSE]
  /\ configuredCount = 0
  /\ NTDS_Channel_Status = [p \in Ports |-> 0]
  /\ device_config = [p \in Ports |-> EmptyConfig]
  /\ publishQueue = [p \in Ports |-> FALSE]
  /\ subscribeQueue = [p \in Ports |-> FALSE]
  /\ list = <<>>
  /\ at = 1
  /\ stage = "idle"
  /\ lcl_index = 0
  /\ stores = <<>>
  /\ calls = 0
  /\ given = [d \in Devices |-> <<>>]
----------------------------------------------------------------------------
(* The functions that search the tables.                                   *)

EntriesOf(device) == {i \in Ports : Device_Ports[i].device_id = device}
IsLeast(i, S) == i \in S /\ \A j \in S : i <= j

(* get_port and Get_Device_Index: the first entry of the device.           *)
HasEntry(device) == EntriesOf(device) # {}
Entry(device) == Device_Ports[CHOOSE i \in Ports : IsLeast(i, EntriesOf(device))]

(* port_used: 0 (OK) means the port may be assigned.                       *)
port_used(device, port) ==
  IF HasEntry(device) /\ Entry(device).count >= MAX_PORTS_PER_DEVICE
    THEN Port_Device[port]
    ELSE 0

InRange(port) == port < NumPorts

(* The entry that assign_port_to_device stops at: the first that is empty  *)
(* or the device's.  Mutant: only an empty entry will do.                  *)
FitMutant(i, device) == IsLeast(i, EntriesOf(0))
Fit(i, device) == IsLeast(i, EntriesOf(0) \cup EntriesOf(device))

(* A new entry, and one that gets its second port.                         *)
NewEntry(device, port, flag) ==
  IF flag = NTDS_SECONDARY_PORT
    THEN [device_id |-> device, count |-> 1,
          normal_port |-> NO_PRIMARY_PORT, primary_port |-> NO_PRIMARY_PORT,
          secondary_port |-> port, alternate_port |-> port]
    ELSE [device_id |-> device, count |-> 1,
          normal_port |-> port, primary_port |-> port,
          secondary_port |-> NO_SECONDARY_PORT, alternate_port |-> NO_SECONDARY_PORT]

(* Mutant: the second port is always the secondary one.                    *)
GrownEntryMutant(e, port, flag) ==
  [e EXCEPT !.secondary_port = port, !.alternate_port = port, !.count = @ + 1]

GrownEntry(e, port, flag) ==
  IF flag = NTDS_SECONDARY_PORT
    THEN [e EXCEPT !.secondary_port = port, !.alternate_port = port, !.count = @ + 1]
    ELSE IF e.primary_port = NO_PRIMARY_PORT
      THEN [e EXCEPT !.primary_port = port, !.normal_port = port, !.count = @ + 1]
      ELSE [e EXCEPT !.secondary_port = port, !.normal_port = port, !.count = @ + 1]

(* What entry e holds after each store that makes it g, in their order.    *)
(* The device comes first, the count last: a new entry that is not counted *)
(* yet shows zeros, which read as port 0.                                  *)
NewContents(e, g) ==
  LET e1 == [e EXCEPT !.device_id = g.device_id]
      e2 == [e1 EXCEPT !.normal_port = g.normal_port]
      e3 == [e2 EXCEPT !.primary_port = g.primary_port]
      e4 == [e3 EXCEPT !.secondary_port = g.secondary_port]
      e5 == [e4 EXCEPT !.alternate_port = g.alternate_port]
  IN  <<e1, e2, e3, e4, e5, g>>

GrownContents(e, g, flag) ==
  LET e1 == [e EXCEPT !.primary_port = g.primary_port, !.secondary_port = g.secondary_port]
      e2 == IF flag = NTDS_SECONDARY_PORT
              THEN [e1 EXCEPT !.alternate_port = g.alternate_port]
              ELSE [e1 EXCEPT !.normal_port = g.normal_port]
  IN  <<e1, e2, g>>

Contents(e, device, port, flag) ==
  IF e.device_id = 0 THEN NewContents(e, NewEntry(device, port, flag))
                     ELSE GrownContents(e, GrownEntry(e, port, flag), flag)
----------------------------------------------------------------------------
(* Configure_NTDS_Device.  Its device and port are those of the head of    *)
(* the list, whatever descriptor it has come to; only the redundancy flag  *)
(* is the descriptor's own.                                                *)

head == list[1]

Configure_NTDS_Device(descriptors) ==
  /\ stage = "idle"
  /\ calls < MaxCalls
  /\ calls' = calls + 1
  /\ list' = descriptors
  /\ at' = 1
  /\ stage' = "list"
  /\ UNCHANGED <<tables, filling, given>>

MayAssign == InRange(head.port) /\ port_used(head.device, head.port) = 0

(* assign_port_to_device, up to the first store ...                        *)
AssignPort ==
  /\ stage = "list"
  /\ at <= Len(list)
  /\ MayAssign
  /\ \E i \in Ports :
       LET contents == Contents(Device_Ports[i], head.device, head.port, list[at].flag)
       IN  /\ Fit(i, head.device)
           /\ Device_Ports[i].count < MAX_PORTS_PER_DEVICE
           /\ Device_Ports' = [Device_Ports EXCEPT ![i] = Head(contents)]
           /\ stores' = Tail(contents)
           /\ lcl_index' = i
  /\ given' = [given EXCEPT ![head.device] =
                 Append(@, [port |-> head.port, flag |-> list[at].flag])]
  /\ stage' = "storing"
  /\ UNCHANGED <<Port_Device, Comm_Configured, configuredCount,
                 NTDS_Channel_Status, device_config, queues, list, at, calls>>

(* ... and the rest of them, one by one.                                   *)
StoreField ==
  /\ stage = "storing"
  /\ Device_Ports' = [Device_Ports EXCEPT ![lcl_index] = Head(stores)]
  /\ stores' = Tail(stores)
  /\ stage' = IF Tail(stores) = <<>> THEN "assigned" ELSE "storing"
  /\ UNCHANGED <<Port_Device, Comm_Configured, configuredCount,
                 NTDS_Channel_Status, device_config, queues, list, at, lcl_index,
                 calls, given>>

(* TABLE_FULL: the function returns and leaves the rest of the list.       *)
RefusePort ==
  /\ stage = "list"
  /\ at <= Len(list)
  /\ MayAssign
  /\ \A i \in Ports :
       Fit(i, head.device) => Device_Ports[i].count >= MAX_PORTS_PER_DEVICE
  /\ stage' = "idle"
  /\ UNCHANGED <<tables, list, at, filling, calls, given>>

(* A port out of range or in use is passed over without an error.          *)
SkipPort ==
  /\ stage = "list"
  /\ at <= Len(list)
  /\ ~MayAssign
  /\ at' = at + 1
  /\ UNCHANGED <<tables, list, stage, filling, calls, given>>

(* The descriptor that is saved.  Mutant: that of the head, whose device   *)
(* and port are used for all.                                              *)
SavedMutant == head
Saved == list[at]

MarkConfigured ==
  /\ stage = "assigned"
  /\ Port_Device' = [Port_Device EXCEPT ![head.port] = head.device]
  /\ Comm_Configured' = [Comm_Configured EXCEPT ![head.port] = TRUE]
  /\ NTDS_Channel_Status' = [NTDS_Channel_Status EXCEPT ![head.port] = CHANNEL_RESET]
  /\ device_config' = [device_config EXCEPT ![head.port] = Saved]
  /\ configuredCount' = configuredCount + 1
  /\ stage' = "configured"
  /\ UNCHANGED <<Device_Ports, queues, list, at, filling, calls, given>>

(* createQueues: both queues or, when there is a publish queue, neither.   *)
CreatePublishQueue ==
  /\ stage = "configured"
  /\ publishQueue' = [publishQueue EXCEPT ![head.port] = TRUE]
  /\ IF publishQueue[head.port]
       THEN stage' = "list" /\ at' = at + 1
       ELSE stage' = "published" /\ at' = at
  /\ UNCHANGED <<Device_Ports, Port_Device, Comm_Configured, configuredCount,
                 NTDS_Channel_Status, device_config, subscribeQueue, list,
                 filling, calls, given>>

MakeSubscribeQueue(made) ==
  /\ stage = "published"
  /\ subscribeQueue' = [subscribeQueue EXCEPT ![head.port] = made]
  /\ stage' = "list"
  /\ at' = at + 1
  /\ UNCHANGED <<Device_Ports, Port_Device, Comm_Configured, configuredCount,
                 NTDS_Channel_Status, device_config, publishQueue, list,
                 filling, calls, given>>

(* Mutant: the subscribe queue is made only where there is one.            *)
CreateSubscribeQueueMutant == MakeSubscribeQueue(subscribeQueue[head.port])
CreateSubscribeQueue == MakeSubscribeQueue(TRUE)

EndOfList ==
  /\ stage = "list"
  /\ at > Len(list)
  /\ stage' = "idle"
  /\ UNCHANGED <<tables, list, at, filling, calls, given>>
----------------------------------------------------------------------------
(* The protocol of a port reports its status.                              *)
Report_Port_Status(port, readiness) ==
  /\ NTDS_Channel_Status' = [NTDS_Channel_Status EXCEPT ![port] = readiness]
  /\ UNCHANGED <<Device_Ports, Port_Device, Comm_Configured, configuredCount,
                 device_config, queues, list, at, stage, filling, calls, given>>

ConfigureStep ==
  \/ AssignPort
  \/ StoreField
  \/ RefusePort
  \/ SkipPort
  \/ MarkConfigured
  \/ CreatePublishQueue
  \/ CreateSubscribeQueue
  \/ EndOfList

Next ==
  \/ \E descriptors \in Lists : Configure_NTDS_Device(descriptors)
  \/ ConfigureStep
  \/ \E p \in Ports, s \in Readiness : Report_Port_Status(p, s)

Spec == Init /\ [][Next]_vars
----------------------------------------------------------------------------
(* What the getters return.                                                *)

(* A port that is not configured has a status only if that status says     *)
(* that it could not be configured.                                        *)
Get_Port_Status(port) ==
  IF port \in Ports /\ (Comm_Configured[port] \/ NTDS_Channel_Status[port] = CHANNEL_FAILED_CONFIG)
    THEN NTDS_Channel_Status[port]
    ELSE BAD_PORT_ID

(* Its range is checked, and not whether it is configured.                 *)
Get_NTDS_Port_Status(port) ==
  IF port \in Ports THEN NTDS_Channel_Status[port] ELSE PORT_STATUS_UNKNOWN

Get_Device_Id(port) == Port_Device[port]

(* The getters of one port of a device.                                    *)
PortOr(device, port, none) ==
  IF HasEntry(device) /\ port # none THEN port ELSE INVALID_DEVICE
Get_Primary_NTDS_Port(device) == PortOr(device, Entry(device).primary_port, NO_PRIMARY_PORT)
Get_Secondary_NTDS_Port(device) == PortOr(device, Entry(device).secondary_port, NO_SECONDARY_PORT)
Get_Normal_NTDS_Port(device) == PortOr(device, Entry(device).normal_port, NO_PRIMARY_PORT)
Get_Alternate_NTDS_Port(device) == PortOr(device, Entry(device).alternate_port, NO_SECONDARY_PORT)

(* The current port of a device.  Mutant: the secondary port is not tried. *)
Get_NTDS_PortMutant(device) ==
  IF HasEntry(device) THEN Entry(device).primary_port ELSE INVALID_DEVICE

Get_NTDS_Port(device) ==
  IF ~HasEntry(device) THEN INVALID_DEVICE
  ELSE IF Entry(device).primary_port # NO_PRIMARY_PORT THEN Entry(device).primary_port
  ELSE IF Entry(device).secondary_port # NO_SECONDARY_PORT THEN Entry(device).secondary_port
  ELSE INVALID_DEVICE

(* What is told of the current port: its status, whatever port that is;    *)
(* the descriptor that was saved, if the port is marked as configured; the *)
(* descriptor that the word size is read from, marked or not.              *)
NTDS_Status(device) ==
  IF Get_NTDS_Port(device) = INVALID_DEVICE
    THEN CHANNEL_STATUS_UNKNOWN
    ELSE NTDS_Channel_Status[Get_NTDS_Port(device)]
Get_Device_Configuration(device) ==
  LET port == Get_NTDS_Port(device)
  IN  IF port # INVALID_DEVICE /\ Comm_Configured[port]
        THEN [status |-> 0, port |-> port, config |-> device_config[port]]
        ELSE [status |-> INVALID_DEVICE]
Get_NTDS_Word_Size(device) == device_config[Get_NTDS_Port(device)]

(* The strings of a status are indexed from that of CHANNEL_STATUS_UNKNOWN;*)
(* a string is its index.                                                  *)
NTDS_Status_String == 0..12
Get_NTDS_Status_String(device) == NTDS_Status(device) - CHANNEL_STATUS_UNKNOWN
Get_Port_Status_String(port) ==
  IF port \in Ports THEN NTDS_Channel_Status[port] - CHANNEL_STATUS_UNKNOWN ELSE 0

(* TRUE for NORMAL_CHANNEL, and for Primary_Port_Characteristic.  Mutant:  *)
(* the port is compared with the port of the device that it is a port of.  *)
Get_Channel_IDMutant(port) == port = Get_NTDS_Port(Get_Device_Id(port))
Get_Channel_ID(port) == port = Get_Normal_NTDS_Port(Get_Device_Id(port))
Get_Port_Characteristic(device, port) == port = Entry(device).primary_port

(* Mutant: the alternate port is not looked at.                            *)
Get_Interface_StatusMutant(device) ==
  Get_Port_Status(Entry(device).normal_port) >= CHANNEL_READY

(* TRUE for Interface_Up_Status; the device has an entry.                  *)
Get_Interface_Status(device) ==
  \/ Get_Port_Status(Entry(device).normal_port) >= CHANNEL_READY
  \/ /\ Entry(device).alternate_port # NO_SECONDARY_PORT
     /\ Get_Port_Status(Entry(device).alternate_port) >= CHANNEL_READY
----------------------------------------------------------------------------
(* Properties *)

AnyPort == Ports \cup {NO_PRIMARY_PORT, NO_SECONDARY_PORT}

EntryType ==
  [device_id : Devices \cup {0}, primary_port : AnyPort, secondary_port : AnyPort,
   normal_port : AnyPort, alternate_port : AnyPort, count : 0..MAX_PORTS_PER_DEVICE]

(* Type invariant.                                                         *)
TypeOK ==
  /\ Device_Ports \in [Ports -> EntryType]
  /\ Port_Device \in [Ports -> Devices \cup {0}]
  /\ Comm_Configured \in [Ports -> BOOLEAN]
  /\ configuredCount \in Nat
  /\ NTDS_Channel_Status \in [Ports -> Int]
  /\ device_config \in [Ports -> Descriptors \cup {EmptyConfig}]
  /\ publishQueue \in [Ports -> BOOLEAN]
  /\ subscribeQueue \in [Ports -> BOOLEAN]
  /\ list \in Lists \cup {<<>>}
  /\ at \in 1..(Len(list) + 1)
  /\ stage \in {"idle", "list", "storing", "assigned", "configured", "published"}
  /\ lcl_index \in Ports
  /\ stores \in Seq(EntryType)
  /\ calls \in 0..MaxCalls
  /\ given \in [Devices -> Seq([port : Ports, flag : {NTDS_PRIMARY_PORT, NTDS_SECONDARY_PORT}])]

(* The table has no holes and no device twice, so that a search that stops *)
(* at the first empty entry misses nothing and every getter finds the      *)
(* entry that assign_port_to_device filled.                                *)
TablePacked ==
  \A i, j \in Ports :
    i < j /\ Device_Ports[j].device_id # 0 =>
      /\ Device_Ports[i].device_id # 0
      /\ Device_Ports[i].device_id # Device_Ports[j].device_id

(* The ports a device's entry names.                                       *)
PortsIn(e) == {e.primary_port, e.secondary_port, e.normal_port, e.alternate_port} \cap Ports

(* A device can be used on every port its entry names: the port is         *)
(* configured and has both queues, so that Send and Recv never meet a NULL *)
(* queue, or is being configured, or is read from a field that is not      *)
(* stored yet.  That can only be port 0, in an entry not counted yet.      *)
Configuring(port) ==
  stage \in {"storing", "assigned", "configured", "published"} /\ head.port = port
RoutesComplete ==
  \A i \in Ports : Device_Ports[i].device_id # 0 =>
    \A p \in PortsIn(Device_Ports[i]) :
      \/ Comm_Configured[p] /\ publishQueue[p] /\ subscribeQueue[p]
      \/ Configuring(p)
      \/ p = 0 /\ Device_Ports[i].count = 0

(* The interface of a device is up exactly if one of the ports it was      *)
(* given is viable, as the header of Get_Interface_Status says, for a      *)
(* device that was not given two ports of one kind: such a device has lost *)
(* the first of them.  While its entry is being written, what is read of   *)
(* it may be of two different stores.                                      *)
Storing(device) == stage = "storing" /\ head.device = device
Viable(device) ==
  \E k \in 1..Len(given[device]) :
    Get_Port_Status(given[device][k].port) >= CHANNEL_READY
OneOfAKind(device) ==
  \A j, k \in 1..Len(given[device]) :
    given[device][j].flag = given[device][k].flag => j = k
UpIfOneViable ==
  \A d \in Devices :
    HasEntry(d) /\ OneOfAKind(d) /\ ~Storing(d) =>
      (Get_Interface_Status(d) <=> Viable(d))

(* The current port of a device is one that it was given, from the moment  *)
(* its entry is counted and even if it was given two ports of one kind,    *)
(* also while its second port is being stored.  Unless the current port is *)
(* being configured, all that is told of it is there and agrees: a device  *)
(* never has the configuration, word size or status of a port that is not  *)
(* configured.                                                             *)
PortWasGiven ==
  \A d \in Devices : HasEntry(d) /\ Entry(d).count # 0 =>
    LET port == Get_NTDS_Port(d)
    IN  /\ \E k \in 1..Len(given[d]) : given[d][k].port = port
        /\ ~Configuring(port) =>
             /\ Get_Device_Configuration(d) =
                  [status |-> 0, port |-> port, config |-> Get_NTDS_Word_Size(d)]
             /\ Get_NTDS_Word_Size(d) # EmptyConfig
             /\ NTDS_Status(d) = Get_Port_Status(port)
             /\ Get_NTDS_Port_Status(port) = Get_Port_Status(port)
             /\ Get_NTDS_Status_String(d) = Get_Port_Status_String(port)
             /\ Get_NTDS_Status_String(d) \in NTDS_Status_String

(* The four port getters, the channel id and the characteristic of a port  *)
(* agree with what the ports were given as, the last two for the device    *)
(* that was the last to get the port, unless its entry is being written;   *)
(* and the descriptor saved for a port is the one that it was last given   *)
(* by, not the head of that list.                                          *)
PortGivenAs(device, flag) ==
  IF \E k \in 1..Len(given[device]) : given[device][k].flag = flag
    THEN given[device][CHOOSE k \in 1..Len(given[device]) : given[device][k].flag = flag].port
    ELSE INVALID_DEVICE
LastGiven(device, port, k) ==
  /\ given[device][k].port = port
  /\ \A j \in (k + 1)..Len(given[device]) : given[device][j].port # port
ChannelAsGiven ==
  /\ \A d \in Devices : OneOfAKind(d) /\ ~Storing(d) =>
       /\ Get_Primary_NTDS_Port(d) = PortGivenAs(d, NTDS_PRIMARY_PORT)
       /\ Get_Normal_NTDS_Port(d) = Get_Primary_NTDS_Port(d)
       /\ Get_Secondary_NTDS_Port(d) = PortGivenAs(d, NTDS_SECONDARY_PORT)
       /\ Get_Alternate_NTDS_Port(d) = Get_Secondary_NTDS_Port(d)
  /\ \A p \in Ports :
       LET d == Get_Device_Id(p)
       IN  d # 0 =>
             /\ OneOfAKind(d) /\ ~Storing(d) =>
                  /\ Get_Channel_ID(p) <=> p = Get_Primary_NTDS_Port(d)
                  /\ Get_Port_Characteristic(d, p) <=> p = Get_Primary_NTDS_Port(d)
             /\ \A k \in 1..Len(given[d]) :
                  LastGiven(d, p, k) /\ ~Configuring(p) =>
                    device_config[p].flag = given[d][k].flag
=============================================================================
