-------------------------- MODULE NtdsPortsProofs --------------------------
(***************************************************************************)
(* Theorems about NtdsPorts, for any number of ports, any devices and any  *)
(* lists of descriptors: its types, the shape of the device table, that    *)
(* the ports of an entry are configured and have their queues, and that    *)
(* what the getters return is what the ports were given as.  Then, about   *)
(* SpsInterface, that the protocol's own tables agree with these.          *)
(***************************************************************************)
EXTENDS SpsInterface, TLAPS

Stages == {"storing", "assigned", "configured", "published"}

(* A port that is being configured is the port in range of the head of a   *)
(* list that the function has not come to the end of.                      *)
HeadInRange ==
  /\ stage # "idle" => list \in Lists
  /\ stage \in Stages => at <= Len(list) /\ head.port \in Ports

(* The queues of a port are made together; its configured mark comes       *)
(* before them.                                                            *)
QueuesPaired ==
  /\ stage \in {"configured", "published"} => Comm_Configured[head.port]
  /\ stage = "published" => publishQueue[head.port]
  /\ \A p \in Ports :
       publishQueue[p] => subscribeQueue[p] \/ (stage = "published" /\ head.port = p)

(* What an entry may name: ports that are usable or being configured, and  *)
(* port 0 as long as it is not counted.                                    *)
Usable(p) == Comm_Configured[p] /\ publishQueue[p] /\ subscribeQueue[p]
Shown(e) ==
  \A p \in PortsIn(e) : Usable(p) \/ Configuring(p) \/ (p = 0 /\ e.count = 0)

(* An entry that is being written is the head's device's; whatever it has  *)
(* yet to hold may be shown, and in the end it is counted.                 *)
StoresGood ==
  stage = "storing" =>
    /\ stores # <<>>
    /\ stores[Len(stores)].count # 0
    /\ Device_Ports[lcl_index].device_id = head.device
    /\ \A k \in 1..Len(stores) : stores[k].device_id = head.device /\ Shown(stores[k])

(* Every other entry is empty or counted.                                  *)
EntriesWhole ==
  \A i \in Ports :
    /\ Device_Ports[i].device_id = 0 => Device_Ports[i] = EmptyEntry
    /\ Device_Ports[i].device_id # 0 /\ Device_Ports[i].count = 0 =>
         stage = "storing" /\ i = lcl_index

Inv ==
  /\ TypeOK
  /\ HeadInRange
  /\ TablePacked
  /\ QueuesPaired
  /\ RoutesComplete
  /\ StoresGood
  /\ EntriesWhole

Flags == {NTDS_PRIMARY_PORT, NTDS_SECONDARY_PORT}
----------------------------------------------------------------------------
(* What the two forms of an entry are: an entry of the device that names   *)
(* the new port and, for the second form, the ports it named before.       *)
LEMMA NewEntryIs ==
  ASSUME NEW d \in Devices, NEW p \in Ports, NEW f \in Flags
  PROVE  /\ NewEntry(d, p, f) \in EntryType
         /\ NewEntry(d, p, f).device_id = d
         /\ PortsIn(NewEntry(d, p, f)) \subseteq {p}
  BY PortsAssumption, SMT
  DEF NewEntry, EntryType, PortsIn, AnyPort, Ports, Flags, NTDS_PRIMARY_PORT, NTDS_SECONDARY_PORT,
      NO_PRIMARY_PORT, NO_SECONDARY_PORT, MAX_PORTS_PER_DEVICE

LEMMA GrownEntryIs ==
  ASSUME NEW e \in EntryType, e.count < MAX_PORTS_PER_DEVICE, NEW p \in Ports, NEW f \in Flags
  PROVE  /\ GrownEntry(e, p, f) \in EntryType
         /\ GrownEntry(e, p, f).device_id = e.device_id
         /\ PortsIn(GrownEntry(e, p, f)) \subseteq PortsIn(e) \cup {p}
<1> DEFINE g == GrownEntry(e, p, f)
<1>1. p \in AnyPort /\ e.count + 1 \in 0..MAX_PORTS_PER_DEVICE
  BY SMT DEF EntryType, AnyPort, MAX_PORTS_PER_DEVICE
<1>2. CASE f = NTDS_SECONDARY_PORT
  <2>1. g = [e EXCEPT !.secondary_port = p, !.alternate_port = p, !.count = e.count + 1]
    BY <1>2 DEF GrownEntry
  <2> QED
    BY <1>1, <2>1 DEF EntryType, PortsIn
<1>3. CASE f # NTDS_SECONDARY_PORT /\ e.primary_port = NO_PRIMARY_PORT
  <2>1. g = [e EXCEPT !.primary_port = p, !.normal_port = p, !.count = e.count + 1]
    BY <1>3 DEF GrownEntry
  <2> QED
    BY <1>1, <2>1 DEF EntryType, PortsIn
<1>4. CASE f # NTDS_SECONDARY_PORT /\ e.primary_port # NO_PRIMARY_PORT
  <2>1. g = [e EXCEPT !.secondary_port = p, !.normal_port = p, !.count = e.count + 1]
    BY <1>4 DEF GrownEntry
  <2> QED
    BY <1>1, <2>1 DEF EntryType, PortsIn
<1> QED
  BY <1>2, <1>3, <1>4

(* The port that a device uses first.                                      *)
Current(e) == IF e.primary_port # NO_PRIMARY_PORT THEN e.primary_port ELSE e.secondary_port

(* Primary and normal port are ports or say that there is none, and never  *)
(* hold the mark of a missing secondary port.                              *)
Marked(e) ==
  /\ e.primary_port \in Ports \cup {NO_PRIMARY_PORT}
  /\ e.normal_port \in Ports \cup {NO_PRIMARY_PORT}

(* What an entry holds while a port is stored in it: an entry of the       *)
(* device that names that port and those it named before, or zeros if it   *)
(* is new and not counted; what it holds in the end is counted.            *)
Holds(c, e, d, p) ==
  /\ c \in EntryType
  /\ c.device_id = d
  /\ PortsIn(c) \subseteq {p} \cup (IF e.device_id = 0 THEN {} ELSE PortsIn(e))
                             \cup (IF c.count = 0 THEN {0} ELSE {})
  /\ c.count # 0 => Current(c) = p \/ (e.device_id # 0 /\ Current(c) = Current(e))
  /\ (e.device_id # 0 => Marked(e)) => Marked(c)

LEMMA NewContentsAre ==
  ASSUME NEW d \in Devices, NEW p \in Ports, NEW f \in Flags
  PROVE  LET c == NewContents(EmptyEntry, NewEntry(d, p, f))
         IN  /\ Len(c) = 6 /\ c \in Seq(EntryType)
             /\ \A k \in 1..6 : Holds(c[k], EmptyEntry, d, p)
             /\ c[6] = NewEntry(d, p, f)
<1> DEFINE g == NewEntry(d, p, f)
           c == NewContents(EmptyEntry, g)
           Zero(x) == x \in EntryType /\ x.device_id = d /\ x.count = 0 /\ PortsIn(x) \subseteq {0, p} /\ Marked(x)
<1>0. 0 \in Ports /\ 0 \in 0..MAX_PORTS_PER_DEVICE
  BY PortsAssumption DEF Ports, MAX_PORTS_PER_DEVICE
<1>1. /\ g \in EntryType /\ g.device_id = d /\ PortsIn(g) \subseteq {p}
      /\ g.count = 1 /\ Current(g) = p /\ Marked(g)
  <2>1. p # NO_PRIMARY_PORT
    BY PortsAssumption DEF Ports, NO_PRIMARY_PORT
  <2>2. g.count = 1 /\ Current(g) = p
    BY <2>1 DEF NewEntry, Current, Flags
  <2>3. Marked(g)
    BY DEF NewEntry, Marked
  <2> QED
    BY <2>2, <2>3, NewEntryIs
<1> HIDE DEF g
<1> DEFINE e1 == [EmptyEntry EXCEPT !.device_id = g.device_id]
           e2 == [e1 EXCEPT !.normal_port = g.normal_port]
           e3 == [e2 EXCEPT !.primary_port = g.primary_port]
           e4 == [e3 EXCEPT !.secondary_port = g.secondary_port]
           e5 == [e4 EXCEPT !.alternate_port = g.alternate_port]
<1>2. c = <<e1, e2, e3, e4, e5, g>>
  BY DEF NewContents
<1>3. Zero(e1)
  BY <1>0, <1>1 DEF EmptyEntry, EntryType, PortsIn, AnyPort, Marked
<1>4. /\ e1.normal_port = 0 /\ e1.primary_port = 0 /\ e1.secondary_port = 0 /\ e1.alternate_port = 0
  BY DEF EmptyEntry
<1> HIDE DEF e1
<1>5. Zero(e2)
  BY <1>0, <1>1, <1>3 DEF EntryType, PortsIn, AnyPort, Marked
<1> HIDE DEF e2
<1>6. Zero(e3)
  BY <1>0, <1>1, <1>5 DEF EntryType, PortsIn, AnyPort, Marked
<1> HIDE DEF e3
<1>7. Zero(e4)
  BY <1>0, <1>1, <1>6 DEF EntryType, PortsIn, AnyPort, Marked
<1> HIDE DEF e4
<1>8. Zero(e5)
  BY <1>0, <1>1, <1>7 DEF EntryType, PortsIn, AnyPort, Marked
<1> HIDE DEF e5
<1>9. ASSUME NEW x, Zero(x) PROVE x \in EntryType /\ Holds(x, EmptyEntry, d, p)
  BY <1>9 DEF Holds
<1>10. g \in EntryType /\ Holds(g, EmptyEntry, d, p)
  BY <1>1 DEF Holds
<1> HIDE DEF Zero, c
<1>11. /\ Len(c) = 6 /\ c[1] = e1 /\ c[2] = e2 /\ c[3] = e3 /\ c[4] = e4 /\ c[5] = e5 /\ c[6] = g
  BY <1>2
<1>12. \A k \in 1..6 : Holds(c[k], EmptyEntry, d, p)
  <2> SUFFICES ASSUME NEW k \in 1..6 PROVE Holds(c[k], EmptyEntry, d, p)
    OBVIOUS
  <2>1. k = 1 \/ k = 2 \/ k = 3 \/ k = 4 \/ k = 5 \/ k = 6
    OBVIOUS
  <2> QED
    BY <1>3, <1>5, <1>6, <1>7, <1>8, <1>9, <1>10, <1>11, <2>1, Zenon
<1>13. c \in Seq(EntryType)
  BY <1>2, <1>3, <1>5, <1>6, <1>7, <1>8, <1>10 DEF Zero
<1> QED
  BY <1>11, <1>12, <1>13 DEF c, g

LEMMA GrownContentsAre ==
  ASSUME NEW e \in EntryType, e.device_id # 0, e.count \in 1..(MAX_PORTS_PER_DEVICE - 1),
         NEW p \in Ports, NEW f \in Flags
  PROVE  LET c == GrownContents(e, GrownEntry(e, p, f), f)
         IN  /\ Len(c) = 3 /\ c \in Seq(EntryType)
             /\ \A k \in 1..3 : Holds(c[k], e, e.device_id, p)
             /\ c[3] = GrownEntry(e, p, f)
             /\ c[3].count # 0
<1> DEFINE g == GrownEntry(e, p, f)
           c == GrownContents(e, g, f)
           e1 == [e EXCEPT !.primary_port = g.primary_port, !.secondary_port = g.secondary_port]
           e2 == IF f = NTDS_SECONDARY_PORT
                   THEN [e1 EXCEPT !.alternate_port = g.alternate_port]
                   ELSE [e1 EXCEPT !.normal_port = g.normal_port]
<1>1. /\ p # NO_PRIMARY_PORT /\ p \in AnyPort
  BY PortsAssumption DEF Ports, NO_PRIMARY_PORT, AnyPort
<1>2. /\ g \in EntryType /\ g.device_id = e.device_id /\ PortsIn(g) \subseteq PortsIn(e) \cup {p}
  <2>1. e.count < MAX_PORTS_PER_DEVICE
    BY DEF MAX_PORTS_PER_DEVICE
  <2> QED
    BY <2>1, GrownEntryIs
<1>3. /\ g.count # 0
      /\ Current(g) \in {p, Current(e)}
      /\ \/ g.primary_port = e.primary_port
         \/ g.primary_port = p /\ e.primary_port = NO_PRIMARY_PORT
      /\ g.secondary_port \in {p, e.secondary_port}
      /\ g.normal_port \in {p, e.normal_port}
      /\ g.alternate_port \in {p, e.alternate_port}
  <2>1. CASE f = NTDS_SECONDARY_PORT
    <3>1. g = [e EXCEPT !.secondary_port = p, !.alternate_port = p, !.count = e.count + 1]
      BY <2>1 DEF GrownEntry
    <3> HIDE DEF g
    <3> QED
      BY <3>1 DEF EntryType, Current
  <2>2. CASE f # NTDS_SECONDARY_PORT /\ e.primary_port = NO_PRIMARY_PORT
    <3>1. g = [e EXCEPT !.primary_port = p, !.normal_port = p, !.count = e.count + 1]
      BY <2>2 DEF GrownEntry
    <3> HIDE DEF g
    <3> QED
      BY <1>1, <2>2, <3>1 DEF EntryType, Current
  <2>3. CASE f # NTDS_SECONDARY_PORT /\ e.primary_port # NO_PRIMARY_PORT
    <3>1. g = [e EXCEPT !.secondary_port = p, !.normal_port = p, !.count = e.count + 1]
      BY <2>3 DEF GrownEntry
    <3> HIDE DEF g
    <3> QED
      BY <2>3, <3>1 DEF EntryType, Current
  <2> QED
    BY <2>1, <2>2, <2>3
<1> HIDE DEF g
<1>4. c = <<e1, e2, g>>
  BY DEF GrownContents
<1>5. /\ e1 \in EntryType /\ e1.device_id = e.device_id /\ e1.count = e.count
      /\ e1.primary_port = g.primary_port /\ e1.secondary_port = g.secondary_port
      /\ e1.normal_port = e.normal_port /\ e1.alternate_port = e.alternate_port
  BY <1>2 DEF EntryType
<1> HIDE DEF e1
<1>6. /\ e2 \in EntryType /\ e2.device_id = e.device_id /\ e2.count = e.count
      /\ e2.primary_port = g.primary_port /\ e2.secondary_port = g.secondary_port
      /\ e2.normal_port \in {p, e.normal_port} /\ e2.alternate_port \in {p, e.alternate_port}
  <2>1. CASE f = NTDS_SECONDARY_PORT
    BY <1>2, <1>3, <1>5, <2>1 DEF EntryType
  <2>2. CASE f # NTDS_SECONDARY_PORT
    BY <1>2, <1>3, <1>5, <2>2 DEF EntryType
  <2> QED
    BY <2>1, <2>2
<1> HIDE DEF e2
<1>7. PortsIn(e1) \subseteq PortsIn(e) \cup {p} /\ PortsIn(e2) \subseteq PortsIn(e) \cup {p}
  BY <1>3, <1>5, <1>6 DEF PortsIn
<1>8. Current(e1) = Current(g) /\ Current(e2) = Current(g)
  BY <1>5, <1>6 DEF Current
<1>13. Marked(e) => Marked(e1) /\ Marked(e2) /\ Marked(g)
  BY <1>3, <1>5, <1>6 DEF Marked
<1>9. Holds(e1, e, e.device_id, p) /\ Holds(e2, e, e.device_id, p) /\ Holds(g, e, e.device_id, p)
  BY <1>2, <1>3, <1>5, <1>6, <1>7, <1>8, <1>13 DEF Holds
<1> HIDE DEF c
<1>10. Len(c) = 3 /\ c[1] = e1 /\ c[2] = e2 /\ c[3] = g
  BY <1>4
<1>11. \A k \in 1..3 : Holds(c[k], e, e.device_id, p)
  <2> SUFFICES ASSUME NEW k \in 1..3 PROVE Holds(c[k], e, e.device_id, p)
    OBVIOUS
  <2>1. k = 1 \/ k = 2 \/ k = 3
    OBVIOUS
  <2> QED
    BY <1>9, <1>10, <2>1, Zenon
<1>12. c \in Seq(EntryType)
  BY <1>2, <1>4, <1>5, <1>6
<1> QED
  BY <1>3, <1>10, <1>11, <1>12 DEF c, g

(* The head of a list that is being configured.                            *)
LEMMA HeadIs ==
  ASSUME TypeOK, HeadInRange, stage # "idle"
  PROVE  /\ list \in Seq(Descriptors)
         /\ Len(list) \in Nat \ {0}
         /\ head.device \in Devices
         /\ head.port \in 0..NumPorts
         /\ head.port \in Nat
         /\ at \in Nat \ {0}
         /\ \A k \in 1..Len(list) : list[k].flag \in Flags
<1>1. list \in Seq(Descriptors) /\ list # <<>>
  BY PortsAssumption DEF HeadInRange
<1>2. Len(list) \in Nat \ {0} /\ \A k \in 1..Len(list) : list[k] \in Descriptors
  BY <1>1
<1>3. head \in Descriptors
  BY <1>2 DEF head
<1>4. at \in Nat \ {0}
  BY <1>2 DEF TypeOK
<1> QED
  BY <1>1, <1>2, <1>3, <1>4, PortsAssumption DEF Descriptors, Flags

LEMMA InitInv == Init => Inv
<1> SUFFICES ASSUME Init PROVE Inv
  OBVIOUS
<1> USE PortsAssumption DEF Init
<1>1. EmptyEntry \in EntryType /\ EmptyEntry.device_id = 0
  BY DEF EmptyEntry, EntryType, AnyPort, Ports, MAX_PORTS_PER_DEVICE
<1>2. /\ Device_Ports \in [Ports -> EntryType]
      /\ \A i \in Ports : Device_Ports[i].device_id = 0 /\ Device_Ports[i] = EmptyEntry
  BY <1>1
<1>3. TypeOK
  <2>1. /\ Comm_Configured \in [Ports -> BOOLEAN]
        /\ publishQueue \in [Ports -> BOOLEAN]
        /\ subscribeQueue \in [Ports -> BOOLEAN]
    BY Zenon
  <2>2. at \in 1..(Len(list) + 1)
    OBVIOUS
  <2>3. given \in [Devices -> Seq([port : Ports, flag : Flags])]
    OBVIOUS
  <2>4. lcl_index \in Ports /\ stores \in Seq(EntryType)
    BY DEF Ports
  <2> QED
    BY <1>2, <2>1, <2>2, <2>3, <2>4 DEF TypeOK, Flags
<1>4. StoresGood /\ EntriesWhole
  BY <1>2 DEF StoresGood, EntriesWhole
<1> QED
  BY <1>2, <1>3, <1>4, Zenon DEF Inv, HeadInRange, TablePacked, QueuesPaired, RoutesComplete, Stages
----------------------------------------------------------------------------
(* AssignPort fills or extends one entry: the first that is empty or of    *)
(* the head's device.                                                      *)
Made(old, d, p, f) == IF old.device_id = 0 THEN NewEntry(d, p, f) ELSE GrownEntry(old, p, f)

LEMMA AssignPortIs ==
  ASSUME Inv, AssignPort
  PROVE  /\ head.port \in Ports
         /\ head.device \in Devices
         /\ list[at].flag \in Flags
         /\ \E i \in Ports, c \in Seq(EntryType) :
              /\ Fit(i, head.device)
              /\ Device_Ports[i] \in EntryType /\ Device_Ports[i].device_id \in {0, head.device}
              /\ Device_Ports[i].count < MAX_PORTS_PER_DEVICE
              /\ Len(c) \in {3, 6}
              /\ \A k \in 1..Len(c) : Holds(c[k], Device_Ports[i], head.device, head.port)
              /\ c[Len(c)] = Made(Device_Ports[i], head.device, head.port, list[at].flag)
              /\ c[Len(c)].count # 0
              /\ Device_Ports' = [Device_Ports EXCEPT ![i] = c[1]]
              /\ stores' = Tail(c) /\ lcl_index' = i
<1> USE PortsAssumption
<1>0. stage = "list"
  BY DEF AssignPort
<1>1. /\ head.port \in Ports
      /\ head.device \in Devices
      /\ list[at].flag \in Flags
  <2>1. head.port < NumPorts /\ at <= Len(list)
    BY DEF AssignPort, MayAssign, InRange
  <2> QED
    BY <1>0, <2>1, HeadIs DEF Inv, Ports
<1> DEFINE d == head.device
           p == head.port
           f == list[at].flag
<1>2. PICK i \in Ports :
        /\ Fit(i, d)
        /\ Device_Ports[i].count < MAX_PORTS_PER_DEVICE
        /\ Device_Ports' = [Device_Ports EXCEPT ![i] = Head(Contents(Device_Ports[i], d, p, f))]
        /\ stores' = Tail(Contents(Device_Ports[i], d, p, f))
        /\ lcl_index' = i
  BY DEF AssignPort
<1> DEFINE old == Device_Ports[i]
           c == Contents(old, d, p, f)
<1>3. Device_Ports \in [Ports -> EntryType] /\ old \in EntryType
  BY DEF Inv, TypeOK
<1>4. old.device_id \in {0, d} /\ d # 0
  BY <1>1, <1>2, Zenon DEF Fit, IsLeast, EntriesOf
<1>5. /\ Len(c) \in {3, 6} /\ c \in Seq(EntryType)
      /\ \A k \in 1..Len(c) : Holds(c[k], old, d, p)
      /\ c[Len(c)] = Made(old, d, p, f)
      /\ c[Len(c)].count # 0
  <2>1. CASE old.device_id = 0
    <3>1. old = EmptyEntry
      BY <2>1 DEF Inv, EntriesWhole
    <3>2. c = NewContents(EmptyEntry, NewEntry(d, p, f)) /\ Made(old, d, p, f) = NewEntry(d, p, f)
      BY <2>1, <3>1 DEF Contents, Made
    <3>3. NewEntry(d, p, f).count # 0
      BY DEF NewEntry
    <3> HIDE DEF d, p, f, c, old
    <3>4. /\ Len(c) = 6 /\ c \in Seq(EntryType)
          /\ \A k \in 1..6 : Holds(c[k], EmptyEntry, d, p)
          /\ c[6] = NewEntry(d, p, f)
      BY <1>1, <3>2, NewContentsAre DEF d, p, f
    <3> QED
      BY <3>1, <3>2, <3>3, <3>4
  <2>2. CASE old.device_id # 0
    <3>1. old.device_id = d /\ old.count # 0
      BY <1>0, <1>4, <2>2 DEF Inv, EntriesWhole
    <3>2. old.count \in 1..(MAX_PORTS_PER_DEVICE - 1)
      BY <1>2, <1>3, <3>1 DEF EntryType, MAX_PORTS_PER_DEVICE
    <3>3. c = GrownContents(old, GrownEntry(old, p, f), f) /\ Made(old, d, p, f) = GrownEntry(old, p, f)
      BY <2>2 DEF Contents, Made
    <3> HIDE DEF d, p, f, c, old
    <3>4. /\ Len(c) = 3 /\ c \in Seq(EntryType)
          /\ \A k \in 1..3 : Holds(c[k], old, old.device_id, p)
          /\ c[3] = GrownEntry(old, p, f)
          /\ c[3].count # 0
      BY <1>1, <1>3, <2>2, <3>2, <3>3, GrownContentsAre DEF p, f
    <3> QED
      BY <3>1, <3>3, <3>4
  <2> QED
    BY <2>1, <2>2
<1> HIDE DEF c, d, p, f
<1>6. Head(c) = c[1]
  BY <1>5
<1>7. Device_Ports' = [Device_Ports EXCEPT ![i] = c[1]] /\ stores' = Tail(c) /\ lcl_index' = i
  BY <1>2, <1>6 DEF c
<1> QED
  BY <1>1, <1>2, <1>3, <1>4, <1>5, <1>7, Zenon DEF d, p, f

(* What is left of a sequence of contents, and the store that is next.     *)
LEMMA RestIs ==
  ASSUME NEW S, NEW c \in Seq(S), Len(c) > 0
  PROVE  /\ Head(c) = c[1] /\ c[1] \in S
         /\ Tail(c) \in Seq(S) /\ Len(Tail(c)) = Len(c) - 1 /\ Len(c) \in Nat
         /\ \A k \in 1..Len(Tail(c)) : Tail(c)[k] = c[k + 1] /\ k + 1 \in 1..Len(c)
         /\ Tail(c) = <<>> <=> Len(c) = 1
         /\ Len(c) > 1 => Tail(c)[Len(Tail(c))] = c[Len(c)]
<1>1. Head(c) = c[1] /\ c[1] \in S /\ Tail(c) \in Seq(S) /\ Len(Tail(c)) = Len(c) - 1 /\ Len(c) \in Nat
  OBVIOUS
<1>2. \A k \in 1..Len(Tail(c)) : Tail(c)[k] = c[k + 1] /\ k + 1 \in 1..Len(c)
  BY <1>1
<1>3. Tail(c) = <<>> <=> Len(c) = 1
  <2> DEFINE t == Tail(c)
  <2>1. t \in Seq(S) /\ (Len(t) = 0 <=> Len(c) = 1)
    BY <1>1
  <2> HIDE DEF t
  <2>2. t = <<>> <=> Len(t) = 0
    BY <2>1
  <2> QED
    BY <2>1, <2>2 DEF t
<1>4. ASSUME Len(c) > 1 PROVE Tail(c)[Len(Tail(c))] = c[Len(c)]
  <2>1. Len(Tail(c)) \in 1..Len(Tail(c)) /\ Len(Tail(c)) + 1 = Len(c)
    BY <1>1, <1>4
  <2> DEFINE n == Len(Tail(c))
  <2> HIDE DEF n
  <2>2. Tail(c)[n] = c[n + 1]
    BY <1>2, <2>1 DEF n
  <2> QED
    BY <2>1, <2>2 DEF n
<1> QED
  BY <1>1, <1>2, <1>3, <1>4

(* StoreField writes what is next to the entry of the head's device.       *)
LEMMA StoreFieldIs ==
  ASSUME Inv, StoreField
  PROVE  /\ lcl_index \in Ports /\ Len(stores) \in Nat \ {0}
         /\ stores[1] \in EntryType /\ stores[1].device_id = head.device
         /\ Shown(stores[1])
         /\ Device_Ports[lcl_index].device_id = head.device
         /\ head.device \in Devices /\ head.device # 0 /\ head.port \in Ports
         /\ Device_Ports' = [Device_Ports EXCEPT ![lcl_index] = stores[1]]
         /\ stores' = Tail(stores) /\ stores' \in Seq(EntryType)
<1>1. stage = "storing" /\ stores # <<>> /\ stores \in Seq(EntryType) /\ lcl_index \in Ports
  BY DEF StoreField, Inv, StoresGood, TypeOK
<1>2. Len(stores) \in Nat \ {0} /\ Len(stores) > 0
  BY <1>1
<1>3. Head(stores) = stores[1] /\ stores[1] \in EntryType /\ Tail(stores) \in Seq(EntryType)
  BY <1>1, <1>2, RestIs
<1>4. stores[1].device_id = head.device /\ Shown(stores[1]) /\ Device_Ports[lcl_index].device_id = head.device
  BY <1>1, <1>2 DEF Inv, StoresGood
<1>5. head.device \in Devices /\ head.device # 0 /\ head.port \in Ports
  BY <1>1, HeadIs, PortsAssumption DEF Inv, HeadInRange, Stages
<1> QED
  BY <1>1, <1>2, <1>3, <1>4, <1>5 DEF StoreField

(* Every step keeps the types.                                             *)
LEMMA NextTypeOK == Inv /\ [Next]_vars => TypeOK'
<1> SUFFICES ASSUME Inv, [Next]_vars PROVE TypeOK'
  OBVIOUS
<1> USE PortsAssumption
<1>0. TypeOK /\ HeadInRange
  BY DEF Inv
<1>1. ASSUME NEW descriptors \in Lists, Configure_NTDS_Device(descriptors) PROVE TypeOK'
  <2>1. Len(list') \in Nat
    BY <1>1 DEF Configure_NTDS_Device
  <2>2. at' \in 1..(Len(list') + 1)
    BY <1>1, <2>1 DEF Configure_NTDS_Device
  <2>3. calls' \in 0..MaxCalls
    BY <1>0, <1>1 DEF Configure_NTDS_Device, TypeOK
  <2> QED
    BY <1>0, <1>1, <2>2, <2>3 DEF Configure_NTDS_Device, TypeOK, tables, queues, filling
<1>2. ASSUME AssignPort PROVE TypeOK'
  <2>1. /\ Device_Ports' \in [Ports -> EntryType]
        /\ lcl_index' \in Ports /\ stores' \in Seq(EntryType)
    <3>1. PICK i \in Ports, c \in Seq(EntryType) :
            /\ Len(c) \in {3, 6}
            /\ Device_Ports' = [Device_Ports EXCEPT ![i] = c[1]]
            /\ stores' = Tail(c) /\ lcl_index' = i
      BY <1>2, AssignPortIs
    <3>2. c[1] \in EntryType /\ Tail(c) \in Seq(EntryType)
      BY <3>1, RestIs
    <3>3. Device_Ports \in [Ports -> EntryType]
      BY <1>0 DEF TypeOK
    <3> QED
      BY <3>1, <3>2, <3>3
  <2>2. given' \in [Devices -> Seq([port : Ports, flag : Flags])]
    <3>1. /\ head.port \in Ports
          /\ head.device \in Devices
          /\ list[at].flag \in Flags
      BY <1>2, AssignPortIs
    <3>2. given \in [Devices -> Seq([port : Ports, flag : Flags])]
      BY <1>0 DEF TypeOK, Flags
    <3> DEFINE r == [port |-> head.port, flag |-> list[at].flag]
               T == [port : Ports, flag : Flags]
    <3>3. r \in T /\ given \in [Devices -> Seq(T)]
      BY <3>1, <3>2
    <3>4. given' = [given EXCEPT ![head.device] = Append(given[head.device], r)]
      BY <1>2 DEF AssignPort
    <3> HIDE DEF r, T
    <3>5. given[head.device] \in Seq(T)
      BY <3>1, <3>3
    <3>6. Append(given[head.device], r) \in Seq(T)
      BY <3>3, <3>5
    <3>7. given' \in [Devices -> Seq(T)]
      BY <3>3, <3>4, <3>6
    <3> QED
      BY <3>7 DEF T
  <2> QED
    BY <1>0, <1>2, <2>1, <2>2 DEF AssignPort, TypeOK, queues, Flags
<1>9. ASSUME StoreField PROVE TypeOK'
  <2>1. /\ Device_Ports' \in [Ports -> EntryType] /\ stores' \in Seq(EntryType)
    BY <1>0, <1>9, StoreFieldIs DEF TypeOK
  <2>2. stage' \in {"storing", "assigned"}
    BY <1>9 DEF StoreField
  <2> QED
    BY <1>0, <1>9, <2>1, <2>2 DEF StoreField, TypeOK, queues
<1>3. ASSUME RefusePort \/ EndOfList PROVE TypeOK'
  BY <1>0, <1>3 DEF RefusePort, EndOfList, TypeOK, tables, queues, filling
<1>4. ASSUME SkipPort PROVE TypeOK'
  <2>1. stage # "idle" /\ at <= Len(list)
    BY <1>4 DEF SkipPort
  <2>2. at' \in 1..(Len(list') + 1)
    BY <1>0, <1>4, <2>1, HeadIs DEF SkipPort
  <2> QED
    BY <1>0, <1>4, <2>2 DEF SkipPort, TypeOK, tables, queues, filling
<1>5. ASSUME MarkConfigured PROVE TypeOK'
  <2>1. head.port \in Ports /\ head.device \in Devices
    BY <1>0, <1>5, HeadIs DEF MarkConfigured, HeadInRange, Stages
  <2>2. Comm_Configured' \in [Ports -> BOOLEAN]
    BY <1>0, <1>5, Zenon DEF MarkConfigured, TypeOK
  <2>3. Port_Device' \in [Ports -> Devices \cup {0}]
    BY <1>0, <1>5, <2>1 DEF MarkConfigured, TypeOK
  <2>4. NTDS_Channel_Status' \in [Ports -> Int] /\ configuredCount' \in Nat
    <3>1. NTDS_Channel_Status \in [Ports -> Int] /\ configuredCount \in Nat
      BY <1>0 DEF TypeOK
    <3>2. /\ NTDS_Channel_Status' = [NTDS_Channel_Status EXCEPT ![head.port] = CHANNEL_RESET]
          /\ configuredCount' = configuredCount + 1
      BY <1>5 DEF MarkConfigured
    <3>3. CHANNEL_RESET \in Int /\ configuredCount + 1 \in Nat
      BY <3>1 DEF CHANNEL_RESET
    <3> QED
      BY <3>1, <3>2, <3>3, Zenon
  <2>5. device_config' \in [Ports -> Descriptors \cup {EmptyConfig}]
    <3>1. list \in Seq(Descriptors) /\ at \in 1..Len(list)
      BY <1>0, <1>5, HeadIs DEF MarkConfigured, HeadInRange, Stages
    <3>2. Saved \in Descriptors
      BY <3>1 DEF Saved
    <3>3. /\ device_config \in [Ports -> Descriptors \cup {EmptyConfig}]
          /\ device_config' = [device_config EXCEPT ![head.port] = Saved]
      BY <1>0, <1>5 DEF TypeOK, MarkConfigured
    <3> QED
      BY <3>2, <3>3, Zenon
  <2> QED
    BY <1>0, <1>5, <2>2, <2>3, <2>4, <2>5 DEF MarkConfigured, TypeOK, queues, filling
<1>6. ASSUME CreatePublishQueue \/ CreateSubscribeQueue PROVE TypeOK'
  <2>1. stage # "idle" /\ at <= Len(list)
    BY <1>0, <1>6 DEF CreatePublishQueue, CreateSubscribeQueue, MakeSubscribeQueue, HeadInRange, Stages
  <2>2. at' \in 1..(Len(list') + 1)
    <3>1. at' \in {at, at + 1} /\ list' = list
      BY <1>6 DEF CreatePublishQueue, CreateSubscribeQueue, MakeSubscribeQueue
    <3> QED
      BY <1>0, <2>1, <3>1, HeadIs
  <2>3. /\ publishQueue' \in [Ports -> BOOLEAN]
        /\ subscribeQueue' \in [Ports -> BOOLEAN]
    BY <1>0, <1>6, Zenon DEF CreatePublishQueue, CreateSubscribeQueue, MakeSubscribeQueue, TypeOK
  <2>4. stage' \in {"list", "published"}
    BY <1>6 DEF CreatePublishQueue, CreateSubscribeQueue, MakeSubscribeQueue
  <2> QED
    BY <1>0, <1>6, <2>2, <2>3, <2>4
    DEF CreatePublishQueue, CreateSubscribeQueue, MakeSubscribeQueue, TypeOK, filling
<1>7. ASSUME NEW p \in Ports, NEW s \in Readiness, Report_Port_Status(p, s) PROVE TypeOK'
  <2>1. NTDS_Channel_Status' \in [Ports -> Int]
    BY <1>0, <1>7 DEF Report_Port_Status, TypeOK
  <2> QED
    BY <1>0, <1>7, <2>1 DEF Report_Port_Status, TypeOK, queues, filling
<1>8. CASE UNCHANGED vars
  BY <1>0, <1>8 DEF vars, tables, queues, filling, TypeOK
<1> QED
  BY <1>1, <1>2, <1>3, <1>4, <1>5, <1>6, <1>7, <1>8, <1>9, Zenon DEF Next, ConfigureStep

(* The place in the list and the head's port, and the queues.              *)
LEMMA NextHeadInRange == Inv /\ [Next]_vars => HeadInRange'
<1> SUFFICES ASSUME Inv, [Next]_vars PROVE HeadInRange'
  OBVIOUS
<1> USE DEF HeadInRange, head, Stages
<1>0. HeadInRange
  BY DEF Inv
<1>1. ASSUME NEW descriptors \in Lists, Configure_NTDS_Device(descriptors) PROVE HeadInRange'
  BY <1>1 DEF Configure_NTDS_Device
<1>2. ASSUME AssignPort PROVE HeadInRange'
  <2>1. head.port \in Ports
    BY <1>2, AssignPortIs
  <2> QED
    BY <1>0, <1>2, <2>1 DEF AssignPort
<1>3. CASE StoreField \/ RefusePort \/ SkipPort \/ MarkConfigured \/ EndOfList
  BY <1>0, <1>3 DEF StoreField, RefusePort, SkipPort, MarkConfigured, EndOfList
<1>4. CASE CreatePublishQueue \/ CreateSubscribeQueue
  BY <1>0, <1>4 DEF CreatePublishQueue, CreateSubscribeQueue, MakeSubscribeQueue
<1>5. ASSUME NEW p \in Ports, NEW s \in Readiness, Report_Port_Status(p, s) PROVE HeadInRange'
  BY <1>0, <1>5 DEF Report_Port_Status
<1>6. CASE UNCHANGED vars
  BY <1>0, <1>6 DEF vars
<1> QED
  BY <1>1, <1>2, <1>3, <1>4, <1>5, <1>6, Zenon DEF Next, ConfigureStep

LEMMA NextQueuesPaired == Inv /\ [Next]_vars => QueuesPaired'
<1> SUFFICES ASSUME Inv, [Next]_vars PROVE QueuesPaired'
  OBVIOUS
<1> USE DEF QueuesPaired, head
<1>0. QueuesPaired
  BY DEF Inv
<1>1. CASE \E descriptors \in Lists : Configure_NTDS_Device(descriptors)
  BY <1>0, <1>1 DEF Configure_NTDS_Device, tables, queues
<1>2. CASE AssignPort \/ StoreField \/ RefusePort \/ SkipPort \/ EndOfList
  BY <1>0, <1>2 DEF AssignPort, StoreField, RefusePort, SkipPort, EndOfList, tables, queues
<1>3. CASE MarkConfigured
  <2>1. head.port \in Ports
    BY <1>3 DEF MarkConfigured, Inv, HeadInRange, Stages
  <2> QED
    BY <1>0, <1>3, <2>1 DEF MarkConfigured, queues, Inv, TypeOK
<1>4. CASE CreatePublishQueue
  <2>1. head.port \in Ports
    BY <1>4 DEF CreatePublishQueue, Inv, HeadInRange, Stages
  <2> QED
    BY <1>0, <1>4, <2>1 DEF CreatePublishQueue, Inv, TypeOK
<1>5. CASE CreateSubscribeQueue
  <2>1. head.port \in Ports
    BY <1>5 DEF CreateSubscribeQueue, MakeSubscribeQueue, Inv, HeadInRange, Stages
  <2> QED
    BY <1>0, <1>5, <2>1 DEF CreateSubscribeQueue, MakeSubscribeQueue, Inv, TypeOK
<1>6. CASE \E p \in Ports, s \in Readiness : Report_Port_Status(p, s)
  BY <1>0, <1>6 DEF Report_Port_Status, queues
<1>7. CASE UNCHANGED vars
  BY <1>0, <1>7 DEF vars, tables, queues
<1> QED
  BY <1>1, <1>2, <1>3, <1>4, <1>5, <1>6, <1>7, Zenon DEF Next, ConfigureStep
----------------------------------------------------------------------------
(* Only AssignPort and StoreField write the table; no other step begins or *)
(* ends the writing of an entry.                                           *)
LEMMA OthersKeepTable ==
  ASSUME [Next]_vars, ~AssignPort, ~StoreField
  PROVE  /\ Device_Ports' = Device_Ports /\ lcl_index' = lcl_index /\ stores' = stores
         /\ stage = "storing" => stage' = "storing" /\ list' = list
         /\ stage' = "storing" => stage = "storing"
BY Zenon DEF Next, ConfigureStep, vars, tables, filling, Configure_NTDS_Device, RefusePort, SkipPort,
  MarkConfigured, CreatePublishQueue, CreateSubscribeQueue, MakeSubscribeQueue, EndOfList,
  Report_Port_Status

(* AssignPort puts the device in the first place it may be in.             *)
LEMMA NextTablePacked == Inv /\ [Next]_vars => TablePacked'
<1> SUFFICES ASSUME Inv, [Next]_vars PROVE TablePacked'
  OBVIOUS
<1> USE PortsAssumption
<1>0. TablePacked /\ Device_Ports \in [Ports -> EntryType]
  BY DEF Inv, TypeOK, EntryType
<1>1. CASE AssignPort
  <2>0. PICK i \in Ports, c \in Seq(EntryType) :
          /\ Fit(i, head.device) /\ Len(c) \in {3, 6}
          /\ \A k \in 1..Len(c) : Holds(c[k], Device_Ports[i], head.device, head.port)
          /\ Device_Ports' = [Device_Ports EXCEPT ![i] = c[1]]
    BY <1>1, AssignPortIs
  <2> DEFINE new == c[1]
  <2>1. new \in EntryType /\ new.device_id = head.device /\ Fit(i, head.device)
    BY <2>0 DEF Holds
  <2>2. head.device \in Devices /\ head.device # 0
    BY <1>1, AssignPortIs
  <2>3. \A k \in Ports : Device_Ports'[k] = IF k = i THEN new ELSE Device_Ports[k]
    BY <1>0, <2>0
  <2> HIDE DEF new
  <2>4. /\ Device_Ports[i].device_id \in {0, head.device}
        /\ \A k \in Ports : Device_Ports[k].device_id \in {0, head.device} => i <= k
    BY <2>1 DEF Fit, IsLeast, EntriesOf
  <2> SUFFICES ASSUME NEW a \in Ports, NEW b \in Ports, a < b, Device_Ports'[b].device_id # 0
               PROVE  /\ Device_Ports'[a].device_id # 0
                      /\ Device_Ports'[a].device_id # Device_Ports'[b].device_id
    BY DEF TablePacked
  <2>5. a \in Int /\ b \in Int /\ i \in Int
    BY DEF Ports
  <2>6. CASE b = i
    <3>1. ~(i <= a)
      BY <2>5, <2>6
    <3> QED
      BY <2>1, <2>3, <2>4, <2>5, <2>6, <3>1
  <2>7. CASE a = i
    <3>1. Device_Ports[b].device_id # 0
      BY <2>3, <2>5, <2>7
    <3>2. Device_Ports[i].device_id = head.device /\ Device_Ports[b].device_id # head.device
      BY <1>0, <2>4, <2>7, <3>1 DEF TablePacked
    <3> QED
      BY <2>1, <2>2, <2>3, <2>5, <2>7, <3>2
  <2>8. CASE a # i /\ b # i
    BY <1>0, <2>3, <2>8 DEF TablePacked
  <2> QED
    BY <2>6, <2>7, <2>8
<1>2. CASE StoreField
  <2>1. \A k \in Ports : Device_Ports'[k].device_id = Device_Ports[k].device_id
    BY <1>0, <1>2, StoreFieldIs
  <2> QED
    BY <1>0, <2>1 DEF TablePacked
<1>3. CASE ~AssignPort /\ ~StoreField
  BY <1>0, <1>3, OthersKeepTable DEF TablePacked
<1> QED
  BY <1>1, <1>2, <1>3

(* What makes a port usable is never undone.                               *)
LEMMA RoutesStay ==
  ASSUME Inv, [Next]_vars, NEW p \in Ports,
         Comm_Configured[p] /\ publishQueue[p] /\ subscribeQueue[p]
  PROVE  Comm_Configured'[p] /\ publishQueue'[p] /\ subscribeQueue'[p]
<1>1. CASE MarkConfigured
  BY <1>1 DEF MarkConfigured, queues, Inv, TypeOK
<1>2. CASE CreatePublishQueue
  BY <1>2 DEF CreatePublishQueue, Inv, TypeOK
<1>3. CASE CreateSubscribeQueue
  BY <1>3 DEF CreateSubscribeQueue, MakeSubscribeQueue, Inv, TypeOK
<1>4. CASE UNCHANGED <<Comm_Configured, queues>>
  BY <1>4 DEF queues
<1>5. MarkConfigured \/ CreatePublishQueue \/ CreateSubscribeQueue
        \/ UNCHANGED <<Comm_Configured, queues>>
  BY Zenon DEF Next, ConfigureStep, vars, tables, queues, Configure_NTDS_Device, AssignPort,
    StoreField, RefusePort, SkipPort, EndOfList, Report_Port_Status
<1> QED
  BY <1>1, <1>2, <1>3, <1>4, <1>5

(* A port stays the one that is being configured until both its queues     *)
(* are made.                                                               *)
LEMMA ConfiguringUntilDone ==
  ASSUME Inv, [Next]_vars, NEW p \in Ports, Configuring(p)
  PROVE  \/ Configuring(p)'
         \/ Comm_Configured'[p] /\ publishQueue'[p] /\ subscribeQueue'[p]
<1> USE DEF Configuring, head
<1>0. stage \in Stages /\ head.port = p
  BY DEF Stages
<1>1. CASE MarkConfigured
  BY <1>0, <1>1 DEF MarkConfigured
<1>2. CASE CreatePublishQueue
  <2>1. CASE publishQueue[p]
    <3>1. Comm_Configured[p] /\ subscribeQueue[p]
      BY <1>0, <1>2, <2>1 DEF CreatePublishQueue, Inv, QueuesPaired
    <3> QED
      BY <1>0, <1>2, <2>1, <3>1 DEF CreatePublishQueue, Inv, TypeOK
  <2>2. CASE ~publishQueue[p]
    BY <1>0, <1>2, <2>2 DEF CreatePublishQueue
  <2> QED
    BY <2>1, <2>2
<1>3. CASE CreateSubscribeQueue
  <2>1. Comm_Configured[p] /\ publishQueue[p]
    BY <1>0, <1>3 DEF CreateSubscribeQueue, MakeSubscribeQueue, Inv, QueuesPaired
  <2> QED
    BY <1>0, <1>3, <2>1 DEF CreateSubscribeQueue, MakeSubscribeQueue, Inv, TypeOK
<1>4. CASE stage' \in {"storing", "assigned", stage} /\ list' = list
  BY <1>0, <1>4 DEF Stages
<1>5. MarkConfigured \/ CreatePublishQueue \/ CreateSubscribeQueue
        \/ (stage' \in {"storing", "assigned", stage} /\ list' = list)
  BY <1>0 DEF Stages, Next, ConfigureStep, vars, Configure_NTDS_Device, AssignPort,
    StoreField, RefusePort, SkipPort, EndOfList, Report_Port_Status
<1> QED
  BY <1>1, <1>2, <1>3, <1>4, <1>5

(* What may be shown in an entry may be shown ever after.                  *)
LEMMA ShownStays ==
  ASSUME Inv, [Next]_vars, NEW e, Shown(e)
  PROVE  \A p \in PortsIn(e) : (Usable(p) \/ Configuring(p))' \/ (p = 0 /\ e.count = 0)
<1> SUFFICES ASSUME NEW p \in PortsIn(e), ~(p = 0 /\ e.count = 0)
             PROVE  (Usable(p) \/ Configuring(p))'
  OBVIOUS
<1>1. p \in Ports /\ (Usable(p) \/ Configuring(p))
  BY DEF Shown, PortsIn
<1> QED
  BY <1>1, RoutesStay, ConfiguringUntilDone DEF Usable

(* Whatever the entry of an assigned port will hold may be shown.          *)
LEMMA AssignedShown ==
  ASSUME Inv, AssignPort, [Next]_vars, NEW i \in Ports, NEW c,
         Device_Ports[i].device_id = 0 \/ Device_Ports[i].count # 0,
         Holds(c, Device_Ports[i], head.device, head.port)
  PROVE  \A p \in PortsIn(c) : (Usable(p) \/ Configuring(p))' \/ (p = 0 /\ c.count = 0)
<1> SUFFICES ASSUME NEW p \in PortsIn(c), ~(p = 0 /\ c.count = 0)
             PROVE  (Usable(p) \/ Configuring(p))'
  OBVIOUS
<1>1. p \in Ports
  BY DEF PortsIn
<1>2. \/ p = head.port
      \/ Device_Ports[i].device_id # 0 /\ p \in PortsIn(Device_Ports[i])
  BY DEF Holds
<1>3. CASE p = head.port
  BY <1>3 DEF AssignPort, Configuring, head
<1>4. CASE Device_Ports[i].device_id # 0 /\ p \in PortsIn(Device_Ports[i])
  <2>1. Shown(Device_Ports[i]) /\ Device_Ports[i].count # 0
    BY <1>4 DEF Inv, RoutesComplete, Shown, Usable
  <2> QED
    BY <1>4, <2>1, ShownStays
<1> QED
  BY <1>2, <1>3, <1>4

(* In a table that is written, what an entry shows and what it is.         *)
LEMMA NextRoutesComplete == Inv /\ [Next]_vars => RoutesComplete'
<1> SUFFICES ASSUME Inv, [Next]_vars PROVE RoutesComplete'
  OBVIOUS
<1>0. Device_Ports \in [Ports -> EntryType]
  BY DEF Inv, TypeOK
<1>1. ASSUME NEW k \in Ports, Device_Ports'[k].device_id # 0
      PROVE  \A p \in PortsIn(Device_Ports'[k]) :
               (Usable(p) \/ Configuring(p))' \/ (p = 0 /\ Device_Ports'[k].count = 0)
  <2>1. ASSUME Device_Ports'[k] = Device_Ports[k]
        PROVE  \A p \in PortsIn(Device_Ports'[k]) :
                 (Usable(p) \/ Configuring(p))' \/ (p = 0 /\ Device_Ports'[k].count = 0)
    <3>1. Shown(Device_Ports[k])
      BY <1>1, <2>1 DEF Inv, RoutesComplete, Shown, Usable
    <3> QED
      BY <2>1, <3>1, ShownStays
  <2>2. CASE AssignPort
    <3>1. PICK i \in Ports, c \in Seq(EntryType) :
            /\ Len(c) \in {3, 6} /\ Device_Ports[i].device_id \in {0, head.device}
            /\ \A n \in 1..Len(c) : Holds(c[n], Device_Ports[i], head.device, head.port)
            /\ Device_Ports' = [Device_Ports EXCEPT ![i] = c[1]]
      BY <2>2, AssignPortIs
    <3>2. Holds(c[1], Device_Ports[i], head.device, head.port)
      BY <3>1
    <3>3. Device_Ports[i].device_id = 0 \/ Device_Ports[i].count # 0
      BY <2>2 DEF AssignPort, Inv, EntriesWhole
    <3>4. CASE k = i
      <4>1. Device_Ports'[k] = c[1]
        BY <1>0, <3>1, <3>4
      <4> QED
        BY <2>2, <3>2, <3>3, <4>1, AssignedShown
    <3>5. CASE k # i
      BY <1>0, <2>1, <3>1, <3>5
    <3> QED
      BY <3>4, <3>5
  <2>3. CASE StoreField
    <3>1. Shown(stores[1]) /\ Device_Ports' = [Device_Ports EXCEPT ![lcl_index] = stores[1]]
      BY <2>3, StoreFieldIs
    <3>2. CASE k = lcl_index
      <4>1. Device_Ports'[k] = stores[1]
        BY <1>0, <3>1, <3>2
      <4> QED
        BY <3>1, <4>1, ShownStays
    <3>3. CASE k # lcl_index
      BY <1>0, <2>1, <3>1, <3>3
    <3> QED
      BY <3>2, <3>3
  <2>4. CASE ~AssignPort /\ ~StoreField
    BY <2>1, <2>4, OthersKeepTable
  <2> QED
    BY <2>2, <2>3, <2>4
<1> QED
  BY <1>1 DEF RoutesComplete, Usable, PortsIn

LEMMA NextStoresGood == Inv /\ [Next]_vars => StoresGood'
<1> SUFFICES ASSUME Inv, [Next]_vars, stage' = "storing"
             PROVE  /\ stores' # <<>>
                    /\ stores'[Len(stores')].count # 0
                    /\ Device_Ports'[lcl_index'].device_id = head'.device
                    /\ \A k \in 1..Len(stores') :
                         /\ stores'[k].device_id = head'.device
                         /\ \A p \in PortsIn(stores'[k]) :
                              (Usable(p) \/ Configuring(p))' \/ (p = 0 /\ stores'[k].count = 0)
  BY DEF StoresGood, Shown, PortsIn
<1>0. Device_Ports \in [Ports -> EntryType]
  BY DEF Inv, TypeOK
<1>1. CASE AssignPort
  <2>1. PICK i \in Ports, c \in Seq(EntryType) :
          /\ Len(c) \in {3, 6}
          /\ \A n \in 1..Len(c) : Holds(c[n], Device_Ports[i], head.device, head.port)
          /\ c[Len(c)].count # 0
          /\ Device_Ports' = [Device_Ports EXCEPT ![i] = c[1]]
          /\ stores' = Tail(c) /\ lcl_index' = i
    BY <1>1, AssignPortIs
  <2>2. Device_Ports[i].device_id = 0 \/ Device_Ports[i].count # 0
    BY <1>1 DEF AssignPort, Inv, EntriesWhole
  <2>3. head' = head
    BY <1>1 DEF AssignPort, head
  <2>4. /\ Len(stores') = Len(c) - 1 /\ stores' # <<>>
        /\ \A k \in 1..Len(stores') : stores'[k] = c[k + 1] /\ k + 1 \in 1..Len(c)
        /\ stores'[Len(stores')] = c[Len(c)]
    BY <2>1, RestIs
  <2>5. \A k \in 1..Len(stores') : Holds(stores'[k], Device_Ports[i], head.device, head.port)
    BY <2>1, <2>4
  <2>6. Device_Ports'[lcl_index'].device_id = head.device
    <3>1. Device_Ports'[i] = c[1] /\ Holds(c[1], Device_Ports[i], head.device, head.port)
      BY <1>0, <2>1
    <3> QED
      BY <2>1, <3>1 DEF Holds
  <2>7. \A k \in 1..Len(stores') : stores'[k].device_id = head.device
    BY <2>5 DEF Holds
  <2> QED
    BY <1>1, <2>1, <2>2, <2>3, <2>4, <2>5, <2>6, <2>7, AssignedShown
<1>2. CASE StoreField
  <2>1. /\ stage = "storing" /\ head' = head /\ Tail(stores) # <<>> /\ stores' = Tail(stores)
    BY <1>2 DEF StoreField, head
  <2>2. /\ stores \in Seq(EntryType) /\ Len(stores) > 0
        /\ stores[Len(stores)].count # 0
        /\ \A k \in 1..Len(stores) : stores[k].device_id = head.device /\ Shown(stores[k])
    BY <1>2, <2>1, StoreFieldIs DEF Inv, TypeOK, StoresGood
  <2>3. /\ \A k \in 1..Len(stores') : stores'[k] = stores[k + 1] /\ k + 1 \in 1..Len(stores)
        /\ stores'[Len(stores')] = stores[Len(stores)]
    BY <2>1, <2>2, RestIs
  <2>4. Device_Ports'[lcl_index'].device_id = head.device
    BY <1>0, <1>2, StoreFieldIs DEF StoreField
  <2>5. ASSUME NEW k \in 1..Len(stores')
        PROVE  /\ stores'[k].device_id = head'.device
               /\ \A p \in PortsIn(stores'[k]) :
                    (Usable(p) \/ Configuring(p))' \/ (p = 0 /\ stores'[k].count = 0)
    <3>1. Shown(stores'[k]) /\ stores'[k].device_id = head.device
      BY <2>2, <2>3
    <3> QED
      BY <2>1, <3>1, ShownStays
  <2> QED
    BY <2>1, <2>2, <2>3, <2>4, <2>5
<1>3. CASE ~AssignPort /\ ~StoreField
  <2>1. /\ stage = "storing" /\ Device_Ports' = Device_Ports /\ lcl_index' = lcl_index
        /\ stores' = stores /\ head' = head
    BY <1>3, OthersKeepTable DEF head
  <2>2. \A k \in 1..Len(stores) : stores[k].device_id = head.device /\ Shown(stores[k])
    BY <2>1 DEF Inv, StoresGood
  <2> QED
    BY <2>1, <2>2, ShownStays DEF Inv, StoresGood
<1> QED
  BY <1>1, <1>2, <1>3

LEMMA NextEntriesWhole == Inv /\ [Next]_vars => EntriesWhole'
<1> SUFFICES ASSUME Inv, [Next]_vars, NEW k \in Ports
             PROVE  /\ Device_Ports'[k].device_id = 0 => Device_Ports'[k] = EmptyEntry
                    /\ Device_Ports'[k].device_id # 0 /\ Device_Ports'[k].count = 0 =>
                         stage' = "storing" /\ k = lcl_index'
  BY DEF EntriesWhole, EmptyEntry
<1>0. /\ Device_Ports \in [Ports -> EntryType]
      /\ Device_Ports[k].device_id = 0 => Device_Ports[k] = EmptyEntry
      /\ Device_Ports[k].device_id # 0 /\ Device_Ports[k].count = 0 =>
           stage = "storing" /\ k = lcl_index
  BY DEF Inv, TypeOK, EntriesWhole
<1>1. CASE AssignPort
  <2>1. PICK i \in Ports, c \in Seq(EntryType) :
          /\ Len(c) \in {3, 6}
          /\ \A n \in 1..Len(c) : Holds(c[n], Device_Ports[i], head.device, head.port)
          /\ Device_Ports' = [Device_Ports EXCEPT ![i] = c[1]]
          /\ lcl_index' = i
    BY <1>1, AssignPortIs
  <2>2. c[1].device_id = head.device /\ head.device # 0
    <3>1. head.device # 0
      BY <1>1, AssignPortIs, PortsAssumption
    <3> QED
      BY <2>1, <3>1 DEF Holds
  <2>3. stage = "list" /\ stage' = "storing"
    BY <1>1 DEF AssignPort
  <2> QED
    BY <1>0, <2>1, <2>2, <2>3
<1>2. CASE StoreField
  <2>1. /\ stage = "storing" /\ lcl_index' = lcl_index /\ stores # <<>>
        /\ stage' = IF Tail(stores) = <<>> THEN "assigned" ELSE "storing"
        /\ stores \in Seq(EntryType) /\ Len(stores) > 0
        /\ stores[Len(stores)].count # 0
    BY <1>2, StoreFieldIs DEF StoreField, Inv, TypeOK, StoresGood
  <2>2. stage' = "storing" \/ stores[1].count # 0
    BY <2>1, RestIs
  <2>3. /\ Device_Ports' = [Device_Ports EXCEPT ![lcl_index] = stores[1]]
        /\ stores[1].device_id # 0
    BY <1>2, StoreFieldIs
  <2> QED
    BY <1>0, <2>1, <2>2, <2>3
<1>3. CASE ~AssignPort /\ ~StoreField
  BY <1>0, <1>3, OthersKeepTable
<1> QED
  BY <1>1, <1>2, <1>3
----------------------------------------------------------------------------
(* The invariant: a table without holes, no device twice, and no entry     *)
(* that names a port without its queues, but for the port that             *)
(* Configure_NTDS_Device is at.                                            *)
THEOREM Invariance == Spec => []Inv
<1>1. Inv /\ [Next]_vars => Inv'
  BY NextTypeOK, NextHeadInRange, NextTablePacked, NextQueuesPaired, NextRoutesComplete,
     NextStoresGood, NextEntriesWhole DEF Inv
<1> QED
  BY InitInv, <1>1, PTL DEF Spec

(* Type correctness.                                                       *)
THEOREM TypesKept == Spec => []TypeOK
BY Invariance, PTL DEF Inv

(* The device table has no hole and no device twice.                       *)
THEOREM Packed == Spec => []TablePacked
BY Invariance, PTL DEF Inv

(* A port that an entry names is configured and has both its queues.       *)
THEOREM Complete == Spec => []RoutesComplete
BY Invariance, PTL DEF Inv
----------------------------------------------------------------------------
(* Every step keeps the invariant of the tables.                           *)
LEMMA TablesKeepInv == Inv /\ [Next]_vars => Inv'
BY NextTypeOK, NextHeadInRange, NextTablePacked, NextQueuesPaired, NextRoutesComplete,
     NextStoresGood, NextEntriesWhole DEF Inv

(* get_port returns an entry of the device: no device is in two entries.   *)
LEMMA EntryIs ==
  ASSUME Inv, NEW d \in Devices, HasEntry(d)
  PROVE  \E i \in Ports : Device_Ports[i].device_id = d /\ Entry(d) = Device_Ports[i]
<1>1. d # 0
  BY PortsAssumption
<1>2. PICK i \in Ports : Device_Ports[i].device_id = d
  BY DEF HasEntry, EntriesOf
<1>3. \A j \in EntriesOf(d) : j = i
  BY <1>1, <1>2, PortsAssumption DEF Inv, TablePacked, EntriesOf, Ports
<1>4. IsLeast(i, EntriesOf(d))
  BY <1>2, <1>3 DEF IsLeast, EntriesOf, Ports
<1>5. IsLeast(CHOOSE k \in Ports : IsLeast(k, EntriesOf(d)), EntriesOf(d))
  BY <1>2, <1>4, Zenon
<1>6. (CHOOSE k \in Ports : IsLeast(k, EntriesOf(d))) = i
  BY <1>3, <1>5 DEF IsLeast
<1> QED
  BY <1>2, <1>6 DEF Entry

(* The entry of a device is the one that assign_port_to_device makes of    *)
(* the ports it was given, in their order: two at most; or it will be, if  *)
(* it is being written.                                                    *)
MadeOf(e, d, ports) ==
  \/ Len(ports) = 1 /\ e = NewEntry(d, ports[1].port, ports[1].flag)
  \/ Len(ports) = 2 /\ e = GrownEntry(NewEntry(d, ports[1].port, ports[1].flag),
                                      ports[2].port, ports[2].flag)
Final(i) == IF stage = "storing" /\ i = lcl_index THEN stores[Len(stores)] ELSE Device_Ports[i]
EntriesMade ==
  /\ \A i \in Ports : Device_Ports[i].device_id # 0 =>
       MadeOf(Final(i), Device_Ports[i].device_id, given[Device_Ports[i].device_id])
  /\ \A d \in Devices : given[d] # <<>> => HasEntry(d)

(* The port that a counted entry has first was given to its device, after  *)
(* every store.                                                            *)
FirstGiven(e) ==
  e.count # 0 =>
    \E k \in 1..Len(given[e.device_id]) : given[e.device_id][k].port = Current(e)
CurrentGiven ==
  /\ \A i \in Ports : Device_Ports[i].device_id # 0 => FirstGiven(Device_Ports[i])
  /\ stage = "storing" => \A k \in 1..Len(stores) : FirstGiven(stores[k])

(* What MarkConfigured saves for a port is what the port was last given as *)
(* to its device, and is about to be while Configure_NTDS_Device has only  *)
(* assigned it.                                                            *)
JustAssigned(p) == stage \in {"storing", "assigned"} /\ head.port = p
AssignedLast ==
  stage \in {"storing", "assigned"} =>
    LET ports == given[head.device]
    IN  ports # <<>> /\ ports[Len(ports)] = [port |-> head.port, flag |-> list[at].flag]
DeviceGiven == \A p \in Ports : Port_Device[p] # 0 => given[Port_Device[p]] # <<>>
ConfigSaved == \A p \in Ports : Comm_Configured[p] => device_config[p] \in Descriptors
FlagSaved ==
  \A p \in Ports : Port_Device[p] # 0 =>
    \A k \in 1..Len(given[Port_Device[p]]) :
      LastGiven(Port_Device[p], p, k) /\ ~JustAssigned(p) =>
        device_config[p].flag = given[Port_Device[p]][k].flag
SavedAsGiven == AssignedLast /\ DeviceGiven /\ ConfigSaved /\ FlagSaved

(* A status is one that the header names.                                  *)
StatusKnown == \A p \in Ports : NTDS_Channel_Status[p] \in CHANNEL_STATUS_UNKNOWN..CHANNEL_READY

GivenInv == Inv /\ EntriesMade /\ CurrentGiven /\ SavedAsGiven /\ StatusKnown

GivenType == [port : Ports, flag : Flags]

(* The ports that a device was given, in their order.                      *)
LEMMA GivenIs ==
  ASSUME TypeOK, NEW d \in Devices
  PROVE  /\ given[d] \in Seq(GivenType) /\ Len(given[d]) \in Nat
         /\ \A k \in 1..Len(given[d]) : given[d][k].port \in Ports /\ given[d][k].flag \in Flags
<1>1. given \in [Devices -> Seq(GivenType)]
  BY DEF TypeOK, GivenType, Flags
<1>2. given[d] \in Seq(GivenType)
  BY <1>1
<1>3. Len(given[d]) \in Nat /\ \A k \in 1..Len(given[d]) : given[d][k] \in GivenType
  BY <1>2
<1> QED
  BY <1>2, <1>3 DEF GivenType

(* The fields of an entry made of one port, and of two.                    *)
LEMMA NewEntryFields ==
  ASSUME NEW d, NEW p \in Ports, NEW f \in Flags
  PROVE  LET e == NewEntry(d, p, f)
         IN  /\ e.device_id = d /\ e.count = 1
             /\ e.primary_port = e.normal_port /\ e.secondary_port = e.alternate_port
             /\ f = NTDS_PRIMARY_PORT => e.primary_port = p /\ e.secondary_port = NO_SECONDARY_PORT
             /\ f = NTDS_SECONDARY_PORT => e.primary_port = NO_PRIMARY_PORT /\ e.secondary_port = p
BY DEF NewEntry, Flags, NTDS_PRIMARY_PORT, NTDS_SECONDARY_PORT

LEMMA GrownEntryFields ==
  ASSUME NEW d, NEW p \in Ports, NEW f \in Flags, NEW q \in Ports, NEW g \in Flags
  PROVE  LET e == GrownEntry(NewEntry(d, p, f), q, g)
         IN  /\ e.device_id = d /\ e.count = 2
             /\ f = NTDS_PRIMARY_PORT /\ g = NTDS_SECONDARY_PORT =>
                  /\ e.primary_port = p /\ e.normal_port = p
                  /\ e.secondary_port = q /\ e.alternate_port = q
             /\ f = NTDS_SECONDARY_PORT /\ g = NTDS_PRIMARY_PORT =>
                  /\ e.primary_port = q /\ e.normal_port = q
                  /\ e.secondary_port = p /\ e.alternate_port = p
             /\ f = g => e.primary_port \in {p, NO_PRIMARY_PORT}
             /\ e.primary_port = NO_PRIMARY_PORT => e.secondary_port \in {p, q}
             /\ e.primary_port # NO_PRIMARY_PORT => e.primary_port \in {p, q}
<1>0. p # NO_PRIMARY_PORT /\ q # NO_PRIMARY_PORT
  BY PortsAssumption DEF Ports, NO_PRIMARY_PORT
<1>1. CASE f = NTDS_PRIMARY_PORT /\ g = NTDS_SECONDARY_PORT
  BY <1>0, <1>1 DEF NewEntry, GrownEntry, Flags, NTDS_PRIMARY_PORT, NTDS_SECONDARY_PORT
<1>2. CASE f = NTDS_SECONDARY_PORT /\ g = NTDS_PRIMARY_PORT
  BY <1>0, <1>2 DEF NewEntry, GrownEntry, Flags, NTDS_PRIMARY_PORT, NTDS_SECONDARY_PORT
<1>3. CASE f = NTDS_SECONDARY_PORT /\ g = NTDS_SECONDARY_PORT
  BY <1>0, <1>3 DEF NewEntry, GrownEntry, Flags, NTDS_PRIMARY_PORT, NTDS_SECONDARY_PORT
<1>4. CASE f = NTDS_PRIMARY_PORT /\ g = NTDS_PRIMARY_PORT
  BY <1>0, <1>4 DEF NewEntry, GrownEntry, Flags, NTDS_PRIMARY_PORT, NTDS_SECONDARY_PORT
<1> QED
  BY <1>1, <1>2, <1>3, <1>4 DEF Flags

LEMMA MadeCount ==
  ASSUME TypeOK, NEW d \in Devices, NEW e, MadeOf(e, d, given[d])
  PROVE  e.count = Len(given[d]) /\ e.device_id = d /\ given[d] # <<>>
<1>1. CASE Len(given[d]) = 1
  BY <1>1, GivenIs, NewEntryFields DEF MadeOf
<1>2. CASE Len(given[d]) = 2
  BY <1>2, GivenIs, GrownEntryFields DEF MadeOf
<1> QED
  BY <1>1, <1>2 DEF MadeOf

(* Every step keeps the entries, what is saved, and the statuses.          *)
LEMMA NextEntriesMade ==
  ASSUME Inv, EntriesMade, [Next]_vars
  PROVE  EntriesMade'
<1> USE PortsAssumption
<1>0. Device_Ports \in [Ports -> EntryType] /\ TablePacked /\ TypeOK
  BY DEF Inv, TypeOK, EntryType
<1>1. CASE ~AssignPort /\ ~StoreField
  <2>1. Device_Ports' = Device_Ports /\ \A i \in Ports : Final(i)' = Final(i)
    BY <1>1, OthersKeepTable DEF Final
  <2>2. given' = given
    BY <1>1, Zenon DEF Next, ConfigureStep, vars, Configure_NTDS_Device, RefusePort, SkipPort,
      MarkConfigured, CreatePublishQueue, CreateSubscribeQueue, MakeSubscribeQueue, EndOfList, Report_Port_Status
  <2> QED
    BY <2>1, <2>2 DEF EntriesMade, HasEntry, EntriesOf
<1>3. CASE StoreField
  <2>1. /\ stage = "storing" /\ lcl_index' = lcl_index /\ stores # <<>> /\ given' = given
        /\ stage' = IF Tail(stores) = <<>> THEN "assigned" ELSE "storing"
        /\ stores \in Seq(EntryType) /\ Len(stores) > 0 /\ stores' = Tail(stores)
    BY <1>3, StoreFieldIs DEF StoreField, Inv, TypeOK, StoresGood
  <2>2. /\ Device_Ports' = [Device_Ports EXCEPT ![lcl_index] = stores[1]]
        /\ stores[1].device_id = Device_Ports[lcl_index].device_id
    BY <1>3, StoreFieldIs
  <2>3. \A i \in Ports : Device_Ports'[i].device_id = Device_Ports[i].device_id
    BY <1>0, <2>2
  <2>4. ASSUME NEW i \in Ports PROVE Final(i)' = Final(i)
    <3>1. CASE i = lcl_index /\ Tail(stores) = <<>>
      <4>1. Len(stores) = 1
        BY <2>1, <3>1, RestIs
      <4> QED
        BY <1>0, <2>1, <2>2, <3>1, <4>1 DEF Final
    <3>2. CASE i = lcl_index /\ Tail(stores) # <<>>
      <4>1. Len(stores) > 1 /\ Tail(stores)[Len(Tail(stores))] = stores[Len(stores)]
        BY <2>1, <3>2, RestIs
      <4> QED
        BY <2>1, <3>2, <4>1 DEF Final
    <3>3. CASE i # lcl_index
      BY <1>0, <2>1, <2>2, <3>3 DEF Final
    <3> QED
      BY <3>1, <3>2, <3>3
  <2> QED
    BY <2>1, <2>3, <2>4 DEF EntriesMade, HasEntry, EntriesOf
<1>2. CASE AssignPort
  <2> DEFINE d == head.device
             r == [port |-> head.port, flag |-> list[at].flag]
  <2>1. head.port \in Ports /\ d \in Devices /\ list[at].flag \in Flags /\ d # 0
    BY <1>2, AssignPortIs
  <2>2. PICK i \in Ports, c \in Seq(EntryType) :
          /\ Fit(i, d) /\ Device_Ports[i].count < MAX_PORTS_PER_DEVICE
          /\ Len(c) \in {3, 6}
          /\ \A n \in 1..Len(c) : Holds(c[n], Device_Ports[i], d, head.port)
          /\ c[Len(c)] = Made(Device_Ports[i], d, head.port, list[at].flag)
          /\ Device_Ports' = [Device_Ports EXCEPT ![i] = c[1]]
          /\ stores' = Tail(c) /\ lcl_index' = i
    BY <1>2, AssignPortIs
  <2> DEFINE old == Device_Ports[i]
             new == Final(i)'
  <2>3. /\ new = IF old.device_id = 0 THEN NewEntry(d, head.port, list[at].flag)
                                      ELSE GrownEntry(old, head.port, list[at].flag)
        /\ \A j \in Ports : j # i => Final(j)' = Device_Ports[j] /\ Device_Ports'[j] = Device_Ports[j]
        /\ \A j \in Ports : Final(j) = Device_Ports[j]
        /\ Device_Ports'[i].device_id = d
    <3>1. stage = "list" /\ stage' = "storing"
      BY <1>2 DEF AssignPort
    <3>2. stores'[Len(stores')] = c[Len(c)]
      <4>0. Len(c) = 3 \/ Len(c) = 6
        BY <2>2, Zenon
      <4>1. Len(c) > 1
        BY <4>0
      <4>2. Tail(c)[Len(Tail(c))] = c[Len(c)]
        BY <4>1, RestIs
      <4> QED
        BY <2>2, <4>2
    <3>3. Device_Ports'[i] = c[1] /\ c[1].device_id = d
      BY <1>0, <2>2 DEF Holds
    <3>4. new = c[Len(c)] /\ \A j \in Ports : Final(j) = Device_Ports[j]
      BY <2>2, <3>1, <3>2 DEF Final
    <3>5. \A j \in Ports : j # i => Final(j)' = Device_Ports[j] /\ Device_Ports'[j] = Device_Ports[j]
      BY <1>0, <2>2, <3>1 DEF Final
    <3> QED
      BY <2>2, <3>3, <3>4, <3>5 DEF Made
  <2>4. /\ old.device_id \in {0, d}
        /\ \A j \in Ports : Device_Ports[j].device_id \in {0, d} => i <= j
    BY <2>2 DEF Fit, IsLeast, EntriesOf
  <2>5. \A j \in Ports : j # i => Device_Ports[j].device_id # d
    <3> SUFFICES ASSUME NEW j \in Ports, j # i, Device_Ports[j].device_id = d PROVE FALSE
      OBVIOUS
    <3>1. i < j
      BY <2>4 DEF Ports
    <3> QED
      BY <1>0, <2>1, <2>4, <3>1 DEF TablePacked
  <2>6. /\ given \in [Devices -> Seq(GivenType)] /\ given[d] \in Seq(GivenType)
        /\ given' = [given EXCEPT ![d] = Append(given[d], r)]
        /\ r \in GivenType
    BY <1>0, <1>2, <2>1 DEF AssignPort, TypeOK, GivenType, Flags
  <2>7. /\ \A other \in Devices : other # d => given'[other] = given[other]
        /\ given'[d] = Append(given[d], r)
    BY <2>1, <2>6
  <2>8. MadeOf(new, d, given'[d])
    <3>1. CASE old.device_id = 0
      <4>1. ~HasEntry(d)
        BY <2>1, <2>5, <3>1 DEF HasEntry, EntriesOf
      <4>2. given[d] = <<>>
        BY <2>1, <4>1 DEF EntriesMade
      <4>3. given'[d] = <<r>>
        BY <2>7, <4>2
      <4> QED
        BY <2>3, <3>1, <4>3 DEF MadeOf
    <3>2. CASE old.device_id = d
      <4>1. MadeOf(old, d, given[d])
        BY <2>1, <2>3, <3>2 DEF EntriesMade
      <4>2. Len(given[d]) = 1
        <5>1. old.count = Len(given[d])
          BY <1>0, <2>1, <4>1, MadeCount
        <5>2. Len(given[d]) \in {1, 2}
          BY <4>1 DEF MadeOf
        <5>3. old.count < 2
          BY <2>2 DEF MAX_PORTS_PER_DEVICE
        <5> HIDE DEF old, d
        <5> QED
          BY <5>1, <5>2, <5>3
      <4>3. /\ old = NewEntry(d, given[d][1].port, given[d][1].flag)
            /\ new = GrownEntry(old, head.port, list[at].flag)
        BY <2>1, <2>3, <3>2, <4>1, <4>2 DEF MadeOf
      <4> HIDE DEF r, d
      <4>4. Len(given'[d]) = 2 /\ given'[d][1] = given[d][1] /\ given'[d][2] = r
        BY <2>6, <2>7, <4>2
      <4> QED
        BY <4>3, <4>4 DEF MadeOf, r
    <3> QED
      BY <2>4, <3>1, <3>2
  <2> HIDE DEF new
  <2>10. ASSUME NEW j \in Ports, Device_Ports'[j].device_id # 0
         PROVE MadeOf(Final(j)', Device_Ports'[j].device_id, given'[Device_Ports'[j].device_id])
    <3>1. CASE j = i
      BY <2>3, <2>8, <3>1 DEF new
    <3>2. CASE j # i
      <4>1. Device_Ports'[j] = Device_Ports[j] /\ Device_Ports[j].device_id # d /\ Device_Ports[j].device_id # 0
        BY <2>3, <2>5, <2>10, <3>2
      <4>2. Device_Ports[j].device_id \in Devices
        BY <1>0, <4>1 DEF EntryType
      <4>3. MadeOf(Device_Ports[j], Device_Ports[j].device_id, given[Device_Ports[j].device_id])
        BY <2>3, <4>1 DEF EntriesMade
      <4> HIDE DEF d
      <4> QED
        BY <2>3, <2>7, <3>2, <4>1, <4>2, <4>3
    <3> QED
      BY <3>1, <3>2
  <2>11. ASSUME NEW b \in Devices, given'[b] # <<>> PROVE \E j \in Ports : Device_Ports'[j].device_id = b
    <3>1. CASE b = d
      BY <2>3, <3>1
    <3>2. CASE b # d
      <4>1. PICK j \in Ports : Device_Ports[j].device_id = b
        BY <2>7, <2>11, <3>2 DEF EntriesMade, HasEntry, EntriesOf
      <4>2. j # i
        BY <2>4, <3>2, <4>1
      <4> QED
        BY <2>3, <4>1, <4>2
    <3> QED
      BY <3>1, <3>2
  <2> QED
    BY <2>10, <2>11 DEF EntriesMade, HasEntry, EntriesOf
<1> QED
  BY <1>1, <1>2, <1>3

LEMMA NextCurrentGiven ==
  ASSUME Inv, CurrentGiven, [Next]_vars
  PROVE  CurrentGiven'
<1>0. Device_Ports \in [Ports -> EntryType] /\ TypeOK
  BY DEF Inv, TypeOK
<1>1. CASE ~AssignPort /\ ~StoreField
  <2>1. given' = given
    BY <1>1, Zenon DEF Next, ConfigureStep, vars, Configure_NTDS_Device, RefusePort, SkipPort,
      MarkConfigured, CreatePublishQueue, CreateSubscribeQueue, MakeSubscribeQueue, EndOfList, Report_Port_Status
  <2>2. \A e : FirstGiven(e) => (e.count # 0 =>
          \E k \in 1..Len(given'[e.device_id]) : given'[e.device_id][k].port = Current(e))
    BY <2>1 DEF FirstGiven
  <2> QED
    BY <1>1, <2>2, OthersKeepTable DEF CurrentGiven, FirstGiven, Current
<1>2. CASE StoreField
  <2>1. /\ stage = "storing" /\ given' = given /\ stores' = Tail(stores)
        /\ stores \in Seq(EntryType) /\ Len(stores) > 0
        /\ Device_Ports' = [Device_Ports EXCEPT ![lcl_index] = stores[1]]
    <3>1. stage = "storing" /\ given' = given /\ stores' = Tail(stores) /\ stores \in Seq(EntryType)
      BY <1>0, <1>2 DEF StoreField, TypeOK
    <3>2. Len(stores) > 0 /\ Device_Ports' = [Device_Ports EXCEPT ![lcl_index] = stores[1]]
      BY <1>2, StoreFieldIs
    <3> QED
      BY <3>1, <3>2
  <2>2. \A k \in 1..Len(stores) : FirstGiven(stores[k])
    BY <2>1 DEF CurrentGiven
  <2>3. FirstGiven(stores[1]) /\ \A k \in 1..Len(stores') : FirstGiven(stores'[k])
    BY <2>1, <2>2, RestIs
  <2>4. \A i \in Ports : Device_Ports'[i].device_id # 0 => FirstGiven(Device_Ports'[i])
    <3> SUFFICES ASSUME NEW i \in Ports, Device_Ports'[i].device_id # 0 PROVE FirstGiven(Device_Ports'[i])
      OBVIOUS
    <3>1. CASE i = lcl_index
      <4>1. Device_Ports'[i] = stores[1]
        BY <1>0, <2>1, <3>1
      <4> QED
        BY <2>3, <4>1
    <3>2. CASE i # lcl_index
      <4>1. Device_Ports'[i] = Device_Ports[i]
        BY <1>0, <2>1, <3>2
      <4> QED
        BY <4>1 DEF CurrentGiven
    <3> QED
      BY <3>1, <3>2
  <2> QED
    BY <2>1, <2>3, <2>4 DEF CurrentGiven, FirstGiven, Current
<1>3. CASE AssignPort
  <2> DEFINE d == head.device
             r == [port |-> head.port, flag |-> list[at].flag]
             Stays(e) == e.count # 0 =>
               \E k \in 1..Len(given'[e.device_id]) : given'[e.device_id][k].port = Current(e)
  <2>1. head.port \in Ports /\ d \in Devices /\ list[at].flag \in Flags
    BY <1>3, AssignPortIs
  <2>2. PICK i \in Ports, c \in Seq(EntryType) :
          /\ Device_Ports[i].device_id \in {0, d}
          /\ Len(c) \in {3, 6}
          /\ \A n \in 1..Len(c) : Holds(c[n], Device_Ports[i], d, head.port)
          /\ Device_Ports' = [Device_Ports EXCEPT ![i] = c[1]]
          /\ stores' = Tail(c)
    BY <1>3, AssignPortIs
  <2>3. /\ given \in [Devices -> Seq(GivenType)] /\ r \in GivenType
        /\ given' = [given EXCEPT ![d] = Append(given[d], r)]
        /\ stage = "list"
    BY <1>0, <1>3, <2>1 DEF AssignPort, TypeOK, GivenType, Flags
  <2>4. /\ \A b \in Devices : b # d => given'[b] = given[b]
        /\ given'[d] = Append(given[d], r)
        /\ given[d] \in Seq(GivenType)
    BY <2>1, <2>3
  <2> HIDE DEF d
  <2>5. /\ Len(given'[d]) = Len(given[d]) + 1 /\ given'[d][Len(given'[d])] = r /\ Len(given[d]) \in Nat
        /\ \A k \in 1..Len(given[d]) : given'[d][k] = given[d][k]
    BY <2>3, <2>4
  <2>6. \A b \in Devices : \A k \in 1..Len(given[b]) : k \in 1..Len(given'[b]) /\ given'[b][k] = given[b][k]
    <3> SUFFICES ASSUME NEW b \in Devices, NEW k \in 1..Len(given[b])
                 PROVE  k \in 1..Len(given'[b]) /\ given'[b][k] = given[b][k]
      OBVIOUS
    <3>1. CASE b = d
      BY <2>5, <3>1
    <3>2. CASE b # d
      BY <2>4, <3>2
    <3> QED
      BY <3>1, <3>2
  <2>7. ASSUME NEW e, e.device_id \in Devices, FirstGiven(e) PROVE Stays(e)
    <3> SUFFICES ASSUME e.count # 0
                 PROVE  \E k \in 1..Len(given'[e.device_id]) : given'[e.device_id][k].port = Current(e)
      OBVIOUS
    <3>1. PICK k \in 1..Len(given[e.device_id]) : given[e.device_id][k].port = Current(e)
      BY <2>7 DEF FirstGiven
    <3>2. k \in 1..Len(given'[e.device_id]) /\ given'[e.device_id][k] = given[e.device_id][k]
      BY <2>6, <2>7
    <3> QED
      BY <3>1, <3>2
  <2>8. ASSUME NEW e, Holds(e, Device_Ports[i], d, head.port) PROVE Stays(e)
    <3> SUFFICES ASSUME e.count # 0
                 PROVE  \E k \in 1..Len(given'[d]) : given'[d][k].port = Current(e)
      BY <2>8 DEF Holds
    <3>1. CASE Current(e) = head.port
      <4>1. Len(given'[d]) \in 1..Len(given'[d]) /\ given'[d][Len(given'[d])].port = head.port
        BY <2>5
      <4> QED
        BY <3>1, <4>1
    <3>2. CASE Device_Ports[i].device_id # 0 /\ Current(e) = Current(Device_Ports[i])
      <4>1. Device_Ports[i].device_id = d /\ Device_Ports[i].count # 0
        BY <2>2, <2>3, <3>2 DEF Inv, EntriesWhole
      <4>2. FirstGiven(Device_Ports[i])
        BY <3>2 DEF CurrentGiven
      <4>3. Stays(Device_Ports[i])
        BY <2>1, <2>7, <4>1, <4>2
      <4> QED
        BY <3>2, <4>1, <4>3
    <3> QED
      BY <2>8, <3>1, <3>2 DEF Holds
  <2>9. Stays(c[1]) /\ \A k \in 1..Len(stores') : Stays(stores'[k])
    <3>1. \A n \in 1..Len(c) : Stays(c[n])
      BY <2>2, <2>8
    <3> HIDE DEF Stays
    <3> QED
      BY <2>2, <3>1, RestIs
  <2>10. \A j \in Ports : Device_Ports'[j].device_id # 0 => Stays(Device_Ports'[j])
    <3> SUFFICES ASSUME NEW j \in Ports, Device_Ports'[j].device_id # 0 PROVE Stays(Device_Ports'[j])
      BY Zenon
    <3>1. CASE j = i
      <4>1. Device_Ports'[j] = c[1]
        BY <1>0, <2>2, <3>1
      <4> HIDE DEF Stays
      <4> QED
        BY <2>9, <4>1
    <3>2. CASE j # i
      <4>1. Device_Ports'[j] = Device_Ports[j]
        BY <1>0, <2>2, <3>2
      <4>2. Device_Ports[j].device_id \in Devices /\ FirstGiven(Device_Ports[j])
        BY <1>0, <4>1 DEF CurrentGiven, EntryType
      <4>3. Stays(Device_Ports[j])
        BY <2>7, <4>2
      <4> HIDE DEF Stays
      <4> QED
        BY <4>1, <4>3
    <3> QED
      BY <3>1, <3>2
  <2> QED
    BY <2>9, <2>10 DEF CurrentGiven, FirstGiven, Current
<1> QED
  BY <1>1, <1>2, <1>3

LEMMA NextSavedAsGiven ==
  ASSUME Inv, SavedAsGiven, [Next]_vars
  PROVE  SavedAsGiven'
<1> USE PortsAssumption
<1>0. TypeOK /\ HeadInRange /\ device_config \in [Ports -> Descriptors \cup {EmptyConfig}]
      /\ Comm_Configured \in [Ports -> BOOLEAN] /\ Port_Device \in [Ports -> Devices \cup {0}]
  BY DEF Inv, TypeOK
<1>1. CASE AssignPort
  <2> DEFINE d == head.device
             r == [port |-> head.port, flag |-> list[at].flag]
  <2>1. head.port \in Ports /\ d \in Devices /\ list[at].flag \in Flags
    BY <1>1, AssignPortIs
  <2>2. /\ given \in [Devices -> Seq(GivenType)] /\ r \in GivenType
        /\ given' = [given EXCEPT ![d] = Append(given[d], r)]
        /\ UNCHANGED <<Port_Device, Comm_Configured, device_config, list, at>>
        /\ stage' = "storing" /\ stage = "list"
    BY <1>0, <1>1, <2>1 DEF AssignPort, TypeOK, GivenType, Flags
  <2>3. /\ \A c \in Devices : c # d => given'[c] = given[c]
        /\ given'[d] = Append(given[d], r)
        /\ given[d] \in Seq(GivenType)
    BY <2>1, <2>2
  <2> HIDE DEF d
  <2>4. /\ Len(given'[d]) = Len(given[d]) + 1 /\ given'[d][Len(given'[d])] = r /\ Len(given[d]) \in Nat
        /\ \A k \in 1..Len(given[d]) : given'[d][k] = given[d][k]
    BY <2>2, <2>3
  <2>5. ASSUME NEW p \in Ports, Port_Device[p] # 0, NEW k \in 1..Len(given'[Port_Device[p]]),
               given'[Port_Device[p]][k].port = p,
               \A j \in (k + 1)..Len(given'[Port_Device[p]]) : given'[Port_Device[p]][j].port # p,
               p # head.port
        PROVE  device_config[p].flag = given'[Port_Device[p]][k].flag
    <3>0. Port_Device[p] \in Devices /\ ~JustAssigned(p)
      BY <1>0, <2>2, <2>5 DEF JustAssigned
    <3>1. CASE Port_Device[p] # d
      <4>1. given'[Port_Device[p]] = given[Port_Device[p]]
        BY <2>3, <3>0, <3>1
      <4>2. LastGiven(Port_Device[p], p, k)
        BY <2>5, <4>1 DEF LastGiven
      <4> QED
        BY <2>5, <3>0, <4>1, <4>2 DEF SavedAsGiven, FlagSaved
    <3>2. CASE Port_Device[p] = d
      <4>1. k # Len(given'[d])
        BY <2>4, <2>5, <3>2
      <4>2. k \in 1..Len(given[d]) /\ given'[d][k] = given[d][k]
        BY <2>4, <2>5, <3>2, <4>1
      <4>3. \A j \in (k + 1)..Len(given[d]) : given[d][j].port # p
        BY <2>4, <2>5, <3>2, <4>2
      <4>4. LastGiven(d, p, k)
        BY <2>5, <3>2, <4>2, <4>3 DEF LastGiven
      <4> QED
        BY <2>5, <3>0, <3>2, <4>2, <4>4 DEF SavedAsGiven, FlagSaved
    <3> QED
      BY <3>1, <3>2
  <2>6. ASSUME NEW p \in Ports, Port_Device[p] # 0 PROVE given'[Port_Device[p]] # <<>>
    <3>1. Port_Device[p] \in Devices /\ given[Port_Device[p]] # <<>>
      BY <1>0, <2>6 DEF SavedAsGiven, DeviceGiven
    <3>2. given'[d] # <<>>
      BY <2>3
    <3> QED
      BY <2>3, <3>1, <3>2
  <2>7. given'[d] # <<>> /\ given'[d][Len(given'[d])] = r /\ head' = head
    BY <2>2, <2>3, <2>4 DEF head
  <2>8. AssignedLast'
    BY <2>2, <2>7 DEF AssignedLast, d
  <2>9. DeviceGiven'
    BY <2>2, <2>6 DEF DeviceGiven
  <2>10. ConfigSaved'
    BY <2>2 DEF SavedAsGiven, ConfigSaved
  <2>11. FlagSaved'
    <3> SUFFICES ASSUME NEW p \in Ports, Port_Device'[p] # 0, NEW k \in 1..Len(given'[Port_Device'[p]]),
                        LastGiven(Port_Device[p], p, k)', ~JustAssigned(p)'
                 PROVE  device_config'[p].flag = given'[Port_Device'[p]][k].flag
      BY DEF FlagSaved
    <3>1. p # head.port
      BY <2>2, <2>7 DEF JustAssigned
    <3>2. Port_Device' = Port_Device /\ device_config' = device_config
      BY <2>2
    <3> QED
      BY <2>5, <3>1, <3>2 DEF LastGiven
  <2> QED
    BY <2>8, <2>9, <2>10, <2>11 DEF SavedAsGiven

<1>2. CASE MarkConfigured
  <2> DEFINE d == head.device
             ports == given[d]
  <2>1. /\ head.port \in Ports /\ d \in Devices /\ d # 0
        /\ list \in Seq(Descriptors) /\ at \in 1..Len(list)
    BY <1>0, <1>2, HeadIs DEF MarkConfigured, HeadInRange, Stages
  <2>2. /\ Port_Device' = [Port_Device EXCEPT ![head.port] = d]
        /\ Comm_Configured' = [Comm_Configured EXCEPT ![head.port] = TRUE]
        /\ device_config' = [device_config EXCEPT ![head.port] = list[at]]
        /\ UNCHANGED <<list, at, given>> /\ stage = "assigned" /\ stage' = "configured"
    BY <1>2 DEF MarkConfigured, Saved
  <2>3. list[at] \in Descriptors
    BY <2>1
  <2>4. ports # <<>> /\ ports[Len(ports)] = [port |-> head.port, flag |-> list[at].flag]
    BY <2>2 DEF SavedAsGiven, AssignedLast
  <2>5. AssignedLast'
    BY <2>2 DEF AssignedLast
  <2> HIDE DEF d
  <2>6. DeviceGiven'
    BY <1>0, <2>1, <2>2, <2>4 DEF SavedAsGiven, DeviceGiven
  <2>7. ConfigSaved'
    <3>1. ASSUME NEW p \in Ports, Comm_Configured'[p] PROVE device_config'[p] \in Descriptors
      <4>1. CASE p = head.port
        BY <1>0, <2>2, <2>3, <4>1
      <4>2. CASE p # head.port
        <5>1. Comm_Configured[p]
          BY <1>0, <2>2, <3>1, <4>2, Zenon
        <5> QED
          BY <1>0, <2>2, <4>2, <5>1 DEF SavedAsGiven, ConfigSaved
      <4> QED
        BY <4>1, <4>2
    <3> QED
      BY <3>1 DEF ConfigSaved
  <2>8. ASSUME NEW p \in Ports, Port_Device'[p] # 0, NEW k \in 1..Len(given[Port_Device'[p]]),
               LastGiven(Port_Device'[p], p, k)
        PROVE  device_config'[p].flag = given[Port_Device'[p]][k].flag
    <3>1. CASE p = head.port
      <4>1. Port_Device'[p] = d /\ device_config'[p] = list[at]
        BY <1>0, <2>1, <2>2, <3>1
      <4>2. Len(ports) \in Nat /\ k \in 1..Len(ports)
        BY <1>0, <2>1, <2>8, <4>1, GivenIs
      <4>3. k = Len(ports)
        <5>1. \A j \in (k + 1)..Len(ports) : ports[j].port # head.port
          BY <2>8, <3>1, <4>1 DEF LastGiven
        <5>2. ports[Len(ports)].port = head.port
          BY <2>4
        <5> HIDE DEF ports
        <5> QED
          BY <4>2, <5>1, <5>2
      <4> QED
        BY <2>4, <4>1, <4>3
    <3>2. CASE p # head.port
      <4>1. Port_Device'[p] = Port_Device[p] /\ device_config'[p] = device_config[p]
        BY <1>0, <2>2, <3>2
      <4>2. ~JustAssigned(p)
        BY <3>2 DEF JustAssigned
      <4> QED
        BY <2>8, <4>1, <4>2 DEF SavedAsGiven, FlagSaved
    <3> QED
      BY <3>1, <3>2
  <2>9. FlagSaved'
    <3> SUFFICES ASSUME NEW p \in Ports, Port_Device'[p] # 0, NEW k \in 1..Len(given'[Port_Device'[p]]),
                        LastGiven(Port_Device[p], p, k)'
                 PROVE  device_config'[p].flag = given'[Port_Device'[p]][k].flag
      BY DEF FlagSaved
    <3>1. given' = given
      BY <2>2
    <3> QED
      BY <2>8, <3>1 DEF LastGiven
  <2> QED
    BY <2>5, <2>6, <2>7, <2>9 DEF SavedAsGiven
<1>3. CASE ~AssignPort /\ ~MarkConfigured
  <2>1. UNCHANGED <<Port_Device, Comm_Configured, device_config, given>>
    BY <1>3, Zenon DEF Next, ConfigureStep, vars, tables, Configure_NTDS_Device, StoreField, RefusePort, SkipPort,
      CreatePublishQueue, CreateSubscribeQueue, MakeSubscribeQueue, EndOfList, Report_Port_Status
  <2>2. /\ stage \in {"storing", "assigned"} <=> stage' \in {"storing", "assigned"}
        /\ stage \in {"storing", "assigned"} => UNCHANGED <<list, at>>
    BY <1>3 DEF Next, ConfigureStep, vars, Configure_NTDS_Device, StoreField, RefusePort, SkipPort,
      CreatePublishQueue, CreateSubscribeQueue, MakeSubscribeQueue, EndOfList, Report_Port_Status
  <2>3. AssignedLast'
    BY <2>1, <2>2 DEF SavedAsGiven, AssignedLast, head
  <2>4. DeviceGiven' /\ ConfigSaved'
    BY <2>1 DEF SavedAsGiven, DeviceGiven, ConfigSaved
  <2>5. \A p \in Ports : JustAssigned(p) <=> (stage' \in {"storing", "assigned"} /\ head' = head /\ head.port = p)
    BY <2>2 DEF JustAssigned, head
  <2>6. FlagSaved'
    BY <2>1, <2>5 DEF SavedAsGiven, FlagSaved, LastGiven, JustAssigned
  <2> QED
    BY <2>3, <2>4, <2>6 DEF SavedAsGiven
<1> QED
  BY <1>1, <1>2, <1>3

LEMMA NextStatusKnown ==
  ASSUME Inv, StatusKnown, [Next]_vars
  PROVE  StatusKnown'
<1>0. NTDS_Channel_Status \in [Ports -> Int]
  BY DEF Inv, TypeOK
<1> DEFINE Known == CHANNEL_STATUS_UNKNOWN..CHANNEL_READY
<1>1. CASE MarkConfigured
  <2>1. NTDS_Channel_Status' = [NTDS_Channel_Status EXCEPT ![head.port] = CHANNEL_RESET]
    BY <1>1 DEF MarkConfigured
  <2>2. CHANNEL_RESET \in Known
    BY DEF CHANNEL_RESET, CHANNEL_STATUS_UNKNOWN, CHANNEL_READY
  <2> HIDE DEF Known
  <2> QED
    BY <1>0, <2>1, <2>2, Zenon DEF StatusKnown, Known
<1>2. ASSUME NEW q \in Ports, NEW s \in Readiness, Report_Port_Status(q, s) PROVE StatusKnown'
  <2>1. NTDS_Channel_Status' = [NTDS_Channel_Status EXCEPT ![q] = s]
    BY <1>2 DEF Report_Port_Status
  <2>2. s \in Known
    BY ReadinessAssumption
  <2> HIDE DEF Known
  <2> QED
    BY <1>0, <2>1, <2>2, Zenon DEF StatusKnown, Known
<1>3. CASE UNCHANGED NTDS_Channel_Status
  BY <1>3, Zenon DEF StatusKnown
<1> QED
  BY <1>1, <1>2, <1>3, Zenon DEF Next, ConfigureStep, vars, tables, Configure_NTDS_Device, RefusePort, SkipPort,
    AssignPort, StoreField, CreatePublishQueue, CreateSubscribeQueue, MakeSubscribeQueue, EndOfList

LEMMA InitGivenInv == Init => GivenInv
<1> SUFFICES ASSUME Init PROVE GivenInv
  OBVIOUS
<1>1. EntriesMade
  BY DEF Init, EntriesMade, EmptyEntry
<1>2. SavedAsGiven
  BY DEF Init, SavedAsGiven, AssignedLast, DeviceGiven, ConfigSaved, FlagSaved
<1>3. StatusKnown
  BY DEF Init, StatusKnown, CHANNEL_STATUS_UNKNOWN, CHANNEL_READY
<1>4. CurrentGiven
  BY DEF Init, CurrentGiven, EmptyEntry
<1> QED
  BY <1>1, <1>2, <1>3, <1>4, InitInv DEF GivenInv

(* What the tables hold of a device and of a port is what                  *)
(* Configure_NTDS_Device was given for them, at any moment.                *)
THEOREM GivenInvariance == Spec => []GivenInv
<1>1. GivenInv /\ [Next]_vars => GivenInv'
  BY TablesKeepInv, NextEntriesMade, NextCurrentGiven, NextSavedAsGiven, NextStatusKnown DEF GivenInv
<1> QED
  BY InitGivenInv, <1>1, PTL DEF Spec
----------------------------------------------------------------------------
(* What the getters read.                                                  *)

(* The entry that is found for a device is made of the ports it was given, *)
(* unless it is being written.                                             *)
LEMMA FoundEntry ==
  ASSUME GivenInv, NEW d \in Devices
  PROVE  /\ HasEntry(d) <=> given[d] # <<>>
         /\ HasEntry(d) =>
              /\ \E i \in Ports : Device_Ports[i].device_id = d /\ Entry(d) = Device_Ports[i]
              /\ ~Storing(d) => MadeOf(Entry(d), d, given[d])
<1>1. ASSUME HasEntry(d)
      PROVE  /\ \E i \in Ports : Device_Ports[i].device_id = d /\ Entry(d) = Device_Ports[i]
             /\ ~Storing(d) => MadeOf(Entry(d), d, given[d])
             /\ given[d] # <<>>
  <2>1. PICK i \in Ports : Device_Ports[i].device_id = d /\ Entry(d) = Device_Ports[i]
    BY <1>1, EntryIs DEF GivenInv
  <2>2. d # 0
    BY PortsAssumption
  <2>3. MadeOf(Final(i), d, given[d])
    BY <2>1, <2>2 DEF GivenInv, EntriesMade
  <2>4. ~Storing(d) => Final(i) = Entry(d)
    BY <2>1 DEF Final, Storing, GivenInv, Inv, StoresGood
  <2> QED
    BY <2>1, <2>3, <2>4, MadeCount DEF GivenInv, Inv
<1>2. given[d] # <<>> => HasEntry(d)
  BY DEF GivenInv, EntriesMade
<1> QED
  BY <1>1, <1>2

(* The current port of a device with a counted entry is one that it was    *)
(* given, and its entry names it.                                          *)
LEMMA CurrentPort ==
  ASSUME GivenInv, NEW d \in Devices, HasEntry(d), Entry(d).count # 0
  PROVE  /\ Get_NTDS_Port(d) \in Ports
         /\ Get_NTDS_Port(d) \in PortsIn(Entry(d))
         /\ \E k \in 1..Len(given[d]) : given[d][k].port = Get_NTDS_Port(d)
<1> DEFINE e == Entry(d)
<1>1. PICK i \in Ports : Device_Ports[i].device_id = d /\ e = Device_Ports[i]
  BY FoundEntry
<1>2. PICK k \in 1..Len(given[d]) : given[d][k].port = Current(e)
  BY <1>1, PortsAssumption DEF GivenInv, CurrentGiven, FirstGiven
<1>3. Current(e) \in Ports
  BY <1>2, GivenIs DEF GivenInv, Inv
<1>4. NO_PRIMARY_PORT \notin Ports /\ NO_SECONDARY_PORT \notin Ports
  BY DEF Ports, NO_PRIMARY_PORT, NO_SECONDARY_PORT
<1>5. Get_NTDS_Port(d) =
        IF e.primary_port # NO_PRIMARY_PORT THEN e.primary_port
        ELSE IF e.secondary_port # NO_SECONDARY_PORT THEN e.secondary_port ELSE INVALID_DEVICE
  BY DEF Get_NTDS_Port
<1> HIDE DEF e
<1>6. Get_NTDS_Port(d) = Current(e) /\ Current(e) \in {e.primary_port, e.secondary_port}
  BY <1>3, <1>4, <1>5 DEF Current
<1> QED
  BY <1>2, <1>3, <1>6 DEF PortsIn, e

(* The current port of a device is one it was given, and unless that port  *)
(* is being configured the getters tell its configuration, word size and   *)
(* status, all of which are there and agree.                               *)
THEOREM CurrentWasGiven == Spec => []PortWasGiven
<1>1. ASSUME GivenInv PROVE PortWasGiven
  <2> SUFFICES ASSUME NEW d \in Devices, HasEntry(d), Entry(d).count # 0
               PROVE  LET port == Get_NTDS_Port(d)
                      IN  /\ \E k \in 1..Len(given[d]) : given[d][k].port = port
                          /\ ~Configuring(port) =>
                               /\ Get_Device_Configuration(d) =
                                    [status |-> 0, port |-> port, config |-> Get_NTDS_Word_Size(d)]
                               /\ Get_NTDS_Word_Size(d) # EmptyConfig
                               /\ NTDS_Status(d) = Get_Port_Status(port)
                               /\ Get_NTDS_Port_Status(port) = Get_Port_Status(port)
                               /\ Get_NTDS_Status_String(d) = Get_Port_Status_String(port)
                               /\ Get_NTDS_Status_String(d) \in NTDS_Status_String
    BY DEF PortWasGiven
  <2> DEFINE port == Get_NTDS_Port(d)
  <2>0. GivenInv
    BY <1>1
  <2>1. port \in Ports /\ port \in PortsIn(Entry(d)) /\ \E k \in 1..Len(given[d]) : given[d][k].port = port
    BY <2>0, CurrentPort
  <2>2. PICK i \in Ports : Device_Ports[i].device_id = d /\ Entry(d) = Device_Ports[i]
    BY <2>0, FoundEntry
  <2>3. port # INVALID_DEVICE
    BY <2>1 DEF Ports, INVALID_DEVICE
  <2> HIDE DEF port
  <2>4. ASSUME ~Configuring(port) PROVE Comm_Configured[port] /\ device_config[port] \in Descriptors
    <3>1. Comm_Configured[port]
      BY <2>0, <2>1, <2>2, <2>4, PortsAssumption DEF GivenInv, Inv, RoutesComplete
    <3> QED
      BY <2>0, <2>1, <3>1 DEF GivenInv, SavedAsGiven, ConfigSaved
  <2>5. EmptyConfig \notin Descriptors
    BY PortsAssumption DEF EmptyConfig, Descriptors
  <2>6. NTDS_Channel_Status[port] - CHANNEL_STATUS_UNKNOWN \in 0..12
    <3>1. NTDS_Channel_Status[port] \in CHANNEL_STATUS_UNKNOWN..CHANNEL_READY
      BY <2>0, <2>1 DEF GivenInv, StatusKnown
    <3> QED
      BY <3>1 DEF CHANNEL_STATUS_UNKNOWN, CHANNEL_READY
  <2>7. NTDS_Status(d) = NTDS_Channel_Status[port] /\ Get_NTDS_Word_Size(d) = device_config[port]
    BY <2>3 DEF NTDS_Status, Get_NTDS_Word_Size, port
  <2>8. ASSUME ~Configuring(port)
        PROVE  Get_Device_Configuration(d) = [status |-> 0, port |-> port, config |-> Get_NTDS_Word_Size(d)]
    BY <2>3, <2>4, <2>7, <2>8 DEF Get_Device_Configuration, port
  <2>9. /\ Get_NTDS_Port_Status(port) = NTDS_Channel_Status[port]
        /\ Get_Port_Status_String(port) = NTDS_Channel_Status[port] - CHANNEL_STATUS_UNKNOWN
        /\ Comm_Configured[port] => Get_Port_Status(port) = NTDS_Channel_Status[port]
    BY <2>1 DEF Get_NTDS_Port_Status, Get_Port_Status_String, Get_Port_Status
  <2>10. /\ Get_NTDS_Status_String(d) = NTDS_Channel_Status[port] - CHANNEL_STATUS_UNKNOWN
         /\ Get_NTDS_Status_String(d) \in NTDS_Status_String
    BY <2>6, <2>7 DEF Get_NTDS_Status_String, NTDS_Status_String
  <2> QED
    BY <2>1, <2>4, <2>5, <2>7, <2>8, <2>9, <2>10, Zenon DEF port
<1> QED
  BY <1>1, GivenInvariance, PTL

(* The entry of a device that was not given two ports of one kind, by the  *)
(* kinds of the ports it was given.                                        *)
OnlyPrimary(e, ports) ==
  /\ Len(ports) = 1 /\ ports[1].flag = NTDS_PRIMARY_PORT
  /\ e.primary_port = ports[1].port /\ e.secondary_port = NO_SECONDARY_PORT
OnlySecondary(e, ports) ==
  /\ Len(ports) = 1 /\ ports[1].flag = NTDS_SECONDARY_PORT
  /\ e.primary_port = NO_PRIMARY_PORT /\ e.secondary_port = ports[1].port
Both(e, ports, j, k) ==
  /\ Len(ports) = 2 /\ ports[j].flag = NTDS_PRIMARY_PORT /\ ports[k].flag = NTDS_SECONDARY_PORT
  /\ e.primary_port = ports[j].port /\ e.secondary_port = ports[k].port

LEMMA EntryByKind ==
  ASSUME GivenInv, NEW d \in Devices, HasEntry(d), OneOfAKind(d), ~Storing(d)
  PROVE  /\ Entry(d).normal_port = Entry(d).primary_port
         /\ Entry(d).alternate_port = Entry(d).secondary_port
         /\ \/ OnlyPrimary(Entry(d), given[d])
            \/ OnlySecondary(Entry(d), given[d])
            \/ Both(Entry(d), given[d], 1, 2)
            \/ Both(Entry(d), given[d], 2, 1)
<1> DEFINE e == Entry(d)
           ports == given[d]
<1>1. MadeOf(e, d, ports)
  BY FoundEntry
<1>2. \A k \in 1..Len(ports) : ports[k].port \in Ports /\ ports[k].flag \in Flags
  BY GivenIs DEF GivenInv, Inv
<1>3. \A j, k \in 1..Len(ports) : ports[j].flag = ports[k].flag => j = k
  BY DEF OneOfAKind
<1> HIDE DEF e, ports
<1>4. CASE Len(ports) = 1 /\ e = NewEntry(d, ports[1].port, ports[1].flag)
  <2>1. ports[1].port \in Ports /\ ports[1].flag \in Flags
    BY <1>2, <1>4
  <2>2. e.normal_port = e.primary_port /\ e.alternate_port = e.secondary_port
    BY <1>4, <2>1, NewEntryFields
  <2>3. OnlyPrimary(e, ports) \/ OnlySecondary(e, ports)
    BY <1>4, <2>1, NewEntryFields DEF Flags, OnlyPrimary, OnlySecondary
  <2> QED
    BY <2>2, <2>3 DEF e, ports
<1>5. CASE Len(ports) = 2 /\ e = GrownEntry(NewEntry(d, ports[1].port, ports[1].flag),
                                            ports[2].port, ports[2].flag)
  <2>1. /\ ports[1].port \in Ports /\ ports[1].flag \in Flags
        /\ ports[2].port \in Ports /\ ports[2].flag \in Flags
        /\ ports[1].flag # ports[2].flag
    BY <1>2, <1>3, <1>5
  <2>2. \/ ports[1].flag = NTDS_PRIMARY_PORT /\ ports[2].flag = NTDS_SECONDARY_PORT
        \/ ports[1].flag = NTDS_SECONDARY_PORT /\ ports[2].flag = NTDS_PRIMARY_PORT
    BY <2>1 DEF Flags
  <2>3. e.normal_port = e.primary_port /\ e.alternate_port = e.secondary_port
    BY <1>5, <2>1, <2>2, GrownEntryFields
  <2>4. Both(e, ports, 1, 2) \/ Both(e, ports, 2, 1)
    BY <1>5, <2>1, <2>2, GrownEntryFields DEF Both
  <2> QED
    BY <2>3, <2>4 DEF e, ports
<1> QED
  BY <1>1, <1>4, <1>5 DEF MadeOf

(* The interface of a device with one port of each kind at most is up      *)
(* exactly if one of its ports is viable.                                  *)
THEOREM UpIfViable == Spec => []UpIfOneViable
<1>1. ASSUME GivenInv PROVE UpIfOneViable
  <2> SUFFICES ASSUME NEW d \in Devices, HasEntry(d), OneOfAKind(d), ~Storing(d)
               PROVE  Get_Interface_Status(d) <=> Viable(d)
    BY DEF UpIfOneViable
  <2> DEFINE e == Entry(d)
             ports == given[d]
             Up(p) == Get_Port_Status(p) >= CHANNEL_READY
  <2>1. /\ e.normal_port = e.primary_port /\ e.alternate_port = e.secondary_port
        /\ \/ OnlyPrimary(e, ports) \/ OnlySecondary(e, ports)
           \/ Both(e, ports, 1, 2) \/ Both(e, ports, 2, 1)
    BY <1>1, EntryByKind
  <2>2. \A k \in 1..Len(ports) : ports[k].port \in Ports
    BY <1>1, GivenIs DEF GivenInv, Inv
  <2>3. ~Up(NO_PRIMARY_PORT)
    <3>1. NO_PRIMARY_PORT \notin Ports
      BY DEF Ports, NO_PRIMARY_PORT
    <3>2. Get_Port_Status(NO_PRIMARY_PORT) = BAD_PORT_ID
      BY <3>1 DEF Get_Port_Status
    <3> QED
      BY <3>2 DEF BAD_PORT_ID, CHANNEL_READY
  <2>4. NO_SECONDARY_PORT \notin Ports
    BY DEF Ports, NO_SECONDARY_PORT
  <2>5. Get_Interface_Status(d) <=> Up(e.primary_port) \/ (e.secondary_port # NO_SECONDARY_PORT /\ Up(e.secondary_port))
    BY <2>1 DEF Get_Interface_Status
  <2>6. Viable(d) <=> \E k \in 1..Len(ports) : Up(ports[k].port)
    BY DEF Viable
  <2> HIDE DEF e, ports, Up
  <2>7. CASE OnlyPrimary(e, ports)
    BY <2>5, <2>6, <2>7 DEF OnlyPrimary
  <2>8. CASE OnlySecondary(e, ports)
    BY <2>2, <2>3, <2>4, <2>5, <2>6, <2>8 DEF OnlySecondary
  <2>9. CASE Both(e, ports, 1, 2) \/ Both(e, ports, 2, 1)
    BY <2>2, <2>4, <2>5, <2>6, <2>9 DEF Both
  <2> QED
    BY <2>1, <2>7, <2>8, <2>9
<1> QED
  BY <1>1, GivenInvariance, PTL

(* The port that a device was given as one of a kind.                      *)
LEMMA GivenAs ==
  ASSUME NEW d \in Devices, OneOfAKind(d)
  PROVE  /\ \A k \in 1..Len(given[d]) : PortGivenAs(d, given[d][k].flag) = given[d][k].port
         /\ \A f : (\A k \in 1..Len(given[d]) : given[d][k].flag # f) => PortGivenAs(d, f) = INVALID_DEVICE
<1>1. ASSUME NEW k \in 1..Len(given[d]) PROVE PortGivenAs(d, given[d][k].flag) = given[d][k].port
  <2> DEFINE f == given[d][k].flag
             Is(j) == j \in 1..Len(given[d]) /\ given[d][j].flag = f
             c == CHOOSE j \in 1..Len(given[d]) : given[d][j].flag = f
  <2>1. c \in 1..Len(given[d]) /\ given[d][c].flag = f
    BY Zenon
  <2>2. c = k
    BY <2>1 DEF OneOfAKind
  <2> QED
    BY <2>2 DEF PortGivenAs
<1>2. ASSUME NEW f, \A k \in 1..Len(given[d]) : given[d][k].flag # f PROVE PortGivenAs(d, f) = INVALID_DEVICE
  BY <1>2 DEF PortGivenAs
<1> QED
  BY <1>1, <1>2

(* The four port getters of a device with one port of each kind at most.   *)
LEMMA GettersAsGiven ==
  ASSUME GivenInv, NEW d \in Devices, OneOfAKind(d), ~Storing(d)
  PROVE  /\ Get_Primary_NTDS_Port(d) = PortGivenAs(d, NTDS_PRIMARY_PORT)
         /\ Get_Normal_NTDS_Port(d) = Get_Primary_NTDS_Port(d)
         /\ Get_Secondary_NTDS_Port(d) = PortGivenAs(d, NTDS_SECONDARY_PORT)
         /\ Get_Alternate_NTDS_Port(d) = Get_Secondary_NTDS_Port(d)
<1> USE DEF Get_Primary_NTDS_Port, Get_Secondary_NTDS_Port, Get_Normal_NTDS_Port, Get_Alternate_NTDS_Port, PortOr
<1>1. CASE ~HasEntry(d)
  <2>1. \A k \in 1..Len(given[d]) : FALSE
    BY <1>1, FoundEntry
  <2>2. \A f : PortGivenAs(d, f) = INVALID_DEVICE
    BY <2>1, GivenAs
  <2> QED
    BY <1>1, <2>2
<1>2. CASE HasEntry(d)
  <2> DEFINE e == Entry(d)
             ports == given[d]
             As(f) == PortGivenAs(d, f)
  <2>1. /\ e.normal_port = e.primary_port /\ e.alternate_port = e.secondary_port
        /\ \/ OnlyPrimary(e, ports) \/ OnlySecondary(e, ports)
           \/ Both(e, ports, 1, 2) \/ Both(e, ports, 2, 1)
    BY <1>2, EntryByKind
  <2>2. /\ \A k \in 1..Len(ports) : ports[k].port \in Ports /\ As(ports[k].flag) = ports[k].port
        /\ (\A k \in 1..Len(ports) : ports[k].flag # NTDS_PRIMARY_PORT) => As(NTDS_PRIMARY_PORT) = INVALID_DEVICE
        /\ (\A k \in 1..Len(ports) : ports[k].flag # NTDS_SECONDARY_PORT) => As(NTDS_SECONDARY_PORT) = INVALID_DEVICE
    BY GivenIs, GivenAs DEF GivenInv, Inv
  <2>3. NO_PRIMARY_PORT \notin Ports /\ NO_SECONDARY_PORT \notin Ports
    BY DEF Ports, NO_PRIMARY_PORT, NO_SECONDARY_PORT
  <2>4. NTDS_PRIMARY_PORT # NTDS_SECONDARY_PORT
    BY DEF NTDS_PRIMARY_PORT, NTDS_SECONDARY_PORT
  <2>5. SUFFICES /\ (IF e.primary_port # NO_PRIMARY_PORT THEN e.primary_port ELSE INVALID_DEVICE) = As(NTDS_PRIMARY_PORT)
                 /\ (IF e.secondary_port # NO_SECONDARY_PORT THEN e.secondary_port ELSE INVALID_DEVICE)
                      = As(NTDS_SECONDARY_PORT)
    BY <1>2, <2>1
  <2> HIDE DEF e, ports, As
  <2>6. CASE OnlyPrimary(e, ports)
    <3>1. \A k \in 1..Len(ports) : k = 1
      BY <2>6 DEF OnlyPrimary
    <3> QED
      BY <2>2, <2>3, <2>4, <2>6, <3>1 DEF OnlyPrimary
  <2>7. CASE OnlySecondary(e, ports)
    <3>1. \A k \in 1..Len(ports) : k = 1
      BY <2>7 DEF OnlySecondary
    <3> QED
      BY <2>2, <2>3, <2>4, <2>7, <3>1 DEF OnlySecondary
  <2>8. CASE Both(e, ports, 1, 2) \/ Both(e, ports, 2, 1)
    <3>1. 1 \in 1..Len(ports) /\ 2 \in 1..Len(ports)
      BY <2>8 DEF Both
    <3> QED
      BY <2>2, <2>3, <2>8, <3>1 DEF Both
  <2> QED
    BY <2>1, <2>6, <2>7, <2>8
<1> QED
  BY <1>1, <1>2

(* The port getters, the channel id and the characteristic of a port agree *)
(* with what the ports were given as, and the descriptor saved for a port  *)
(* has the flag that the port was last given with.                         *)
THEOREM AsGiven == Spec => []ChannelAsGiven
<1>1. ASSUME GivenInv PROVE ChannelAsGiven
  <2>0. GivenInv /\ TypeOK
    BY <1>1 DEF GivenInv, Inv
  <2>1. ASSUME NEW p \in Ports, Port_Device[p] # 0
        PROVE  LET d == Port_Device[p]
               IN  /\ OneOfAKind(d) /\ ~Storing(d) =>
                        /\ Get_Channel_ID(p) <=> p = Get_Primary_NTDS_Port(d)
                        /\ Get_Port_Characteristic(d, p) <=> p = Get_Primary_NTDS_Port(d)
                   /\ \A k \in 1..Len(given[d]) :
                        LastGiven(d, p, k) /\ ~Configuring(p) =>
                          device_config[p].flag = given[d][k].flag
    <3> DEFINE d == Port_Device[p]
    <3>1. d \in Devices /\ HasEntry(d)
      <4>1. d \in Devices
        BY <2>0, <2>1 DEF TypeOK
      <4>2. given[d] # <<>>
        BY <2>0, <2>1 DEF GivenInv, SavedAsGiven, DeviceGiven
      <4> HIDE DEF d
      <4> QED
        BY <2>0, <4>1, <4>2, FoundEntry
    <3>2. p # INVALID_DEVICE /\ p # NO_PRIMARY_PORT
      BY DEF Ports, INVALID_DEVICE, NO_PRIMARY_PORT
    <3>3. Get_Channel_ID(p) <=> p = Get_Normal_NTDS_Port(d)
      BY DEF Get_Channel_ID, Get_Device_Id
    <3>4. ASSUME NEW k \in 1..Len(given[d]), LastGiven(d, p, k), ~Configuring(p)
          PROVE  device_config[p].flag = given[d][k].flag
      <4>1. ~JustAssigned(p)
        BY <3>4 DEF Configuring, JustAssigned
      <4> QED
        BY <2>0, <2>1, <3>4, <4>1 DEF GivenInv, SavedAsGiven, FlagSaved
    <3> HIDE DEF d
    <3>5. Get_Port_Characteristic(d, p) <=> p = Get_Primary_NTDS_Port(d)
      BY <3>1, <3>2 DEF Get_Port_Characteristic, Get_Primary_NTDS_Port, PortOr
    <3>6. OneOfAKind(d) /\ ~Storing(d) => Get_Normal_NTDS_Port(d) = Get_Primary_NTDS_Port(d)
      BY <2>0, <3>1, GettersAsGiven
    <3> QED
      BY <3>3, <3>4, <3>5, <3>6 DEF d
  <2> QED
    BY <2>0, <2>1, GettersAsGiven DEF ChannelAsGiven, Get_Device_Id
<1> QED
  BY <1>1, GivenInvariance, PTL
----------------------------------------------------------------------------
(* The SPS protocol: the tables of NtdsPorts, filled only by a call of     *)
(* Initialize_SPS_Interface.                                               *)

(* A call under way is for a port in range, whose width it has noted.      *)
Calling ==
  /\ stage # "idle" => initializing
  /\ initializing =>
       /\ list \in Lists
       /\ head.port \in Ports
       /\ Word_Width[head.port] = head
       /\ head.port \notin passedOver => Len(list) = 1

(* A descriptor at least has been gone through; it has been when           *)
(* Configure_NTDS_Device has returned OK.                                  *)
GoneThrough == stage \in {"list", "idle"} /\ at > 1
ReturnedOK == initializing /\ stage = "idle" => at > 1

(* Whichever way the head's port went, it is configured then; and if it    *)
(* was not passed over the head is what was saved for it.                  *)
HeadConfigured == initializing /\ GoneThrough => Comm_Configured[head.port]
HeadSaved ==
  initializing /\ head.port \notin passedOver /\ (stage \in {"configured", "published"} \/ GoneThrough) =>
    device_config[head.port] = head

(* A port in use is configured, and a configured port has its queues.      *)
UsedConfigured == \A p \in Ports : Port_Device[p] # 0 => Comm_Configured[p]
QueueFollows ==
  \A p \in Ports : Comm_Configured[p] => publishQueue[p] \/ (stage = "configured" /\ head.port = p)

SpsTypes ==
  /\ Word_Width \in [Ports -> Descriptors \cup {EmptyConfig}]
  /\ Configured \subseteq Ports

SpsInv ==
  /\ Inv
  /\ SpsTypes
  /\ Calling
  /\ ReturnedOK
  /\ HeadConfigured
  /\ HeadSaved
  /\ UsedConfigured
  /\ QueueFollows
  /\ SpsAgrees

(* A report touches no table but that of the statuses.                     *)
LEMMA ReportKeepsInv ==
  ASSUME Inv, NEW p \in Ports, NEW s \in Int, Report_Port_Status(p, s)
  PROVE  Inv'
<1>0. /\ UNCHANGED <<Device_Ports, Port_Device, Comm_Configured, configuredCount,
                     device_config, queues, list, at, stage, filling, calls, given>>
      /\ NTDS_Channel_Status' = [NTDS_Channel_Status EXCEPT ![p] = s]
  BY DEF Report_Port_Status
<1>1. TypeOK'
  <2>1. NTDS_Channel_Status' \in [Ports -> Int]
    BY <1>0 DEF Inv, TypeOK
  <2> QED
    BY <1>0, <2>1 DEF Inv, TypeOK, queues, filling, EntryType, AnyPort
<1>2. HeadInRange' /\ QueuesPaired'
  BY <1>0 DEF Inv, HeadInRange, QueuesPaired, head, queues
<1>3. TablePacked' /\ RoutesComplete'
  BY <1>0 DEF Inv, TablePacked, RoutesComplete, Configuring, head, queues, PortsIn
<1>4. StoresGood' /\ EntriesWhole'
  BY <1>0 DEF Inv, StoresGood, EntriesWhole, Shown, Usable, Configuring, head, queues, filling, PortsIn, EmptyEntry
<1> QED
  BY <1>1, <1>2, <1>3, <1>4 DEF Inv

(* Every step of the protocol keeps the invariant of the tables.           *)
LEMMA SpsKeepsInv ==
  ASSUME Inv, Calling, [SpsNext]_spsVars
  PROVE  Inv'
<1>1. CASE SpsSucceeds
  <2>1. head.port \in Ports /\ CHANNEL_RESET \in Int
    BY <1>1 DEF SpsSucceeds, Calling, CHANNEL_RESET
  <2> QED
    BY <1>1, <2>1, ReportKeepsInv DEF SpsSucceeds
<1>2. CASE ~SpsSucceeds
  <2>1. [Next]_vars
    BY <1>2, Zenon DEF SpsNext, spsVars, Next, ConfigureStep, Initialize_SPS_Interface, SpsConfigures,
      SpsPassedOver, SpsFails, SpsConfigured, SpsReports
  <2> QED
    BY <2>1, TablesKeepInv
<1> QED
  BY <1>1, <1>2

(* The head of a list.                                                     *)
LEMMA HeadOf ==
  ASSUME NEW descriptors \in Lists
  PROVE  descriptors[1] \in Descriptors /\ Len(descriptors) \in Nat \ {0}
<1>1. descriptors \in Seq(Descriptors) /\ descriptors # <<>>
  BY PortsAssumption
<1> QED
  BY <1>1

(* A call begins.                                                          *)
LEMMA SpsBeginKeeps ==
  ASSUME SpsInv, NEW descriptors \in Lists, Initialize_SPS_Interface(descriptors)
  PROVE  /\ SpsTypes' /\ Calling' /\ ReturnedOK' /\ HeadConfigured' /\ HeadSaved'
         /\ UsedConfigured' /\ QueueFollows' /\ SpsAgrees'
<1> DEFINE d == descriptors[1]
<1>1. /\ ~initializing /\ initializing' = TRUE /\ d.port \in Ports
      /\ Word_Width' = [Word_Width EXCEPT ![d.port] = d]
      /\ Configured' = Configured \cup {d.port}
      /\ passedOver' = IF Len(descriptors) = 1 THEN passedOver \ {d.port} ELSE passedOver \cup {d.port}
      /\ UNCHANGED <<typed, refused>>
  BY DEF Initialize_SPS_Interface, StoreWidth
<1>2. /\ UNCHANGED <<Port_Device, Comm_Configured, device_config, publishQueue, subscribeQueue>>
      /\ list' = descriptors /\ at' = 1 /\ stage' = "list" /\ stage = "idle"
  BY DEF Initialize_SPS_Interface, Configure_NTDS_Device, tables, queues
<1>3. d \in Descriptors /\ head' = d
  BY <1>2, HeadOf DEF head
<1>4. Word_Width \in [Ports -> Descriptors \cup {EmptyConfig}] /\ Configured \subseteq Ports
  BY DEF SpsInv, SpsTypes
<1> HIDE DEF d
<1>5. SpsTypes'
  BY <1>1, <1>3, <1>4 DEF SpsTypes
<1>6. Calling'
  BY <1>1, <1>2, <1>3, <1>4 DEF Calling
<1>7. ReturnedOK' /\ HeadConfigured' /\ HeadSaved'
  BY <1>2 DEF ReturnedOK, HeadConfigured, HeadSaved, GoneThrough
<1>8. UsedConfigured' /\ QueueFollows'
  BY <1>2 DEF SpsInv, UsedConfigured, QueueFollows
<1>9. ASSUME NEW p \in Configured', Settled(p)'
      PROVE  /\ p \in refused' \/ (Comm_Configured'[p] /\ publishQueue'[p] /\ subscribeQueue'[p])
             /\ p \in passedOver' \/ Word_Width'[p] = device_config'[p]
             /\ p \in refused' \cup typed'
  <2>1. p # d.port
    BY <1>1, <1>3, <1>9 DEF Settled
  <2>2. p \in Configured /\ Settled(p) /\ p \in Ports
    BY <1>1, <1>4, <2>1 DEF Settled
  <2>3. Word_Width'[p] = Word_Width[p] /\ (p \in passedOver => p \in passedOver')
    BY <1>1, <1>4, <2>1, <2>2
  <2> QED
    BY <1>1, <1>2, <2>2, <2>3 DEF SpsInv, SpsAgrees
<1>10. SpsAgrees'
  BY <1>9 DEF SpsAgrees
<1> QED
  BY <1>5, <1>6, <1>7, <1>8, <1>10

(* What is settled stays so while Configure_NTDS_Device writes the tables  *)
(* of the head's port.                                                     *)
LEMMA ConfiguringKeepsSettled ==
  ASSUME SpsInv, initializing, initializing', list' = list,
         UNCHANGED <<Word_Width, Configured, typed, refused>>,
         \A p \in Ports : p # head.port =>
           /\ Comm_Configured'[p] = Comm_Configured[p]
           /\ publishQueue'[p] = publishQueue[p] /\ subscribeQueue'[p] = subscribeQueue[p]
           /\ device_config'[p] = device_config[p]
           /\ p \in passedOver => p \in passedOver'
  PROVE  SpsAgrees'
<1>1. ASSUME NEW p \in Configured', Settled(p)'
      PROVE  /\ p \in refused' \/ (Comm_Configured'[p] /\ publishQueue'[p] /\ subscribeQueue'[p])
             /\ p \in passedOver' \/ Word_Width'[p] = device_config'[p]
             /\ p \in refused' \cup typed'
  <2>1. p \in Configured /\ p \in Ports /\ p # head.port
    BY <1>1 DEF SpsInv, SpsTypes, Settled, head
  <2>2. Settled(p)
    BY <2>1 DEF Settled
  <2> QED
    BY <2>1, <2>2 DEF SpsInv, SpsAgrees
<1> QED
  BY <1>1 DEF SpsAgrees

(* The steps of Configure_NTDS_Device for one descriptor.                  *)
LEMMA ConfiguresKeeps ==
  ASSUME SpsInv, SpsConfigures
  PROVE  /\ SpsTypes' /\ Calling' /\ ReturnedOK' /\ HeadConfigured' /\ HeadSaved'
         /\ UsedConfigured' /\ QueueFollows' /\ SpsAgrees'
<1>0. UNCHANGED <<Word_Width, Configured, typed, initializing, refused, passedOver>>
  BY DEF SpsConfigures, spsTables, spsHistory
<1>1. stage # "idle" /\ stage' # "idle" /\ list' = list /\ head' = head
  BY DEF SpsConfigures, AssignPort, StoreField, MarkConfigured, CreatePublishQueue, CreateSubscribeQueue,
    MakeSubscribeQueue, head
<1>2. initializing /\ initializing' /\ head.port \in Ports /\ list \in Lists
  BY <1>0, <1>1 DEF SpsInv, Calling
<1>3. SpsTypes' /\ Calling' /\ ReturnedOK'
  BY <1>0, <1>1, <1>2 DEF SpsInv, SpsTypes, Calling, ReturnedOK
<1>4. /\ at \in Nat \ {0} /\ Comm_Configured \in [Ports -> BOOLEAN] /\ Port_Device \in [Ports -> Devices \cup {0}]
      /\ publishQueue \in [Ports -> BOOLEAN] /\ subscribeQueue \in [Ports -> BOOLEAN]
      /\ device_config \in [Ports -> Descriptors \cup {EmptyConfig}]
  <2>1. at \in Nat \ {0}
    BY <1>1, HeadIs DEF SpsInv, Inv
  <2> QED
    BY <2>1 DEF SpsInv, Inv, TypeOK
<1>5. CASE AssignPort \/ StoreField
  <2>1. /\ UNCHANGED <<Port_Device, Comm_Configured, device_config, publishQueue, subscribeQueue>>
        /\ stage \in {"list", "storing"} /\ stage' \in {"storing", "assigned"}
    BY <1>5 DEF AssignPort, StoreField, queues
  <2>2. HeadConfigured' /\ HeadSaved'
    BY <2>1 DEF HeadConfigured, HeadSaved, GoneThrough
  <2>3. UsedConfigured' /\ QueueFollows'
    BY <2>1 DEF SpsInv, UsedConfigured, QueueFollows
  <2>4. SpsAgrees'
    BY <1>0, <1>1, <1>2, <2>1, ConfiguringKeepsSettled
  <2> QED
    BY <1>3, <2>2, <2>3, <2>4
<1>6. CASE MarkConfigured
  <2>1. /\ Port_Device' = [Port_Device EXCEPT ![head.port] = head.device]
        /\ Comm_Configured' = [Comm_Configured EXCEPT ![head.port] = TRUE]
        /\ device_config' = [device_config EXCEPT ![head.port] = list[at]]
        /\ stage = "assigned" /\ stage' = "configured"
        /\ UNCHANGED <<publishQueue, subscribeQueue, at>>
    BY <1>6 DEF MarkConfigured, Saved, queues
  <2>2. HeadConfigured'
    BY <2>1 DEF HeadConfigured, GoneThrough
  <2>3. HeadSaved'
    <3>1. ASSUME head.port \notin passedOver PROVE at = 1
      <4>1. Len(list) = 1
        BY <1>2, <3>1 DEF SpsInv, Calling
      <4>2. at <= Len(list)
        BY <2>1 DEF SpsInv, Inv, HeadInRange, Stages
      <4> QED
        BY <1>4, <4>1, <4>2
    <3>2. device_config'[head.port] = list[at]
      BY <1>2, <1>4, <2>1
    <3> QED
      BY <1>0, <1>1, <3>1, <3>2 DEF HeadSaved, head
  <2>4. \A p \in Ports :
          /\ p = head.port => Comm_Configured'[p]
          /\ p # head.port => /\ Comm_Configured'[p] = Comm_Configured[p]
                              /\ Port_Device'[p] = Port_Device[p]
                              /\ device_config'[p] = device_config[p]
    BY <1>4, <2>1, Zenon
  <2>5. UsedConfigured'
    BY <2>4 DEF SpsInv, UsedConfigured
  <2>6. QueueFollows'
    BY <1>1, <2>1, <2>4 DEF SpsInv, QueueFollows
  <2>7. SpsAgrees'
    BY <1>0, <1>1, <1>2, <2>1, <2>4, ConfiguringKeepsSettled
  <2> QED
    BY <1>3, <2>2, <2>3, <2>5, <2>6, <2>7
<1>7. CASE CreatePublishQueue \/ CreateSubscribeQueue
  <2>1. /\ UNCHANGED <<Port_Device, Comm_Configured, device_config>>
        /\ stage \in {"configured", "published"} /\ stage' \in {"list", "published"}
    BY <1>7 DEF CreatePublishQueue, CreateSubscribeQueue, MakeSubscribeQueue
  <2>2. \A p \in Ports :
          /\ publishQueue[p] => publishQueue'[p]
          /\ p = head.port => publishQueue'[p]
          /\ p # head.port => publishQueue'[p] = publishQueue[p] /\ subscribeQueue'[p] = subscribeQueue[p]
    <3>1. CASE CreatePublishQueue
      <4>1. publishQueue' = [publishQueue EXCEPT ![head.port] = TRUE] /\ UNCHANGED subscribeQueue
        BY <3>1 DEF CreatePublishQueue
      <4> QED
        BY <1>4, <4>1, Zenon
    <3>2. CASE CreateSubscribeQueue
      <4>1. publishQueue' = publishQueue /\ subscribeQueue' = [subscribeQueue EXCEPT ![head.port] = TRUE]
            /\ publishQueue[head.port]
        BY <3>2 DEF CreateSubscribeQueue, MakeSubscribeQueue, SpsInv, Inv, QueuesPaired
      <4> QED
        BY <1>4, <4>1, Zenon
    <3> QED
      BY <1>7, <3>1, <3>2
  <2>3. Comm_Configured[head.port]
    BY <2>1 DEF SpsInv, Inv, QueuesPaired
  <2>4. HeadConfigured'
    BY <1>1, <2>1, <2>3 DEF HeadConfigured
  <2>5. HeadSaved'
    BY <1>0, <1>1, <1>2, <2>1 DEF SpsInv, HeadSaved
  <2>6. UsedConfigured'
    BY <2>1 DEF SpsInv, UsedConfigured
  <2>7. QueueFollows'
    BY <2>1, <2>2 DEF SpsInv, QueueFollows
  <2>8. SpsAgrees'
    BY <1>0, <1>1, <1>2, <2>1, <2>2, ConfiguringKeepsSettled
  <2> QED
    BY <1>3, <2>4, <2>5, <2>6, <2>7, <2>8
<1> QED
  BY <1>5, <1>6, <1>7 DEF SpsConfigures

(* A descriptor is passed over: the port is in use, so it is configured.   *)
LEMMA PassedOverKeeps ==
  ASSUME SpsInv, SpsPassedOver
  PROVE  /\ SpsTypes' /\ Calling' /\ ReturnedOK' /\ HeadConfigured' /\ HeadSaved'
         /\ UsedConfigured' /\ QueueFollows' /\ SpsAgrees'
<1>1. /\ UNCHANGED <<Port_Device, Comm_Configured, device_config, publishQueue, subscribeQueue, list, stage>>
      /\ UNCHANGED <<Word_Width, Configured, typed, initializing, refused>>
      /\ passedOver' = passedOver \cup {head.port} /\ stage = "list" /\ ~MayAssign /\ head' = head
  BY DEF SpsPassedOver, SkipPort, tables, queues, spsTables, head
<1>2. initializing /\ head.port \in Ports
  BY <1>1 DEF SpsInv, Calling
<1>3. Comm_Configured[head.port]
  <2>1. InRange(head.port)
    BY <1>2, PortsAssumption DEF InRange, Ports
  <2>2. Port_Device[head.port] # 0
    BY <1>1, <2>1 DEF MayAssign, port_used
  <2> QED
    BY <1>2, <2>2 DEF SpsInv, UsedConfigured
<1>4. SpsTypes' /\ Calling' /\ ReturnedOK'
  BY <1>1, <1>2 DEF SpsInv, SpsTypes, Calling, ReturnedOK
<1>5. HeadConfigured' /\ HeadSaved'
  BY <1>1, <1>3 DEF HeadConfigured, HeadSaved
<1>6. UsedConfigured' /\ QueueFollows'
  BY <1>1 DEF SpsInv, UsedConfigured, QueueFollows
<1>7. SpsAgrees'
  BY <1>1, <1>2, ConfiguringKeepsSettled
<1> QED
  BY <1>4, <1>5, <1>6, <1>7

(* The steps that return: what must agree for the head's port does.        *)
LEMMA ReturnKeeps ==
  ASSUME SpsInv, SpsFails \/ SpsConfigured \/ SpsSucceeds \/ SpsReports
  PROVE  /\ SpsTypes' /\ Calling' /\ ReturnedOK' /\ HeadConfigured' /\ HeadSaved'
         /\ UsedConfigured' /\ QueueFollows' /\ SpsAgrees'
<1>1. /\ UNCHANGED <<Port_Device, Comm_Configured, device_config, publishQueue, subscribeQueue, list, at>>
      /\ UNCHANGED <<Word_Width, Configured>> /\ head' = head
  BY DEF SpsFails, RefusePort, SpsConfigured, EndOfList, SpsSucceeds, SpsReports, Report_Port_Status,
    tables, queues, spsTables, head
<1>2. UsedConfigured' /\ SpsTypes'
  BY <1>1 DEF SpsInv, UsedConfigured, SpsTypes
<1>3. QueueFollows'
  <2>1. stage = "configured" => stage' = "configured"
    BY DEF SpsFails, RefusePort, SpsConfigured, EndOfList, SpsSucceeds, SpsReports, Report_Port_Status
  <2> QED
    BY <1>1, <2>1 DEF SpsInv, QueueFollows
<1>4. CASE SpsConfigured
  <2>1. /\ UNCHANGED <<initializing, passedOver, refused, typed>> /\ stage = "list" /\ stage' = "idle"
        /\ at > Len(list)
    BY <1>4 DEF SpsConfigured, EndOfList, spsTables, spsHistory
  <2>2. initializing /\ list \in Lists
    BY <2>1 DEF SpsInv, Calling
  <2>3. at > 1
    <3>1. Len(list) \in Nat \ {0} /\ at \in Nat
      BY <2>1, <2>2, HeadOf, HeadIs DEF SpsInv, Inv
    <3> QED
      BY <2>1, <3>1
  <2>4. Calling' /\ ReturnedOK' /\ HeadConfigured' /\ HeadSaved'
    BY <1>1, <2>1, <2>2, <2>3 DEF SpsInv, Calling, ReturnedOK, HeadConfigured, HeadSaved, GoneThrough
  <2>5. SpsAgrees'
    BY <1>1, <2>1 DEF SpsInv, SpsAgrees, Settled
  <2> QED
    BY <1>2, <1>3, <2>4, <2>5
<1>5. CASE SpsReports
  <2>1. UNCHANGED <<initializing, passedOver, refused, typed, stage>>
    BY <1>5 DEF SpsReports, Report_Port_Status, spsTables, spsHistory
  <2>2. Calling' /\ ReturnedOK' /\ HeadConfigured' /\ HeadSaved'
    BY <1>1, <2>1 DEF SpsInv, Calling, ReturnedOK, HeadConfigured, HeadSaved, GoneThrough
  <2>3. SpsAgrees'
    BY <1>1, <2>1 DEF SpsInv, SpsAgrees, Settled
  <2> QED
    BY <1>2, <1>3, <2>2, <2>3
<1>6. CASE SpsFails \/ SpsSucceeds
  <2>1. ~initializing' /\ stage' = "idle"
    BY <1>6 DEF SpsFails, RefusePort, SpsSucceeds, Report_Port_Status
  <2>2. Calling' /\ ReturnedOK' /\ HeadConfigured' /\ HeadSaved'
    BY <2>1 DEF Calling, ReturnedOK, HeadConfigured, HeadSaved
  <2>3. initializing /\ head.port \in Ports
    BY <1>6 DEF SpsFails, RefusePort, SpsSucceeds, SpsInv, Calling
  <2>4. refused \subseteq refused' /\ typed \subseteq typed' /\ passedOver \subseteq passedOver'
    BY <1>6 DEF SpsFails, SpsSucceeds, spsTables, spsHistory
  <2>5. /\ head.port \in refused' \/ (Comm_Configured[head.port] /\ publishQueue[head.port] /\ subscribeQueue[head.port])
        /\ head.port \in passedOver' \/ Word_Width[head.port] = device_config[head.port]
        /\ head.port \in refused' \cup typed'
    <3>1. CASE SpsFails
      BY <3>1 DEF SpsFails
    <3>2. CASE SpsSucceeds
      <4>1. stage = "idle" /\ typed' = typed \cup {head.port} /\ passedOver' = passedOver
        BY <3>2 DEF SpsSucceeds, spsHistory
      <4>2. GoneThrough
        BY <2>3, <4>1 DEF SpsInv, ReturnedOK, GoneThrough
      <4>3. Comm_Configured[head.port] /\ publishQueue[head.port]
        BY <2>3, <4>1, <4>2 DEF SpsInv, HeadConfigured, QueueFollows
      <4>4. subscribeQueue[head.port]
        BY <2>3, <4>1, <4>3 DEF SpsInv, Inv, QueuesPaired
      <4>5. head.port \in passedOver \/ Word_Width[head.port] = device_config[head.port]
        BY <2>3, <4>2 DEF SpsInv, Calling, HeadSaved
      <4> QED
        BY <4>1, <4>3, <4>4, <4>5
    <3> QED
      BY <1>6, <3>1, <3>2
  <2>6. ASSUME NEW p \in Configured
        PROVE  /\ p \in refused' \/ (Comm_Configured[p] /\ publishQueue[p] /\ subscribeQueue[p])
               /\ p \in passedOver' \/ Word_Width[p] = device_config[p]
               /\ p \in refused' \cup typed'
    <3>1. CASE p = head.port
      BY <2>5, <3>1
    <3>2. CASE p # head.port
      <4>1. Settled(p)
        BY <3>2 DEF Settled
      <4> QED
        BY <2>4, <4>1 DEF SpsInv, SpsAgrees
    <3> QED
      BY <3>1, <3>2
  <2>7. SpsAgrees'
    BY <1>1, <2>6 DEF SpsAgrees
  <2> QED
    BY <1>2, <1>3, <2>2, <2>7
<1> QED
  BY <1>4, <1>5, <1>6

LEMMA SpsInitInv == SpsInit => SpsInv
<1> SUFFICES ASSUME SpsInit PROVE SpsInv
  OBVIOUS
<1>1. Inv
  BY InitInv DEF SpsInit
<1>2. SpsTypes /\ Calling /\ ReturnedOK /\ HeadConfigured /\ HeadSaved /\ SpsAgrees
  BY DEF SpsInit, Init, SpsTypes, Calling, ReturnedOK, HeadConfigured, HeadSaved, SpsAgrees
<1>3. UsedConfigured /\ QueueFollows
  BY Zenon DEF SpsInit, Init, UsedConfigured, QueueFollows
<1> QED
  BY <1>1, <1>2, <1>3 DEF SpsInv

(* Once the calls for a port have returned, what the protocol noted of it  *)
(* agrees with the tables of the layer below, whichever way they returned. *)
THEOREM Agrees == SpsSpec => []SpsAgrees
<1>1. ASSUME SpsInv, [SpsNext]_spsVars PROVE SpsInv'
  <2>1. Inv'
    BY <1>1, SpsKeepsInv DEF SpsInv
  <2>2. CASE \E descriptors \in Lists : Initialize_SPS_Interface(descriptors)
    BY <1>1, <2>1, <2>2, SpsBeginKeeps DEF SpsInv
  <2>3. CASE SpsConfigures
    BY <1>1, <2>1, <2>3, ConfiguresKeeps DEF SpsInv
  <2>4. CASE SpsPassedOver
    BY <1>1, <2>1, <2>4, PassedOverKeeps DEF SpsInv
  <2>5. CASE SpsFails \/ SpsConfigured \/ SpsSucceeds \/ SpsReports
    BY <1>1, <2>1, <2>5, ReturnKeeps DEF SpsInv
  <2>6. CASE UNCHANGED spsVars
    <3>1. /\ UNCHANGED <<Port_Device, Comm_Configured, device_config, publishQueue, subscribeQueue, list, at, stage>>
          /\ UNCHANGED <<Word_Width, Configured, typed, initializing, refused, passedOver>> /\ head' = head
      BY <2>6 DEF spsVars, vars, tables, queues, spsTables, spsHistory, head
    <3>2. SpsTypes' /\ Calling' /\ ReturnedOK' /\ HeadConfigured' /\ HeadSaved'
      BY <1>1, <3>1 DEF SpsInv, SpsTypes, Calling, ReturnedOK, HeadConfigured, HeadSaved, GoneThrough
    <3>3. UsedConfigured' /\ QueueFollows' /\ SpsAgrees'
      BY <1>1, <3>1 DEF SpsInv, UsedConfigured, QueueFollows, SpsAgrees, Settled
    <3> QED
      BY <2>1, <3>2, <3>3 DEF SpsInv
  <2> QED
    BY <1>1, <2>2, <2>3, <2>4, <2>5, <2>6 DEF SpsNext
<1>2. SpsInv => SpsAgrees
  BY DEF SpsInv
<1> QED
  BY <1>1, <1>2, SpsInitInv, PTL DEF SpsSpec
=============================================================================
