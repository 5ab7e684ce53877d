---------------------------- MODULE SpsInterface ----------------------------
(***************************************************************************)
(* Initialize_SPS_Interface, the one function of the SPS protocol that is  *)
(* code: it notes what it needs to know of the port, calls                 *)
(* Configure_NTDS_Device and, if that returns OK, reports the port reset.  *)
(* The protocol thus keeps tables of its own beside those of NtdsPorts,    *)
(* and writes its own before it knows what becomes of the others.          *)
(***************************************************************************)
EXTENDS NtdsPorts

CONSTANT MaxInits   \* bound: calls of Initialize_SPS_Interface

ASSUME SpsAssumption == MaxInits \in Nat

VARIABLES
  Word_Width,    \* port -> the descriptor its word width was taken from
  Configured,    \* the ports marked in the protocol's own table
  Local_Disable, \* the ports that the application has disabled
  typed,         \* the ports whose interface type and message sizes are set
  initializing,  \* a call is under way
  refused,       \* history: ports for which Configure_NTDS_Device has failed
  passedOver     \* history: ports whose latest call configured another descriptor, or none

spsTables == <<Word_Width, Configured, Local_Disable, typed>>
spsHistory == <<refused, passedOver>>
spsVars == <<vars, spsTables, initializing, spsHistory>>

SpsInit ==
  /\ Init
  /\ Word_Width = [p \in Ports |-> EmptyConfig]
  /\ Configured = {}
  /\ Local_Disable = {}
  /\ typed = {}
  /\ initializing = FALSE
  /\ refused = {}
  /\ passedOver = {}

(* Mutant: the width is stored for a port that is not marked yet.          *)
StoreWidthMutant(d) ==
  Word_Width' = IF d.port \in Configured THEN Word_Width
                                         ELSE [Word_Width EXCEPT ![d.port] = d]
StoreWidth(d) == Word_Width' = [Word_Width EXCEPT ![d.port] = d]

(* A port out of range is written past the tables: no caller may give one. *)
Initialize_SPS_Interface(descriptors) ==
  LET d == descriptors[1] IN
  /\ ~initializing
  /\ calls < MaxInits
  /\ d.port \in Ports
  /\ StoreWidth(d)
  /\ Configured' = Configured \cup {d.port}
  /\ Local_Disable' = Local_Disable \cup {d.port}
  /\ initializing' = TRUE
  /\ passedOver' = IF Len(descriptors) = 1 THEN passedOver \ {d.port}
                                           ELSE passedOver \cup {d.port}
  /\ Configure_NTDS_Device(descriptors)
  /\ UNCHANGED <<typed, refused>>

SpsConfigures ==
  /\ \/ AssignPort
     \/ StoreField
     \/ MarkConfigured
     \/ CreatePublishQueue
     \/ CreateSubscribeQueue
  /\ UNCHANGED <<spsTables, initializing, spsHistory>>

SpsPassedOver ==
  /\ SkipPort
  /\ passedOver' = passedOver \cup {head.port}
  /\ UNCHANGED <<spsTables, initializing, refused>>

(* The error is returned, and what was written stays.                      *)
SpsFails ==
  /\ RefusePort
  /\ initializing' = FALSE
  /\ refused' = refused \cup {head.port}
  /\ passedOver' = passedOver \cup {head.port}
  /\ UNCHANGED spsTables

SpsConfigured ==
  /\ EndOfList
  /\ UNCHANGED <<spsTables, initializing, spsHistory>>

(* Also for a port that was passed over.                                   *)
SpsSucceeds ==
  /\ initializing
  /\ stage = "idle"
  /\ Report_Port_Status(head.port, CHANNEL_RESET)
  /\ typed' = typed \cup {head.port}
  /\ initializing' = FALSE
  /\ UNCHANGED <<Word_Width, Configured, Local_Disable, spsHistory>>

SpsReports ==
  /\ \E p \in Ports, s \in Readiness : Report_Port_Status(p, s)
  /\ UNCHANGED <<spsTables, initializing, spsHistory>>

SpsNext ==
  \/ \E descriptors \in Lists : Initialize_SPS_Interface(descriptors)
  \/ SpsConfigures
  \/ SpsPassedOver
  \/ SpsFails
  \/ SpsConfigured
  \/ SpsSucceeds
  \/ SpsReports

SpsSpec == SpsInit /\ [][SpsNext]_spsVars
----------------------------------------------------------------------------
(* Properties *)

Settled(p) == ~(initializing /\ head.port = p)

(* Once the calls for a port have returned, what the protocol noted agrees *)
(* with the tables of the layer below.  A port that it has marked is       *)
(* configured and has its queues, also one that was passed over (another   *)
(* device has it), unless Configure_NTDS_Device failed; the width is that  *)
(* of the saved descriptor unless the latest call was passed over, failed  *)
(* or had more descriptors than the head; and only a failed call leaves a  *)
(* port marked whose type and sizes were never set.                        *)
SpsAgrees ==
  \A p \in Configured :
    Settled(p) =>
      /\ p \in refused \/ (Comm_Configured[p] /\ publishQueue[p] /\ subscribeQueue[p])
      /\ p \in passedOver \/ Word_Width[p] = device_config[p]
      /\ p \in refused \cup typed
=============================================================================
