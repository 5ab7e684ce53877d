---------------------------- MODULE MCNtdsPorts ----------------------------
(* NtdsPorts with more devices than ports, so that the table fills up.     *)
(* Configure_NTDS_Device is called by the SPS protocol, or by another one, *)
(* which keeps no tables that are modelled.  Devices are interchangeable:  *)
(* the one that is configured first is chosen once.                        *)
EXTENDS SpsInterface

VARIABLE protocol

Single == {<<d>> : d \in Descriptors}
Any == [device |-> 1, port |-> 0, flag |-> NTDS_PRIMARY_PORT]

(* One descriptor, or two of which the second differs in its flag only:    *)
(* the function looks at nothing else of it.                               *)
MCLists == Single \cup {<<d, [Any EXCEPT !.flag = f]>> :
                          d \in Descriptors, f \in {NTDS_PRIMARY_PORT, NTDS_SECONDARY_PORT}}
MCReadiness == {CHANNEL_FAILED_CONFIG, CHANNEL_READY}

ProtocolInit == SpsInit /\ protocol \in {"sps", "other"}

ProtocolNext ==
  /\ \/ protocol = "sps" /\ SpsNext
     \/ protocol = "other" /\ Next /\ UNCHANGED <<spsTables, initializing, spsHistory>>
  /\ calls' = 1 => head'.device = 1
  /\ UNCHANGED protocol

ProtocolSpec == ProtocolInit /\ [][ProtocolNext]_<<spsVars, protocol>>
=============================================================================
