----------------------------- MODULE MCNtdsComm -----------------------------
(* NtdsComm with two devices on two ports, whose queues may share a name.  *)
(* Lists have one descriptor, whose port is in range: NtdsPorts has the    *)
(* others.  Or, apart from it, ReceiveBuffer: what NtdsComm leaves out of  *)
(* Recv_NTDS_Mesg.  The variables of the other keep an initial value.      *)
(* Names are interchangeable, and devices are: the name of port 0 and the  *)
(* device that is configured first are chosen once.                        *)
EXTENDS NtdsComm, ReceiveBuffer

VARIABLE detail

MCLists == {<<d>> : d \in {e \in Descriptors : e.port < NumPorts}}
(* One of the callers has a port of its own.                               *)
MCSubscribeOf == [c \in Callers |-> IF c = (CHOOSE d \in Callers : TRUE) THEN 0 ELSE 1]

DetailInit ==
  /\ detail \in {"tables", "buffer"}
  /\ CommInit
  /\ BufferInit
  /\ queueName[0] = CHOOSE n \in Names : TRUE
  /\ detail = "buffer" => queueName = [p \in Ports |-> queueName[0]]

DetailNext ==
  /\ \/ /\ detail = "tables"
        /\ CommNext
        /\ calls' = 1 => head'.device = CHOOSE d \in Devices : TRUE
        /\ UNCHANGED bufferVars
     \/ detail = "buffer" /\ BufferNext /\ UNCHANGED commVars
  /\ UNCHANGED detail

(* The fairness of NtdsComm: where it stands aside no receiver polls.      *)
DetailSpec ==
  /\ DetailInit
  /\ [][DetailNext]_<<commVars, bufferVars, detail>>
  /\ \A r \in Receivers : WF_commVars(exit # "left" /\ PollStep(r))
=============================================================================
