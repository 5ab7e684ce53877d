-------------------------- MODULE MCQueueVariants --------------------------
(* The two other implementations of the shared-memory queue, in C and the  *)
(* older one for Win32.  They never meet in one process: a behavior is one *)
(* of either, and the variables of the other keep their initial values.    *)
EXTENDS InterprocessQueueC, Win32Queue

VARIABLE variant

VariantsInit == variant \in {"C", "Win32"} /\ Init /\ Win32Init

VariantsNext ==
  \/ variant = "C" /\ Next /\ UNCHANGED <<variant, winVars>>
  \/ variant = "Win32" /\ Win32Next /\ UNCHANGED <<variant, vars>>

VariantsSpec == VariantsInit /\ [][VariantsNext]_<<variant, vars, winVars>>
=============================================================================
