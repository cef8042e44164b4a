------------------------ MODULE MCCapabilityLedger ------------------------
(* One router whose feed has lldpd require up to two libraries, and one    *)
(* tool of the operator that requires the first.                           *)
EXTENDS CapabilityLedger

MCRequires == [t \in Tools |-> {"libcap"}]
MCPackagePorts == {"loopback"}
=============================================================================
