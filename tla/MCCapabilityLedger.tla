------------------------ MODULE MCCapabilityLedger ------------------------
(***************************************************************************)
(* Small instances of CapabilityLedger for TLC.                            *)
(***************************************************************************)
EXTENDS CapabilityLedger

CONSTANTS mcp, plugin, offer1, offer2, k1

OneOwner == [o \in {offer1} |-> k1]
SameOwner == [o \in {offer1, offer2} |-> k1]
=============================================================================
