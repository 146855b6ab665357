------------------------------ MODULE MCGateway ------------------------------
(* Small instances of Gateway: one device and one gateway process.  Of two   *)
(* requests served at the same time, the second is a poll of desired state.  *)
EXTENDS Gateway

CONSTANTS d1, g1, h1, h2, p1

MCDeviceOf == [p \in Proc |-> d1]
MCReplicaOf == [h \in Handler |-> g1]
MCTakes == [h \in Handler |-> IF h = h1 THEN {"report", "connect", "desired"} ELSE {"desired"}]
==============================================================================
