------------------------ MODULE MCDeviceTransactions ------------------------
(* Instances of DeviceTransactions for TLC. *)
EXTENDS DeviceTransactions, TLC

CONSTANTS c1, c2, w1, w2, l1, o1, o2

OneAddress == [o \in Devs |-> "addr"]
=============================================================================
