---------------------------- MODULE MCHelperSession ----------------------------
(* Small instances of HelperSession. *)
EXTENDS HelperSession

AllUses ==
  {{"connect", "svcs", "desc", "disconnect"},
   {"connect", "rd", "wrr", "wr", "waitForNotifications", "disconnect"},
   {"connect", "mtu"},
   {"connect", "secu", "status"},
   {"connect", "pair", "unpair", "local_oob"},
   {"scan"}, {"scan", "passive"}, {"scan", "foreign"}}

\* BLE_Device's use of a Peripheral: the MTU is exchanged when it connects.
DeviceUses == {{"connect", "mtu", "disconnect"}}
=============================================================================
