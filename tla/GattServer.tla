----------------------------- MODULE GattServer -----------------------------
(***************************************************************************)
(* What the helper (bluepy-helper.c) does with the packets the device      *)
(* sends on its own: it has no attributes and refuses every request.  An   *)
(* operator gives the set of what is sent back: Nothing if no packet is,   *)
(* and no element at all if an assertion fails, which ends the process.    *)
(***************************************************************************)
EXTENDS AttPdu

ReqNotSupp == 6

Asserted(holds, answers) == IF holds THEN answers ELSE {}

\* (A mutant: the error names no handle.)
RefuseUnnamed(pdu, handle) == {EncErrorResp(pdu[1], 0, ReqNotSupp)}

Refuse(pdu, handle) == {EncErrorResp(pdu[1], handle, ReqNotSupp)}

GattsFindInfoReq(pdu) == Asserted(Len(pdu) = 5, Refuse(pdu, At16(pdu, 2)))
GattsFindByTypeReq(pdu) == Asserted(Len(pdu) >= 7, Refuse(pdu, At16(pdu, 2)))
GattsReadByTypeReq(pdu) == Asserted(Len(pdu) \in {7, 21}, Refuse(pdu, At16(pdu, 2)))
GattsReadReq(pdu) == Asserted(Len(pdu) = 3, Refuse(pdu, At16(pdu, 2)))
GattsReadBlobReq(pdu) == Asserted(Len(pdu) = 5, Refuse(pdu, At16(pdu, 2)))
GattsReadMultiReq(pdu) == Asserted(Len(pdu) >= 5, Refuse(pdu, At16(pdu, 2)))
GattsReadByGroupReq(pdu) == Asserted(Len(pdu) >= 7, Refuse(pdu, At16(pdu, 2)))
GattsWriteReq(pdu) == Asserted(Len(pdu) >= 3, Refuse(pdu, At16(pdu, 2)))
GattsWriteCmd(pdu) == Asserted(Len(pdu) >= 3, {Nothing})
GattsSignedWriteCmd(pdu) == Asserted(Len(pdu) >= 15, {Nothing})

\* The handle is kept in eight bits.
GattsPrepWriteReq(pdu) == Asserted(Len(pdu) >= 5, Refuse(pdu, At16(pdu, 2) % 256))

GattsExecWriteReq(pdu) == Asserted(Len(pdu) = 5, Refuse(pdu, 0))

\* events_handler: an indication is confirmed.
EventsHandler(pdu) ==
  Asserted(Len(pdu) >= 3, {IF pdu[1] = 29 THEN EncConfirmation ELSE Nothing})

\* The handlers that connect_cb registers.
Registered(pdu) ==
  CASE pdu[1] \in {27, 29} -> EventsHandler(pdu)
    [] pdu[1] = 4 -> GattsFindInfoReq(pdu)
    [] pdu[1] = 6 -> GattsFindByTypeReq(pdu)
    [] pdu[1] = 8 -> GattsReadByTypeReq(pdu)
    [] pdu[1] = 10 -> GattsReadReq(pdu)
    [] pdu[1] = 12 -> GattsReadBlobReq(pdu)
    [] pdu[1] = 14 -> GattsReadMultiReq(pdu)
    [] pdu[1] = 16 -> GattsReadByGroupReq(pdu)
    [] pdu[1] = 18 -> GattsWriteReq(pdu)
    [] pdu[1] = 82 -> GattsWriteCmd(pdu)
    [] pdu[1] = 210 -> GattsSignedWriteCmd(pdu)
    [] pdu[1] = 22 -> GattsPrepWriteReq(pdu)
    [] pdu[1] = 24 -> GattsExecWriteReq(pdu)

\* handle_notify refuses a request that has no handler.
NotSupported(pdu) == {EncErrorResp(pdu[1], 0, ReqNotSupp)}

Served(pdu) == IF pdu[1] = 2 THEN NotSupported(pdu) ELSE Registered(pdu)
=============================================================================
