---------------------------- MODULE PduExchange ----------------------------
(***************************************************************************)
(* Every packet of AttPdu, written with small arguments and read at the    *)
(* other end; the ones a device may send on its own also reach the helper. *)
(***************************************************************************)
EXTENDS GattServer

CONSTANTS
  Handles,   \* handles and offsets
  Uuids,     \* UUIDs of two and of sixteen octets
  Values,    \* values of attributes
  Lens,      \* lengths of the buffer
  Signature  \* the twelve octets of a signature

ASSUME PduAssumption ==
  /\ Handles \subseteq Word /\ Values \subseteq Bytes
  /\ \A u \in Uuids : u \in Bytes /\ Len(u) \in {2, 16}
  /\ \A n \in Lens : n \in Word /\ n >= 23    \* ATT_DEFAULT_LE_MTU, and an MTU has sixteen bits
  /\ Signature \in Bytes /\ Len(Signature) = 12

VARIABLES
  message,   \* what is to be sent
  pdu,       \* the packet, <<>> if there is none
  answers    \* what the helper sends back

exchange == <<message, pdu, answers>>

Requests == {"find_info_req", "find_by_type_req", "read_by_type_req", "read_req", "read_blob_req",
             "read_by_grp_req", "write_req", "prep_write_req", "exec_write_req", "mtu_req"}
Pushed == {"write_cmd", "signed_write_cmd", "notification", "indication"}
Responses == {"read_by_grp_resp", "find_by_type_resp", "read_by_type_resp", "find_info_resp",
              "read_resp", "write_resp", "prep_write_resp", "exec_write_resp", "mtu_resp"}

\* A list of entries of one length, and a list of ranges.
Entry(start, m) == Le16(start) \o Le16(m.end) \o <<0>> \o m.value
List(m) == <<Entry(m.start, m), Entry(m.end, m)>>
Infos(m) == <<Le16(m.start) \o PutUuidLe(m.uuid), Le16(m.end) \o PutUuidLe(m.uuid)>>
Ranges(m) == <<<<m.start, m.end>>, <<m.end, m.end>>>>

Encode(m) ==
  CASE m.kind = "read_by_grp_req" -> EncReadByGrpReq(m.start, m.end, m.uuid)
    [] m.kind = "read_by_grp_resp" -> EncReadByGrpResp(List(m), m.len)
    [] m.kind = "find_by_type_req" -> EncFindByTypeReq(m.start, m.end, m.uuid, m.value, m.len)
    [] m.kind = "find_by_type_resp" -> EncFindByTypeResp(Ranges(m), m.len)
    [] m.kind = "read_by_type_req" -> EncReadByTypeReq(m.start, m.end, m.uuid)
    [] m.kind = "read_by_type_resp" -> EncReadByTypeResp(List(m), m.len)
    [] m.kind = "find_info_req" -> EncFindInfoReq(m.start, m.end)
    [] m.kind = "find_info_resp" -> EncFindInfoResp(Len(m.uuid) \div 9 + 1, Infos(m), m.len)
    [] m.kind = "write_cmd" -> EncWriteCmd(m.start, m.value, m.len)
    [] m.kind = "signed_write_cmd" -> EncSignedWriteCmd(m.start, m.value, Signature, m.len)
    [] m.kind = "write_req" -> EncWriteReq(m.start, m.value, m.len)
    [] m.kind = "write_resp" -> EncWriteResp
    [] m.kind = "read_req" -> EncReadReq(m.start)
    [] m.kind = "read_resp" -> EncReadResp(m.value, m.len)
    [] m.kind = "read_blob_req" -> EncReadBlobReq(m.start, m.end)
    [] m.kind = "prep_write_req" -> EncPrepWriteReq(m.start, m.end, m.value, m.len)
    [] m.kind = "prep_write_resp" -> EncPrepWriteResp(m.start, m.end, m.value, m.len)
    [] m.kind = "exec_write_req" -> EncExecWriteReq(m.start)
    [] m.kind = "exec_write_resp" -> EncExecWriteResp
    [] m.kind = "notification" -> EncNotification(m.start, m.value, m.len)
    [] m.kind = "indication" -> EncIndication(m.start, m.value, m.len)
    [] m.kind = "mtu_req" -> EncMtuReq(m.start)
    [] m.kind = "mtu_resp" -> EncMtuResp(m.start)

\* A notification is read by the helper, and not by att.c.
Decode(kind, p) ==
  CASE kind = "read_by_grp_req" -> DecReadByGrpReq(p)
    [] kind = "read_by_grp_resp" -> DecReadByGrpResp(p)
    [] kind = "find_by_type_req" -> DecFindByTypeReq(p)
    [] kind = "find_by_type_resp" -> DecFindByTypeResp(p)
    [] kind = "read_by_type_req" -> DecReadByTypeReq(p)
    [] kind = "read_by_type_resp" -> DecReadByTypeResp(p)
    [] kind = "find_info_req" -> DecFindInfoReq(p)
    [] kind = "find_info_resp" -> DecFindInfoResp(p)
    [] kind = "write_cmd" -> DecWriteCmd(p)
    [] kind = "signed_write_cmd" -> DecSignedWriteCmd(p)
    [] kind = "write_req" -> DecWriteReq(p)
    [] kind = "write_resp" -> DecWriteResp(p)
    [] kind = "read_req" -> DecReadReq(p)
    [] kind = "read_resp" -> DecReadResp(p, Len(p))
    [] kind = "read_blob_req" -> DecReadBlobReq(p)
    [] kind = "prep_write_req" -> DecPrepWriteReq(p)
    [] kind = "prep_write_resp" -> DecPrepWriteResp(p)
    [] kind = "exec_write_req" -> DecExecWriteReq(p)
    [] kind = "exec_write_resp" -> DecExecWriteResp(p)
    [] kind = "indication" -> DecIndication(p, Len(p))
    [] kind = "mtu_req" -> DecMtuReq(p)
    [] kind = "mtu_resp" -> DecMtuResp(p)

\* What the reader should understand: the arguments, and of a value or a list
\* the part that the buffer holds.
Upto(value, n) == IF Len(value) <= n THEN value ELSE SubSeq(value, 1, n)

Meaning(m) ==
  CASE m.kind \in {"read_by_grp_req", "read_by_type_req"} ->
         [start |-> m.start, end |-> m.end, uuid |-> m.uuid]
    [] m.kind = "find_by_type_req" ->
         [start |-> m.start, end |-> m.end, uuid |-> m.uuid, value |-> Upto(m.value, m.len - 7)]
    [] m.kind = "find_info_req" -> [start |-> m.start, end |-> m.end]
    [] m.kind = "find_by_type_resp" -> Upto(Ranges(m), (m.len - 1) \div 4)
    [] m.kind = "read_by_grp_resp" -> Upto(List(m), (m.len - 2) \div (Len(m.value) + 5))
    [] m.kind = "read_by_type_resp" ->
         IF Len(m.value) + 7 > m.len THEN <<Upto(List(m)[1], m.len - 2)>>
         ELSE Upto(List(m), (m.len - 2) \div (Len(m.value) + 5))
    [] m.kind = "find_info_resp" ->
         [format |-> IF Len(m.uuid) = 2 THEN 1 ELSE 2,
          list |-> Upto(Infos(m), (m.len - 2) \div (Len(m.uuid) + 2))]
    [] m.kind \in {"write_cmd", "write_req"} ->
         [handle |-> m.start, value |-> Upto(m.value, m.len - 3)]
    [] m.kind = "signed_write_cmd" ->
         [handle |-> m.start, value |-> Upto(m.value, m.len - 15), signature |-> Signature]
    [] m.kind \in {"write_resp", "exec_write_resp"} -> 1
    [] m.kind = "read_req" -> [handle |-> m.start]
    [] m.kind = "read_resp" -> Upto(m.value, m.len - 1)
    [] m.kind = "read_blob_req" -> [handle |-> m.start, offset |-> m.end]
    [] m.kind \in {"prep_write_req", "prep_write_resp"} ->
         [handle |-> m.start, offset |-> m.end, value |-> Upto(m.value, m.len - 5)]
    [] m.kind = "exec_write_req" -> [flags |-> m.start]
    [] m.kind = "indication" -> [handle |-> m.start, value |-> m.value]
    [] m.kind \in {"mtu_req", "mtu_resp"} -> [mtu |-> m.start]

----------------------------------------------------------------------------
Messages ==
  [kind : Requests \cup Pushed \cup Responses, start : Handles, end : Handles,
   uuid : Uuids, value : Values, len : Lens]

XInit ==
  /\ message \in Messages
  /\ pdu = Nothing
  /\ answers = {Nothing}

\* A packet that does not fit is not sent.
Send ==
  /\ pdu = Nothing
  /\ pdu' = Encode(message)
  /\ pdu' # Nothing
  /\ UNCHANGED <<message, answers>>

\* The device sent it.
Serve ==
  /\ pdu # Nothing
  /\ message.kind \in Requests \cup Pushed
  /\ answers' = Served(pdu)
  /\ UNCHANGED <<message, pdu>>

XNext == Send \/ Serve

XSpec == XInit /\ [][XNext]_exchange

----------------------------------------------------------------------------
(* Properties *)

\* Each dec_ function of att.c understands what its enc_ function wrote, at both
\* ends of the handles and when the buffer cuts a value or a list.  The response
\* to a prepared write is left out: dec_prep_write_resp (l.1177) tests for the
\* opcode of the request, and reads none.
RoundTrip ==
  pdu # Nothing /\ message.kind \notin {"prep_write_resp", "notification"} =>
    Decode(message.kind, pdu) = {Meaning(message)}

\* No packet is longer than the buffer: bt_att_send (att.c, l.288 of shared/)
\* would refuse it, and the command would get no answer.
WithinBuffer == Len(pdu) <= message.len

\* The handle that the refusal of a request names.
Blamed(m) ==
  CASE m.kind = "prep_write_req" -> m.start % 256
    [] m.kind = "mtu_req" -> 0
    [] OTHER -> m.start

\* The helper refuses every request of the device with the request's own opcode and
\* code 6, "request not supported" (l.342-534): the device can tell which of its
\* requests failed.  The handle is the request's own too, with two exceptions that
\* the code makes and the formula states: of a prepared write only the low eight bits
\* come back (l.506), which is the handle only below 256, and an exchange of the MTU,
\* which has no handler, names none.  An execute write is never answered: it has two
\* octets, the handler asserts five (l.528), and the process ends.
RefusedAsAsked ==
  /\ message.kind \in Requests =>
       \A a \in answers \ {Nothing} :
         /\ a[1] = 1 /\ a[2] = pdu[1] /\ a[5] = ReqNotSupp
         /\ At16(a, 3) = Blamed(message)
  /\ message.kind = "exec_write_req" => answers \subseteq {Nothing}
=============================================================================
