------------------------------- MODULE AttPdu -------------------------------
(***************************************************************************)
(* The packets of the attribute protocol (attrib/att.c): what each enc_    *)
(* function writes into a buffer of len octets, and what each dec_         *)
(* function reads from a packet.  A packet is the sequence of its octets,  *)
(* <<>> where the C function returns 0.  A dec_ function gives the set of  *)
(* its results: no element where it returns 0 or NULL, one otherwise.      *)
(* A UUID is the sequence of its 2 or 16 octets, most significant first.   *)
(***************************************************************************)
EXTENDS Naturals, Sequences, SequencesExt

\* uint8_t, strings of them, and uint16_t.
Byte == 0..255
Bytes == Seq(Byte)
Word == 0..65535

Nothing == <<>>

Least(a, b) == IF a < b THEN a ELSE b

Le16(n) == <<n % 256, n \div 256>>
At16(pdu, i) == pdu[i] + 256 * pdu[i + 1]

\* put_uuid_le and get_uuid: the octets are the other way round on the wire.
PutUuidLe(uuid) == Reverse(uuid)
GetUuid(octets) == Reverse(octets)

\* (A mutant: a value is never cut.)
FittingAll(value, header, len) == value

\* As many octets of the value as fit behind the header.
Fitting(value, header, len) == SubSeq(value, 1, Least(Len(value), len - header))

\* A dec_ function: one result if the packet is good.
Decoded(good, result) == IF good THEN {result} ELSE {}
Octets(pdu, i) == SubSeq(pdu, i, Len(pdu))

\* att_data_list: the octets from i on, in entries of elen octets.
DataList(pdu, i, elen) ==
  [k \in 1..((Len(pdu) + 1 - i) \div elen) |->
     SubSeq(pdu, i + (k - 1) * elen, i + k * elen - 1)]

\* att_data_list_alloc makes no list of longer entries.
Longest == 255

\* The octets of the first n entries.
Joined(list, elen, n) ==
  [k \in 1..(elen * n) |-> list[1 + ((k - 1) \div elen)][1 + ((k - 1) % elen)]]

\* The entries that fit behind two octets of header.
Entries(list, elen, len) == Joined(list, elen, Least(Len(list), (len - 2) \div elen))

----------------------------------------------------------------------------
(* Discovery *)

EncReadByGrpReq(start, end, uuid) == <<16>> \o Le16(start) \o Le16(end) \o PutUuidLe(uuid)

DecReadByGrpReq(pdu) ==
  Decoded(pdu[1] = 16 /\ Len(pdu) \in {7, 21},
          [start |-> At16(pdu, 2), end |-> At16(pdu, 4), uuid |-> GetUuid(Octets(pdu, 6))])

EncReadByGrpResp(list, len) ==
  LET elen == Len(list[1])
  IN IF elen > Longest \/ len < elen + 2 THEN Nothing ELSE <<17, elen>> \o Entries(list, elen, len)

DecReadByGrpResp(pdu) ==
  IF pdu[1] # 17 \/ Len(pdu) < 7 \/ pdu[2] < 5 THEN {}
  ELSE Decoded((Len(pdu) - 2) % pdu[2] = 0, DataList(pdu, 3, pdu[2]))

EncFindByTypeReq(start, end, uuid, value, len) ==
  IF Len(uuid) # 2 THEN Nothing
  ELSE <<6>> \o Le16(start) \o Le16(end) \o PutUuidLe(uuid) \o Fitting(value, 7, len)

DecFindByTypeReq(pdu) ==
  IF Len(pdu) < 7 \/ pdu[1] # 6 THEN {}
  ELSE {[start |-> At16(pdu, 2), end |-> At16(pdu, 4),
         uuid |-> GetUuid(SubSeq(pdu, 6, 7)), value |-> Octets(pdu, 8)]}

\* A match is the pair of the first and the last handle of a range.
EncFindByTypeResp(matches, len) ==
  <<7>> \o Joined([k \in DOMAIN matches |-> Le16(matches[k][1]) \o Le16(matches[k][2])], 4,
                 Least(Len(matches), (len - 1) \div 4))

DecFindByTypeResp(pdu) ==
  IF Len(pdu) < 5 \/ pdu[1] # 7 THEN {}
  ELSE Decoded((Len(pdu) - 1) % 4 = 0,
               [k \in 1..((Len(pdu) - 1) \div 4) |->
                  <<At16(pdu, 4 * k - 2), At16(pdu, 4 * k)>>])

EncReadByTypeReq(start, end, uuid) == <<8>> \o Le16(start) \o Le16(end) \o PutUuidLe(uuid)

DecReadByTypeReq(pdu) ==
  Decoded(Len(pdu) \in {7, 21} /\ pdu[1] = 8,
          [start |-> At16(pdu, 2), end |-> At16(pdu, 4), uuid |-> GetUuid(Octets(pdu, 6))])

\* Entries that are too long are cut.
Cut(list, l) == [k \in DOMAIN list |-> SubSeq(list[k], 1, l)]

EncReadByTypeResp(list, len) ==
  LET l == Least(len - 2, Len(list[1]))
  IN IF Len(list[1]) > Longest THEN Nothing
     ELSE <<9, l>> \o Entries(Cut(list, l), l, len)

DecReadByTypeResp(pdu) ==
  IF pdu[1] # 9 \/ Len(pdu) < 5 \/ pdu[2] < 3 THEN {}
  ELSE Decoded((Len(pdu) - 2) % pdu[2] = 0, DataList(pdu, 3, pdu[2]))

EncFindInfoReq(start, end) == <<4>> \o Le16(start) \o Le16(end)

DecFindInfoReq(pdu) ==
  Decoded(Len(pdu) >= 5 /\ pdu[1] = 4, [start |-> At16(pdu, 2), end |-> At16(pdu, 4)])

EncFindInfoResp(format, list, len) ==
  LET elen == Len(list[1])
  IN IF elen > Longest \/ len < elen + 2 THEN Nothing ELSE <<5, format>> \o Entries(list, elen, len)

\* (A mutant: the entries are as long as their UUIDs.)
DecFindInfoRespShort(pdu) ==
  LET elen == CASE pdu[2] = 1 -> 2 [] pdu[2] = 2 -> 16 [] OTHER -> 1
  IN Decoded(pdu[1] = 5, [format |-> pdu[2], list |-> DataList(pdu, 3, elen)])

\* An incomplete last entry is dropped.
DecFindInfoResp(pdu) ==
  LET elen == 2 + (CASE pdu[2] = 1 -> 2 [] pdu[2] = 2 -> 16 [] OTHER -> 0)
  IN Decoded(pdu[1] = 5, [format |-> pdu[2], list |-> DataList(pdu, 3, elen)])

----------------------------------------------------------------------------
(* Values *)

EncWriteCmd(handle, value, len) == <<82>> \o Le16(handle) \o Fitting(value, 3, len)

DecWriteCmd(pdu) ==
  Decoded(Len(pdu) >= 3 /\ pdu[1] = 82, [handle |-> At16(pdu, 2), value |-> Octets(pdu, 4)])

\* The signature is 12 octets behind the value.
EncSignedWriteCmd(handle, value, signature, len) ==
  <<210>> \o Le16(handle) \o Fitting(value, 15, len) \o signature

DecSignedWriteCmd(pdu) ==
  Decoded(Len(pdu) >= 15 /\ pdu[1] = 210,
          [handle |-> At16(pdu, 2), value |-> SubSeq(pdu, 4, Len(pdu) - 12),
           signature |-> Octets(pdu, Len(pdu) - 11)])

EncWriteReq(handle, value, len) == <<18>> \o Le16(handle) \o Fitting(value, 3, len)

DecWriteReq(pdu) ==
  Decoded(Len(pdu) >= 3 /\ pdu[1] = 18, [handle |-> At16(pdu, 2), value |-> Octets(pdu, 4)])

EncWriteResp == <<19>>
DecWriteResp(pdu) == Decoded(pdu[1] = 19, Len(pdu))

EncReadReq(handle) == <<10>> \o Le16(handle)
DecReadReq(pdu) == Decoded(Len(pdu) >= 3 /\ pdu[1] = 10, [handle |-> At16(pdu, 2)])

EncReadBlobReq(handle, offset) == <<12>> \o Le16(handle) \o Le16(offset)

DecReadBlobReq(pdu) ==
  Decoded(Len(pdu) >= 5 /\ pdu[1] = 12, [handle |-> At16(pdu, 2), offset |-> At16(pdu, 4)])

EncReadResp(value, len) == <<11>> \o Fitting(value, 1, len)
EncReadBlobResp(value, offset, len) == <<13>> \o Fitting(Octets(value, offset + 1), 1, len)

\* The value must fit in room octets.
DecReadResp(pdu, room) == Decoded(pdu[1] = 11 /\ Len(pdu) - 1 <= room, Octets(pdu, 2))

EncPrepWriteReq(handle, offset, value, len) ==
  <<22>> \o Le16(handle) \o Le16(offset) \o Fitting(value, 5, len)

DecPrepWriteReq(pdu) ==
  Decoded(Len(pdu) >= 5 /\ pdu[1] = 22,
          [handle |-> At16(pdu, 2), offset |-> At16(pdu, 4), value |-> Octets(pdu, 6)])

EncPrepWriteResp(handle, offset, value, len) ==
  <<23>> \o Le16(handle) \o Le16(offset) \o Fitting(value, 5, len)

\* It tests for the opcode of the request.
DecPrepWriteResp(pdu) ==
  Decoded(Len(pdu) >= 5 /\ pdu[1] = 22,
          [handle |-> At16(pdu, 2), offset |-> At16(pdu, 4), value |-> Octets(pdu, 6)])

EncExecWriteReq(flags) == IF flags > 1 THEN Nothing ELSE <<24, flags>>
DecExecWriteReq(pdu) == Decoded(Len(pdu) >= 2 /\ pdu[1] = 24, [flags |-> pdu[2]])

EncExecWriteResp == <<25>>
DecExecWriteResp(pdu) == Decoded(Len(pdu) >= 1 /\ pdu[1] = 25, Len(pdu))

----------------------------------------------------------------------------
(* The rest *)

EncErrorResp(opcode, handle, status) == <<1, opcode>> \o Le16(handle) \o <<status>>

EncNotification(handle, value, len) ==
  IF len < Len(value) + 3 THEN Nothing ELSE <<27>> \o Le16(handle) \o value

EncIndication(handle, value, len) ==
  IF len < Len(value) + 3 THEN Nothing ELSE <<29>> \o Le16(handle) \o value

\* As many octets as fit in room.
DecIndication(pdu, room) ==
  IF pdu[1] # 29 \/ Len(pdu) < 3 THEN {}
  ELSE {[handle |-> At16(pdu, 2), value |-> SubSeq(pdu, 4, 3 + Least(Len(pdu) - 3, room))]}

EncConfirmation == <<30>>

EncMtuReq(mtu) == <<2>> \o Le16(mtu)
DecMtuReq(pdu) == Decoded(Len(pdu) >= 3 /\ pdu[1] = 2, [mtu |-> At16(pdu, 2)])
EncMtuResp(mtu) == <<3>> \o Le16(mtu)
DecMtuResp(pdu) == Decoded(Len(pdu) >= 3 /\ pdu[1] = 3, [mtu |-> At16(pdu, 2)])
=============================================================================
