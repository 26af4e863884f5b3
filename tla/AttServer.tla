------------------------------ MODULE AttServer ------------------------------
(***************************************************************************)
(* The attribute server of a device, which is not part of the repository:  *)
(* what a device that follows the protocol answers to the requests of      *)
(* gatt.c.  An attribute is [handle, type, value, end]: end is the last    *)
(* handle of its group.  Reply is [pdu, attrs, prepared]: the response and *)
(* what becomes of the attributes and of the queue of prepared writes.     *)
(***************************************************************************)
EXTENDS AttPdu, Queue

InvalidHandle == 1
InvalidOffset == 7
NotFound == 10
NotLong == 11

\* A member of the set that is there.
The(s) == CHOOSE x \in s : TRUE

Answering(pdu, attrs, prepared) == [pdu |-> pdu, attrs |-> attrs, prepared |-> prepared]

\* The attributes that a request asks for, and the leading ones of one size.
Asked(attrs, r, wanted) ==
  [range |-> r,
   list |-> RemoveAll(attrs, {a \in ToSet(attrs) : a \notin wanted \/ a.handle \notin r.start..r.end})]
Leading(list, sizes) ==
  LET others == {k \in DOMAIN list : sizes[k] # sizes[1]}
  IN IF others = {} THEN list ELSE SubSeq(list, 1, Min(others) - 1)

OfOneValueSize(list) == Leading(list, [k \in DOMAIN list |-> Len(list[k].value)])
OfOneTypeSize(list) == Leading(list, [k \in DOMAIN list |-> Len(list[k].type)])

\* The entries of the responses.
Groups(list) == [k \in DOMAIN list |-> Le16(list[k].handle) \o Le16(list[k].end) \o list[k].value]
HandleRanges(list) == [k \in DOMAIN list |-> <<list[k].handle, list[k].end>>]
HandleValues(list) == [k \in DOMAIN list |-> Le16(list[k].handle) \o list[k].value]
HandleTypes(list) == [k \in DOMAIN list |-> Le16(list[k].handle) \o PutUuidLe(list[k].type)]

\* An error if nothing is there, or else the response.
Unless(pdu, q, response) ==
  IF q.range.start = 0 \/ q.range.start > q.range.end THEN EncErrorResp(pdu[1], q.range.start, InvalidHandle)
  ELSE IF q.list = <<>> THEN EncErrorResp(pdu[1], q.range.start, NotFound)
  ELSE response

OfType(attrs, type) == {a \in ToSet(attrs) : a.type = type}

AnswerGroups(pdu, q, len) == Unless(pdu, q, EncReadByGrpResp(Groups(OfOneValueSize(q.list)), len))
AnswerRanges(pdu, q, len) == Unless(pdu, q, EncFindByTypeResp(HandleRanges(q.list), len))
AnswerValues(pdu, q, len) == Unless(pdu, q, EncReadByTypeResp(HandleValues(OfOneValueSize(q.list)), len))
AnswerTypes(pdu, q, len) ==
  Unless(pdu, q, EncFindInfoResp(IF Len(q.list[1].type) = 2 THEN 1 ELSE 2,
                                 HandleTypes(OfOneTypeSize(q.list)), len))

Discover(pdu, attrs, len) ==
  CASE pdu[1] = 16 ->
         {AnswerGroups(pdu, q, len) :
            q \in {Asked(attrs, r, OfType(attrs, r.uuid)) : r \in DecReadByGrpReq(pdu)}}
    [] pdu[1] = 6 ->
         {AnswerRanges(pdu, q, len) :
            q \in {Asked(attrs, r, {a \in OfType(attrs, r.uuid) : a.value = r.value}) :
                     r \in DecFindByTypeReq(pdu)}}
    [] pdu[1] = 8 ->
         {AnswerValues(pdu, q, len) :
            q \in {Asked(attrs, r, OfType(attrs, r.uuid)) : r \in DecReadByTypeReq(pdu)}}
    [] pdu[1] = 4 ->
         {AnswerTypes(pdu, q, len) : q \in {Asked(attrs, r, ToSet(attrs)) : r \in DecFindInfoReq(pdu)}}

\* The attribute of a handle; 0 if there is none.
At(attrs, handle) == FirstMatch(attrs, {a \in ToSet(attrs) : a.handle = handle})

\* The parts of a value, in order, assembled from their offsets on.
Assembled(value, parts) ==
  LET assembled[k \in 0..Len(parts)] ==
        IF k = 0 THEN value ELSE SubSeq(assembled[k - 1], 1, parts[k].offset) \o parts[k].value
  IN assembled[Len(parts)]

\* A value that one request holds.
OnePart(value) == <<[offset |-> 0, value |-> value]>>

Overwrite(attrs, handle, parts) ==
  [attrs EXCEPT ![At(attrs, handle)].value = Assembled(@, parts)]

\* The answers to a request for a value (one is written at a time); a device may
\* say that a value that one packet holds is not long.
Access(pdu, attrs, prepared, len) ==
  LET Same(response) == Answering(response, attrs, prepared)
      Fail(r, code) == Same(EncErrorResp(pdu[1], r.handle, code))
      Value(r) == attrs[At(attrs, r.handle)].value
      Known(r, replies) == IF At(attrs, r.handle) = 0 THEN {Fail(r, InvalidHandle)} ELSE replies
  IN CASE pdu[1] = 10 ->
            LET r == The(DecReadReq(pdu)) IN Known(r, {Same(EncReadResp(Value(r), len))})
       [] pdu[1] = 12 ->
            LET r == The(DecReadBlobReq(pdu))
            IN Known(r,
                 (IF r.offset > Len(Value(r)) THEN {Fail(r, InvalidOffset)}
                  ELSE {Same(EncReadBlobResp(Value(r), r.offset, len))})
                 \cup (IF Len(Value(r)) < len THEN {Fail(r, NotLong)} ELSE {}))
       [] pdu[1] = 18 ->
            LET r == The(DecWriteReq(pdu))
            IN Known(r, {Answering(EncWriteResp, Overwrite(attrs, r.handle, OnePart(r.value)), prepared)})
       [] pdu[1] = 22 ->
            LET r == The(DecPrepWriteReq(pdu))
            IN Known(r, {Answering(EncPrepWriteResp(r.handle, r.offset, r.value, len),
                                   attrs, Append(prepared, r))})
       [] pdu[1] = 24 ->
            {Answering(EncExecWriteResp,
                       IF prepared = <<>> \/ The(DecExecWriteReq(pdu)).flags = 0 THEN attrs
                       ELSE Overwrite(attrs, prepared[1].handle, prepared),
                       <<>>)}
       [] pdu[1] = 2 -> {Same(EncMtuResp(len))}

Replies(pdu, attrs, prepared, len) ==
  IF pdu[1] \in {4, 6, 8, 16} THEN {Answering(p, attrs, prepared) : p \in Discover(pdu, attrs, len)}
  ELSE Access(pdu, attrs, prepared, len)
==============================================================================
