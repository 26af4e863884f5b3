----------------------------- MODULE GattClient -----------------------------
(***************************************************************************)
(* The procedures of the attribute protocol (attrib/gatt.c): a procedure   *)
(* sends a request, and the callback of each response looks for the next   *)
(* one to send, or reports what it has found.  One procedure runs, on a    *)
(* device that follows the protocol (AttServer) or not, over a connection  *)
(* that may be lost.                                                       *)
(***************************************************************************)
EXTENDS AttServer

CONSTANTS
  Cases,     \* the attributes of a device, a procedure with its arguments, and the MTU
  Odd        \* responses to a discovery that do not follow from the attributes; those to
             \* a request for a value do, or are an error

VARIABLES
  attrs,     \* the device: its attributes ...
  prepared,  \* ... and its queue of prepared writes
  honest,    \* it has followed the protocol so far
  mtu,
  up,        \* the connection is up
  call,      \* the procedure
  line,      \* the requests that bt_att_send has queued: callback, packet, argument
  reply,     \* the response to the first of them, <<>> if there is none yet
  start,     \* start of struct discover_primary and the like
  found,     \* their list of results, as a set
  buffer,    \* the value read so far: the buffer of struct read_long_data
  offset,    \* offset of struct write_long_data
  err,       \* err of struct included_discovery
  outcome    \* what the callback of the caller was given, each time it was called

device == <<attrs, prepared, honest, up>>
context == <<start, found, buffer, offset, err>>
vars == <<device, mtu, call, line, reply, context, outcome>>

Unlikely == 14
InvalidPdu == 4
Io == 128

Highest == 65535
PrimSvc == <<40, 0>>
Include == <<40, 2>>
Charac == <<40, 3>>

\* bt_uuid_to_uuid128, and put_uuid_le before it.
Uuid128(uuid) ==
  IF Len(uuid) = 16 THEN uuid
  ELSE <<0, 0>> \o uuid \o <<0, 0, 16, 0, 128, 0, 0, 128, 95, 155, 52, 251>>

GetUuid128(octets) == Uuid128(GetUuid(octets))

\* A device that follows the protocol: attributes in the order of their handles,
\* declarations of the lengths that they have, services that do not overlap, and
\* the value of a characteristic behind its declaration.
Attribute == [handle : Word \ {0}, type : Bytes, value : Bytes, end : Word]

Device(db) ==
  /\ db \in Seq(Attribute)
  /\ \A i, j \in 1..Len(db) : i < j => db[i].handle < db[j].handle
  /\ \A a \in ToSet(db) :
       /\ Len(a.type) \in {2, 16} /\ Len(a.value) <= Highest
       /\ a.type = PrimSvc =>
            /\ Len(a.value) \in {2, 16} /\ a.handle <= a.end
            /\ \A b \in OfType(db, PrimSvc) : a.handle < b.handle => a.end < b.handle
       /\ a.type = Include =>
            /\ Len(a.value) \in {4, 6}
            /\ LET i == At(db, At16(a.value, 1))
               IN /\ i # 0
                  /\ IF Len(a.value) = 4 THEN Len(db[i].value) = 16 ELSE db[i].value = SubSeq(a.value, 5, 6)
       /\ a.type = Charac =>
            /\ Len(a.value) \in {5, 19} /\ a.handle # Highest
            /\ \A b \in OfType(db, Charac) : b.handle # a.handle + 1

\* Arguments that the helper gives: a range of handles, a UUID of the length that the
\* device writes it in, a handle that is there.
Procs == {"primary", "included", "char", "desc", "read", "read_by_uuid", "write", "reliable",
          "execute", "mtu"}

Arguable(db, c) ==
  /\ c.proc \in Procs
  /\ c.start \in Word /\ c.end \in Word /\ c.handle \in Word
  /\ c.uuid \in Bytes /\ Len(c.uuid) \in {0, 2, 16}
  /\ c.value \in Bytes /\ Len(c.value) <= Highest
  /\ c.proc \in {"included", "char", "desc"} => 0 < c.start /\ c.start <= c.end
  /\ c.proc = "primary" =>
       \A a \in OfType(db, PrimSvc) :
         Uuid128(c.uuid) = GetUuid128(a.value) => c.uuid \in {<<>>, GetUuid(a.value)}
  /\ c.proc \in {"read", "write"} => At(db, c.handle) # 0
  /\ c.proc = "read_by_uuid" => c.uuid # <<>>
  /\ c.proc = "execute" => c.start \in {0, 1}

ASSUME CasesAssumption ==
  \A c \in Cases : Device(c.attrs) /\ Arguable(c.attrs, c.call) /\ c.mtu \in Word /\ c.mtu >= 23

ASSUME OddAssumption ==
  \A p \in Odd : p \in Bytes /\ Len(p) >= 2 /\ p[1] \in {5, 7, 9, 17}

Init ==
  /\ \E c \in Cases : attrs = c.attrs /\ call = c.call /\ mtu = c.mtu
  /\ prepared = <<>> /\ honest = TRUE /\ up = TRUE
  /\ line = <<>> /\ reply = <<>>
  /\ start = 0 /\ found = {} /\ buffer = <<>> /\ offset = 0 /\ err = 0
  /\ outcome = <<>>

----------------------------------------------------------------------------
(* Requests and responses *)

Request(cb, pdu, arg) == [cb |-> cb, pdu |-> pdu, arg |-> arg]

\* The first request of the procedure.
Begin(proc, pdu, cb) ==
  /\ call.proc = proc
  /\ line = <<>> /\ outcome = <<>>
  /\ line' = <<Request(cb, pdu, 0)>>
  /\ UNCHANGED <<device, mtu, call, reply, found, buffer, offset, err, outcome>>

\* The response to the first request.
Receive ==
  /\ up /\ line # <<>> /\ reply = <<>>
  /\ \/ \E r \in Replies(Head(line).pdu, attrs, prepared, mtu) :
          /\ reply' = r.pdu /\ attrs' = r.attrs /\ prepared' = r.prepared
          /\ UNCHANGED honest
     \/ /\ reply' \in {EncErrorResp(Head(line).pdu[1], 0, Unlikely)}
                      \cup {p \in Odd : p[1] = Head(line).pdu[1] + 1}
        /\ honest' = FALSE
        /\ UNCHANGED <<attrs, prepared>>
  /\ UNCHANGED <<up, mtu, call, line, context, outcome>>

\* The connection is lost: disconnect_cb of shared/att.c calls back every
\* request with an error that carries nothing.
Lost ==
  /\ up
  /\ up' = FALSE /\ honest' = FALSE
  /\ UNCHANGED <<attrs, prepared, mtu, call, line, reply, context, outcome>>

Dropped ==
  /\ ~up /\ line # <<>> /\ reply = <<>>
  /\ reply' = <<1>>
  /\ UNCHANGED <<device, mtu, call, line, context, outcome>>

\* attrib_callback_result.
Status == IF reply[1] # 1 THEN 0 ELSE IF Len(reply) < 5 THEN Unlikely ELSE reply[5]

\* The callback of the response.
Callback(cb) ==
  /\ line # <<>> /\ reply # <<>>
  /\ Head(line).cb = cb
  /\ reply' = <<>>
  /\ UNCHANGED <<device, mtu, call>>

\* The request is done, and these are sent.
Then(requests) == line' = Tail(line) \o requests

\* The procedure is done.
Finish(error) ==
  /\ Then(<<>>)
  /\ outcome' = Append(outcome, [err |-> error, found |-> found', buffer |-> buffer'])

Failed(error) == UNCHANGED <<start, found>> /\ Finish(error)

\* (A mutant: a handle has more than sixteen bits.)
AfterWide(handle) == handle + 1

\* The handle to go on with is kept in sixteen bits.
After(handle) == (handle + 1) % (Highest + 1)

----------------------------------------------------------------------------
(* Primary services *)

EncodeDiscoverPrimary(from, to, uuid) ==
  IF uuid = <<>> THEN EncReadByGrpReq(from, to, PrimSvc)
  ELSE EncFindByTypeReq(from, to, PrimSvc, PutUuidLe(uuid), mtu)

GattDiscoverPrimary ==
  /\ Begin("primary", EncodeDiscoverPrimary(1, Highest, call.uuid),
           IF call.uuid = <<>> THEN "primary_all" ELSE "primary_by_uuid")
  /\ start' = 1

\* (A mutant: the handle of the end is asked for again.)
PrimaryMoreAgain(cb, end) ==
  IF end < start THEN Finish(Unlikely) /\ UNCHANGED start
  ELSE /\ start' = end
       /\ Then(<<Request(cb, EncodeDiscoverPrimary(end, Highest, call.uuid), 0)>>)
       /\ UNCHANGED outcome

\* The services behind the last one found; a last handle below the start is
\* taken for an error.
PrimaryMore(cb, end) ==
  IF end < start THEN Finish(Unlikely) /\ UNCHANGED start
  ELSE /\ start' = end + 1
       /\ Then(<<Request(cb, EncodeDiscoverPrimary(end + 1, Highest, call.uuid), 0)>>)
       /\ UNCHANGED outcome

PrimaryByUuidCb ==
  /\ Callback("primary_by_uuid")
  /\ UNCHANGED <<buffer, offset, err>>
  /\ LET ranges == DecFindByTypeResp(reply)
     IN \/ Status # 0 /\ Failed(IF Status = NotFound THEN 0 ELSE Status)
        \/ Status = 0 /\ ranges = {} /\ Failed(0)
        \/ /\ Status = 0
           /\ \E list \in ranges :
                /\ found' = found \cup {[start |-> r[1], end |-> r[2], uuid |-> Uuid128(call.uuid)] :
                                        r \in ToSet(list)}
                /\ IF Last(list)[2] = Highest THEN Finish(0) /\ UNCHANGED start
                   ELSE PrimaryMore("primary_by_uuid", Last(list)[2])

PrimaryAllCb ==
  /\ Callback("primary_all")
  /\ UNCHANGED <<buffer, offset, err>>
  /\ LET lists == DecReadByGrpResp(reply)
     IN \/ Status # 0 /\ Failed(IF Status = NotFound THEN 0 ELSE Status)
        \/ Status = 0 /\ lists = {} /\ Failed(Io)
        \/ \E list \in lists :
             \/ Len(list[1]) \notin {6, 20} /\ Failed(InvalidPdu)
             \/ /\ Len(list[1]) \in {6, 20}
                /\ found' = found \cup {[start |-> At16(e, 1), end |-> At16(e, 3),
                                         uuid |-> GetUuid128(Octets(e, 5))] : e \in ToSet(list)}
                /\ LET end == At16(Last(list), 3)
                   IN IF end = Highest THEN Finish(0) /\ UNCHANGED start
                      ELSE PrimaryMore("primary_all", end)

----------------------------------------------------------------------------
(* Included services.  Each request holds a reference to the procedure; when *)
(* the last one is done isd_unref calls back.                                *)

GattFindIncluded ==
  /\ Begin("included", EncReadByTypeReq(call.start, call.end, Include), "included")
  /\ start' = call.start

\* resolve_included_uuid: the UUID of 16 octets is the value of the service.
Resolve(e) == Request("resolve", EncReadReq(At16(e, 3)), e)

\* (A mutant: the caller is called back when a request fails.)
IsdDoneEarly(error, requests) ==
  /\ err' = IF err = 0 THEN error ELSE err
  /\ Then(requests)
  /\ outcome' = IF line' = <<>> \/ err' # 0
                THEN Append(outcome, [err |-> err', found |-> found', buffer |-> buffer])
                ELSE outcome

IsdEnds(error, requests) ==
  /\ err' = error
  /\ Then(requests)
  /\ outcome' = IF line' = <<>>
                THEN Append(outcome, [err |-> err', found |-> IF err' = 0 THEN found' ELSE {},
                                      buffer |-> buffer])
                ELSE outcome

\* The first error is the one that is kept ...
IsdDone(error, requests) == IsdEnds(IF err = 0 THEN error ELSE err, requests)

Included(e, uuid) ==
  [handle |-> At16(e, 1), start |-> At16(e, 3), end |-> At16(e, 5), uuid |-> uuid]

\* ... but for a list that goes back, which is an error of its own.
FindIncludedCb ==
  /\ Callback("included")
  /\ UNCHANGED <<buffer, offset>>
  /\ LET lists == DecReadByTypeResp(reply)
     IN \/ /\ Status # 0
           /\ UNCHANGED <<start, found>>
           /\ IsdDone(IF Status = NotFound THEN 0 ELSE Status, <<>>)
        \/ /\ Status = 0 /\ \A list \in lists : Len(list[1]) \notin {6, 8}
           /\ UNCHANGED <<start, found>>
           /\ IsdDone(Io, <<>>)
        \/ \E list \in lists :
             LET last == At16(Last(list), 1)
                 resolved == IF Len(list[1]) = 6 THEN [k \in DOMAIN list |-> Resolve(list[k])] ELSE <<>>
                 more == Request("included", EncReadByTypeReq(After(last), call.end, Include), 0)
             IN /\ Len(list[1]) \in {6, 8}
                /\ found' = found \cup (IF Len(list[1]) = 6 THEN {}
                     ELSE {Included(e, GetUuid128(SubSeq(e, 7, 8))) : e \in ToSet(list)})
                /\ IF last < start
                   THEN IsdEnds(Unlikely, resolved) /\ UNCHANGED start
                   ELSE /\ start' = After(last)
                        /\ IsdDone(0, IF last < call.end THEN Append(resolved, more) ELSE resolved)

ResolveIncludedUuidCb ==
  /\ Callback("resolve")
  /\ UNCHANGED <<start, buffer, offset>>
  /\ LET values == DecReadResp(reply, mtu)
     IN \/ Status # 0 /\ UNCHANGED found /\ IsdDone(Status, <<>>)
        \/ /\ Status = 0 /\ \A v \in values : Len(v) # 16
           /\ UNCHANGED found /\ IsdDone(Io, <<>>)
        \/ \E v \in values :
             /\ Len(v) = 16
             /\ found' = found \cup {Included(Head(line).arg, GetUuid128(v))}
             /\ IsdDone(0, <<>>)

----------------------------------------------------------------------------
(* Characteristics and descriptors *)

GattDiscoverChar ==
  /\ Begin("char", EncReadByTypeReq(call.start, call.end, Charac), "char")
  /\ start' = call.start

Wanted(uuid) == call.uuid = <<>> \/ Uuid128(call.uuid) = uuid

Characteristic(e) ==
  [handle |-> At16(e, 1), properties |-> e[3], value_handle |-> At16(e, 4),
   uuid |-> GetUuid128(Octets(e, 6))]

\* Nothing more is there: an error only if nothing at all is.
NothingMore == Failed(IF found = {} THEN NotFound ELSE 0)

\* (A mutant: one packet is all there is.)
GoesOnNever(last, end) == FALSE

GoesOn(last, end) == last # 0 /\ After(last) < end

CharDiscoveredCb ==
  /\ Callback("char")
  /\ UNCHANGED <<buffer, offset, err>>
  /\ LET lists == DecReadByTypeResp(reply)
     IN \/ Status = NotFound /\ NothingMore
        \/ Status \notin {0, NotFound} /\ Failed(Status)
        \/ Status = 0 /\ lists = {} /\ Failed(Io)
        \/ \E list \in lists :
             LET last == At16(Last(list), 1)
             IN /\ found' = found \cup {c \in {Characteristic(e) : e \in ToSet(list)} : Wanted(c.uuid)}
                /\ IF last < start THEN Finish(Unlikely) /\ UNCHANGED start
                   ELSE /\ start' = After(last)
                        /\ IF GoesOn(last, call.end)
                           THEN /\ Then(<<Request("char", EncReadByTypeReq(start', call.end, Charac), 0)>>)
                                /\ UNCHANGED outcome
                           ELSE Finish(0)

GattDiscoverDesc ==
  /\ Begin("desc", EncFindInfoReq(call.start, call.end), "desc")
  /\ start' = call.start

Descriptor(e) == [handle |-> At16(e, 1), uuid |-> GetUuid128(Octets(e, 3))]

\* With a UUID, the first descriptor that has it ends the discovery.
DescDiscoveredCb ==
  /\ Callback("desc")
  /\ UNCHANGED <<buffer, offset, err>>
  /\ LET infos == DecFindInfoResp(reply)
     IN \/ Status = NotFound /\ NothingMore
        \/ Status \notin {0, NotFound} /\ Failed(Status)
        \/ Status = 0 /\ infos = {} /\ Failed(Io)
        \/ \E info \in infos :
             LET hit == IF call.uuid = <<>> THEN 0
                        ELSE FirstMatch(info.list, {e \in ToSet(info.list) : Wanted(Descriptor(e).uuid)})
                 seen == IF hit = 0 THEN info.list ELSE SubSeq(info.list, 1, hit)
                 last == IF seen = <<>> THEN Highest ELSE At16(Last(seen), 1)
             IN /\ found' = found \cup {d \in {Descriptor(e) : e \in ToSet(seen)} : Wanted(d.uuid)}
                /\ IF last < start THEN Finish(Unlikely) /\ UNCHANGED start
                   ELSE /\ start' = After(last)
                        /\ IF last < call.end /\ hit = 0
                           THEN /\ Then(<<Request("desc", EncFindInfoReq(start', call.end), 0)>>)
                                /\ UNCHANGED outcome
                           ELSE Finish(0)

----------------------------------------------------------------------------
(* Reading *)

GattReadChar ==
  /\ Begin("read", EncReadReq(call.handle), "read")
  /\ UNCHANGED start

GattReadCharByUuid ==
  /\ Begin("read_by_uuid", EncReadByTypeReq(call.start, call.end, call.uuid), "caller")
  /\ UNCHANGED start

\* (A mutant: a packet that is full is taken for the whole value.)
ReadLess(pdu) == TRUE

\* A packet that is not full holds the end of the value.
ReadAll(pdu) == Len(pdu) < mtu

Blob(from) == Then(<<Request("blob", EncReadBlobReq(call.handle, from), 0)>>)

\* The caller is given the packet, or what has been put together.
ReadCharHelper ==
  /\ Callback("read")
  /\ UNCHANGED <<start, found, offset, err>>
  /\ buffer' = Octets(reply, 2)
  /\ IF Status # 0 \/ ReadAll(reply) THEN Finish(Status)
     ELSE Blob(Len(reply) - 1) /\ UNCHANGED outcome

\* An error ends the value, which is reported as read.
ReadBlobHelper ==
  /\ Callback("blob")
  /\ UNCHANGED <<start, found, offset, err>>
  /\ IF Status # 0 \/ Len(reply) = 1 THEN UNCHANGED buffer /\ Finish(0)
     ELSE /\ buffer' = buffer \o Octets(reply, 2)
          /\ IF ReadAll(reply) THEN Finish(0)
             ELSE Blob(Len(buffer')) /\ UNCHANGED outcome

----------------------------------------------------------------------------
(* Writing *)

PrepareWrite(from) ==
  Request("prepare", EncPrepWriteReq(call.handle, from, Octets(call.value, from + 1), mtu), 0)

\* A value that one packet holds is written by one request.
GattWriteChar ==
  /\ IF Len(call.value) <= mtu - 3
     THEN Begin("write", EncWriteReq(call.handle, call.value, mtu), "caller")
     ELSE Begin("write", PrepareWrite(0).pdu, "prepare")
  /\ UNCHANGED start

PrepareWriteCb ==
  /\ Callback("prepare")
  /\ UNCHANGED <<start, found, buffer, err>>
  /\ IF Status # 0 THEN Finish(Status) /\ UNCHANGED offset
     ELSE /\ offset' = offset + Len(reply) - 5
          /\ Then(<<IF offset' = Len(call.value) THEN Request("caller", EncExecWriteReq(1), 0)
                    ELSE PrepareWrite(offset')>>)
          /\ UNCHANGED outcome

\* One packet of a write that the caller will execute or not.
GattReliableWriteChar ==
  /\ Begin("reliable", EncPrepWriteReq(call.handle, 0, call.value, mtu), "caller")
  /\ UNCHANGED start

GattExecuteWrite ==
  /\ Begin("execute", EncExecWriteReq(call.start), "caller")
  /\ UNCHANGED start

GattExchangeMtu ==
  /\ Begin("mtu", EncMtuReq(mtu), "caller")
  /\ UNCHANGED start

\* The callback of the caller itself.
CallerCb ==
  /\ Callback("caller")
  /\ UNCHANGED <<start, found, offset, err>>
  /\ buffer' = Octets(reply, 2)
  /\ Finish(Status)

----------------------------------------------------------------------------
Start ==
  \/ GattDiscoverPrimary \/ GattFindIncluded \/ GattDiscoverChar \/ GattDiscoverDesc
  \/ GattReadChar \/ GattReadCharByUuid
  \/ GattWriteChar \/ GattReliableWriteChar \/ GattExecuteWrite \/ GattExchangeMtu

Callbacks ==
  \/ PrimaryByUuidCb \/ PrimaryAllCb \/ FindIncludedCb \/ ResolveIncludedUuidCb
  \/ CharDiscoveredCb \/ DescDiscoveredCb
  \/ ReadCharHelper \/ ReadBlobHelper \/ PrepareWriteCb \/ CallerCb

Step == Start \/ Receive \/ Dropped \/ Callbacks

Next == Step \/ Lost

\* A request is answered, or times out and the connection is lost.
FairSpec == Init /\ [][Next]_vars /\ WF_vars(Step)

----------------------------------------------------------------------------
(* Properties *)

\* Types of the requests, of the responses and of the fields of the procedures.
TypeOK ==
  /\ honest \in BOOLEAN /\ up \in BOOLEAN
  /\ reply \in Bytes
  /\ \A r \in ToSet(line) :
       /\ r.cb \in {"primary_all", "primary_by_uuid", "included", "resolve", "char", "desc", "read",
                    "blob", "prepare", "caller"}
       /\ r.pdu \in Bytes
  /\ start \in 0..Highest /\ offset \in 0..Highest
  /\ err \in 0..255

Done == outcome # <<>>
Result == outcome[1]

\* The attributes that a discovery is to find, on the device itself.
Sought(type) == {a \in ToSet(attrs) : a.type = type /\ a.handle \in call.start..call.end}

Services ==
  {[start |-> a.handle, end |-> a.end, uuid |-> GetUuid128(a.value)] :
     a \in {b \in ToSet(attrs) : b.type = PrimSvc}}
Includes ==
  {Included(e, GetUuid128(attrs[At(attrs, At16(e, 3))].value)) :
     e \in {Le16(a.handle) \o a.value : a \in Sought(Include)}}
Characteristics ==
  {Characteristic(Le16(a.handle) \o a.value) : a \in Sought(Charac)}
Descriptors ==
  LET all == {[handle |-> a.handle, uuid |-> Uuid128(a.type)] :
                a \in {b \in ToSet(attrs) : b.handle \in call.start..call.end}}
  IN {d \in all :
        /\ Wanted(d.uuid)
        /\ call.uuid = <<>> \/ \A c \in all : Wanted(c.uuid) => d.handle <= c.handle}

Reference ==
  CASE call.proc = "primary" -> {s \in Services : Wanted(s.uuid)}
    [] call.proc = "included" -> Includes
    [] call.proc = "char" -> {c \in Characteristics : Wanted(c.uuid)}
    [] call.proc = "desc" -> Descriptors

\* A discovery on a device that follows the protocol finds what is there, all of
\* it and nothing else: however many packets the list takes, whatever lengths the
\* UUIDs have, and when the last service ends at the last handle.
FindsAll ==
  Done /\ honest /\ call.proc \in {"primary", "included", "char", "desc"} =>
    /\ Result.found = Reference
    /\ Result.err = 0 \/ (Result.err = NotFound /\ Reference = {})

\* A value is read whole, and a value is written whole, for every length: shorter
\* than a packet, just as long, or several packets.
WholeValues ==
  Done /\ honest /\ call.proc \in {"read", "write"} =>
    /\ Result.err = 0
    /\ attrs[At(attrs, call.handle)].value =
         IF call.proc = "read" THEN Result.buffer ELSE call.value
    /\ prepared = <<>>

\* The callback of the caller is called once (isd_unref, l.119, and the like):
\* not while a request of the procedure is under way, whatever comes back.
CalledOnce == Done => Len(outcome) = 1 /\ line = <<>>

\* "Let's stop search, otherwise we might enter infinite loop." (l.651, and l.266,
\* l.347, l.557, l.1093): every procedure ends.
EveryProcedureEnds == <>Done

\* The search of characteristics is behind the last handle: it starts from 0.
Strayed == call.proc = "char" /\ line # <<>> /\ start = 0

\* A discovery ends whatever lists the device answers, repeated, going back or
\* malformed, but for a search of characteristics whose list ends at the last handle
\* (l.658).  Reading and writing end on a device that follows the protocol, refuses or
\* is lost: what Odd leaves out is a device that gives full packets of a value for ever
\* (l.788), or takes nothing of a prepared write each time (l.916), which gatt.c goes on
\* asking for ever.
ProcedureEnds == <>(Done \/ Strayed)
=============================================================================
