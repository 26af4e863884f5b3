---------------------------- MODULE MCGattClient ----------------------------
\* Values of the constants of GattClient for TLC.
EXTENDS GattClient

Short(n) == <<160, n>>
Long(n) == <<1, 2, 3, 4, 5, 6, 7, 8, 9, 10, 11, 12, 13, 14, 15, n>>
Value(n) == [k \in 1..n |-> k % 256]

Attr(handle, type, value, end) == [handle |-> handle, type |-> type, value |-> value, end |-> end]
Service(h, end, uuid) == Attr(h, PrimSvc, Reverse(uuid), end)
Includes1(h, s, end, uuid) ==
  Attr(h, Include, Le16(s) \o Le16(end) \o (IF Len(uuid) = 2 THEN Reverse(uuid) ELSE <<>>), h)
Char(h, uuid) == Attr(h, Charac, <<2>> \o Le16(h + 1) \o Reverse(uuid), h)
Desc(h, uuid) == Attr(h, uuid, Value(2), h)

\* More services of 16 bits than a packet holds, then one of 128, and the last
\* one to the last handle.
Sensor ==
  << Service(1, 1, Short(1)), Service(2, 2, Short(2)), Service(3, 3, Short(1)),
     Service(4, 5, Short(4)), Desc(5, Short(9)), Service(6, 7, Long(1)), Desc(7, Long(9)),
     Service(8, 65535, Short(1)),
     Char(9, Short(3)), Desc(10, Short(3)), Char(11, Short(4)), Desc(12, Short(4)),
     Char(13, Short(3)), Desc(14, Short(3)), Desc(15, <<41, 2>>), Char(16, Short(5)), Desc(17, Short(5)),
     Char(18, Long(3)), Desc(19, Long(3)), Desc(20, <<41, 2>>) >>

\* The services end before the last handle; included services of both kinds.
Hub ==
  << Service(1, 9, Long(7)),
     Includes1(2, 20, 21, Short(1)), Includes1(3, 22, 23, Short(2)), Includes1(4, 24, 25, Short(3)),
     Includes1(5, 26, 27, Long(1)), Includes1(6, 28, 28, Long(2)), Includes1(7, 29, 30, Short(6)),
     Char(8, Long(4)), Desc(9, Long(4)),
     Service(20, 21, Short(1)), Desc(21, Short(8)), Service(22, 23, Short(2)), Service(24, 25, Short(3)),
     Service(26, 27, Long(1)), Service(28, 28, Long(2)), Service(29, 30, Short(6)), Desc(30, Long(5)) >>

\* A value of n octets.
Valued(n) == << Service(1, 3, Short(1)), Char(2, Short(2)), Attr(3, Short(2), Value(n), 3) >>

Lengths == {0, 1, 17, 18, 19, 20, 21, 22, 23, 36, 43, 44, 45, 66, 67, 100}
Call(proc, from, to, uuid) ==
  [proc |-> proc, start |-> from, end |-> to, uuid |-> uuid, handle |-> 3, value |-> <<>>]
Written(proc, n) == [Call(proc, 1, 1, <<>>) EXCEPT !.value = Reverse(Value(n))]

Discoveries ==
  {Call("primary", 1, 1, u) : u \in {<<>>, Short(1), Long(1), Short(7)}}
    \cup {Call("included", r[1], r[2], <<>>) : r \in {<<1, 9>>, <<2, 4>>, <<2, 7>>, <<20, 65535>>}}
    \cup {Call("char", r[1], r[2], u) : r \in {<<8, 9>>, <<8, 65535>>, <<1, 17>>, <<9, 30>>, <<20, 30>>},
                                        u \in {<<>>, Short(3), Long(3)}}
    \cup {Call("desc", r[1], r[2], u) : r \in {<<9, 20>>, <<15, 15>>, <<1, 65535>>, <<13, 15>>, <<31, 40>>},
                                        u \in {<<>>, <<41, 2>>, Long(9)}}
Values ==
  {Call("read", 1, 1, <<>>), Call("read_by_uuid", 1, 9, Short(2)), Call("execute", 0, 0, <<>>),
   Call("execute", 1, 0, <<>>), Call("mtu", 0, 0, <<>>)}
    \cup {Written(proc, n) : proc \in {"write", "reliable"}, n \in Lengths}

Case(as, c, n) == [attrs |-> as, call |-> c, mtu |-> n]
MCCases ==
  {Case(as, c, 23) : as \in {Sensor, Hub}, c \in Discoveries}
    \cup {Case(Valued(n), c, 23) : n \in Lengths, c \in Values}
    \cup {Case(Hub, c, 25) : c \in Discoveries}
    \cup {Case(Valued(n), c, 24) : n \in {0, 23, 43, 100}, c \in Values}

\* Entries of a wrong length, and handles that go back or do not move.
Entry(h, n) == Le16(h) \o Le16(h) \o Value(n)
MCOdd ==
  {<<17, 6>> \o Entry(0, 2), <<17, 6>> \o Entry(3, 2), <<17, 7>> \o Entry(3, 3), <<17, 6, 1>>,
   <<7>> \o Entry(0, 0), <<7>> \o Entry(3, 0), <<7, 1>>,
   <<9, 6>> \o Entry(3, 2), <<9, 7>> \o Entry(0, 3), <<9, 7>> \o Entry(9, 3), <<9, 8>> \o Entry(9, 4),
   <<9, 7, 1>>, <<5, 1>>, <<5, 1>> \o Le16(1) \o Short(9), <<5, 1>> \o Le16(15) \o Short(9)}

\* Lists that end at the last handle.
LastHandle == {<<9, 7>> \o Entry(65535, 3)}
LastEntries ==
  LastHandle \cup {<<17, 6>> \o Entry(65535, 2), <<7>> \o Entry(65535, 0),
                   <<9, 8>> \o Entry(65535, 4), <<5, 1>> \o Le16(65535) \o Short(9)}
AnyOdd == MCOdd \cup LastEntries
=============================================================================
