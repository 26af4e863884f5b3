-------------------------- MODULE PduExchangeProofs --------------------------
(***************************************************************************)
(* Proofs about AttPdu and PduExchange, for every handle, UUID, value and  *)
(* length of the buffer: the octets that each enc_ function writes, that   *)
(* the dec_ function at the other end reads the arguments back, that no    *)
(* packet is longer than the buffer, and that a refusal names the request. *)
(* A packet is a header and the octets behind it (HeaderRest); a list is   *)
(* its entries one behind the other (Laid), which are cut out again at     *)
(* their places (ListBack).                                                *)
(***************************************************************************)
EXTENDS PduExchange, QueueProofs

\* Numbers of sixteen bits.
LEMMA WordIs ==
  ASSUME NEW n \in Word
  PROVE  n \in Nat /\ n <= 65535
BY DEF Word

\* A string of octets behind another.
LEMMA HeaderRest ==
  ASSUME NEW h \in Bytes, NEW x \in Bytes
  PROVE  /\ h \o x \in Bytes /\ Len(h \o x) = Len(h) + Len(x)
         /\ \A i \in 1..Len(h) : (h \o x)[i] = h[i]
         /\ \A i \in 1..Len(x) : (h \o x)[Len(h) + i] = x[i]
         /\ SubSeq(h \o x, 1, Len(h)) = h
         /\ Octets(h \o x, Len(h) + 1) = x
<1> DEFINE p == h \o x
<1>1. /\ p \in Bytes /\ Len(p) = Len(h) + Len(x)
      /\ \A i \in 1 .. Len(h) + Len(x) : p[i] = IF i <= Len(h) THEN h[i] ELSE x[i - Len(h)]
  BY ConcatProperties DEF Bytes
<1>2. Len(h) \in Nat /\ Len(x) \in Nat
  BY LenProperties DEF Bytes
<1>3. \A i \in 1..Len(x) : p[Len(h) + i] = x[i]
  BY <1>1, <1>2
<1>4. \A i \in 1..Len(h) : p[i] = h[i]
  BY <1>1, <1>2
<1>5. \A i \in 1..Len(p) : p[i] \in Byte
  BY <1>1, ElementOfSeq DEF Bytes
<1>6. SubSeq(p, 1, Len(h)) = h
  <2> DEFINE t == SubSeq(p, 1, Len(h))
  <2>1. /\ t \in Seq(Byte) /\ Len(t) = Len(h)
        /\ \A i \in 1..Len(h) : t[i] = p[i]
    BY <1>1, <1>2, <1>5, SubSeqProperties
  <2> HIDE DEF t
  <2> QED
    BY <2>1, <1>4, SeqEqual DEF t, Bytes
<1>7. Octets(p, Len(h) + 1) = x
  <2> DEFINE t == SubSeq(p, Len(h) + 1, Len(p))
  <2>1. /\ t \in Seq(Byte) /\ Len(t) = Len(x)
        /\ \A i \in 1..Len(x) : t[i] = p[Len(h) + i]
    <3>1. \A i \in (Len(h) + 1)..Len(p) : p[i] \in Byte
      BY <1>2, <1>5
    <3> HIDE DEF p
    <3>2. /\ t \in Seq(Byte)
          /\ Len(t) = IF Len(h) + 1 <= Len(p) THEN Len(p) - (Len(h) + 1) + 1 ELSE 0
          /\ \A i \in 1..(Len(p) - (Len(h) + 1) + 1) : t[i] = p[(Len(h) + 1) + i - 1]
      BY <1>1, <1>2, <3>1, SubSeqProperties
    <3> QED
      BY <1>1, <1>2, <3>2
  <2> HIDE DEF t
  <2>2. t = x
    BY <2>1, <1>3, SeqEqual DEF Bytes
  <2> QED
    BY <2>2 DEF t, Octets
<1> QED
  BY <1>1, <1>3, <1>4, <1>6, <1>7

\* An octet, and an octet before a string.
LEMMA OneOctet ==
  ASSUME NEW c \in Byte
  PROVE  <<c>> \in Bytes /\ Len(<<c>>) = 1 /\ <<c>>[1] = c
BY DEF Bytes

\* The two octets of a number of sixteen bits.
LEMMA Halves ==
  ASSUME NEW n \in Word
  PROVE  /\ Le16(n) \in Bytes /\ Len(Le16(n)) = 2
         /\ Le16(n)[1] \in Byte /\ Le16(n)[2] \in Byte
         /\ Le16(n)[1] + 256 * Le16(n)[2] = n
         /\ (n % 256) = Le16(n)[1]
<1>1. (n % 256) \in 0..255 /\ n \div 256 \in 0..255 /\ (n % 256) + 256 * (n \div 256) = n
  BY DEF Word
<1> QED
  BY <1>1 DEF Le16, Byte, Bytes

\* An opcode and a number.
LEMMA OpcodeHandle ==
  ASSUME NEW c \in Byte, NEW n \in Word
  PROVE  /\ <<c>> \o Le16(n) \in Bytes /\ Len(<<c>> \o Le16(n)) = 3
         /\ (<<c>> \o Le16(n))[1] = c /\ At16(<<c>> \o Le16(n), 2) = n
<1> DEFINE a == <<c>>
           b == Le16(n)
           p == a \o b
<1>1. a \in Bytes /\ b \in Bytes /\ Len(a) = 1 /\ Len(b) = 2 /\ a[1] = c
      /\ b[1] + 256 * b[2] = n
  BY OneOctet, Halves
<1> HIDE DEF a, b
<1>2. /\ p \in Bytes /\ Len(p) = Len(a) + Len(b)
      /\ \A i \in 1..Len(a) : p[i] = a[i]
      /\ \A i \in 1..Len(b) : p[Len(a) + i] = b[i]
  BY <1>1, HeaderRest
<1> HIDE DEF p
<1>3. Len(p) = 3 /\ p[1] = a[1] /\ p[2] = b[1] /\ p[2 + 1] = b[2]
  BY <1>1, <1>2
<1>4. At16(p, 2) = n
  BY <1>1, <1>3 DEF At16
<1> QED
  BY <1>1, <1>2, <1>3, <1>4 DEF a, b, p

\* A number behind a string.
LEMMA NumberAt ==
  ASSUME NEW h \in Bytes, NEW n \in Word
  PROVE  /\ h \o Le16(n) \in Bytes /\ Len(h \o Le16(n)) = Len(h) + 2
         /\ At16(h \o Le16(n), Len(h) + 1) = n
<1> DEFINE b == Le16(n)
           p == h \o b
<1>1. b \in Bytes /\ Len(b) = 2 /\ b[1] + 256 * b[2] = n
  BY Halves
<1> HIDE DEF b
<1>2. /\ p \in Bytes /\ Len(p) = Len(h) + Len(b)
      /\ \A i \in 1..Len(b) : p[Len(h) + i] = b[i]
  BY <1>1, HeaderRest
<1> HIDE DEF p
<1>3. Len(h) \in Nat /\ p[Len(h) + 1] = b[1] /\ p[Len(h) + 2] = b[2]
  BY <1>1, <1>2, LenProperties DEF Bytes
<1>4. At16(p, Len(h) + 1) = n
  <2>1. (Len(h) + 1) + 1 = Len(h) + 2
    BY <1>3
  <2> QED
    BY <1>1, <1>3, <2>1 DEF At16
<1> QED
  BY <1>1, <1>2, <1>4 DEF b, p

\* A number in the header stays where it is.
LEMMA NumberStays ==
  ASSUME NEW h \in Bytes, NEW x \in Bytes, NEW i \in 1..Len(h), i < Len(h)
  PROVE  At16(h \o x, i) = At16(h, i)
<1>1. Len(h) \in Nat
  BY LenProperties DEF Bytes
<1>2. i + 1 \in 1..Len(h)
  BY <1>1
<1>3. (h \o x)[i] = h[i] /\ (h \o x)[i + 1] = h[i + 1]
  BY <1>2, HeaderRest
<1> QED
  BY <1>3 DEF At16

\* An opcode and two numbers.
LEMMA OpcodeRange ==
  ASSUME NEW c \in Byte, NEW n \in Word, NEW m \in Word
  PROVE  LET h == <<c>> \o Le16(n) \o Le16(m)
         IN h \in Bytes /\ Len(h) = 5 /\ h[1] = c /\ At16(h, 2) = n /\ At16(h, 4) = m
<1> DEFINE g == <<c>> \o Le16(n)
           b == Le16(m)
<1>1. g \in Bytes /\ Len(g) = 3 /\ g[1] = c /\ At16(g, 2) = n
  BY OpcodeHandle
<1>2. b \in Bytes
  BY Halves
<1>3. g \o b \in Bytes /\ Len(g \o b) = 5 /\ At16(g \o b, 4) = m
  <2>1. g \o b \in Bytes /\ Len(g \o b) = Len(g) + 2 /\ At16(g \o b, Len(g) + 1) = m
    <3> HIDE DEF g
    <3> QED
      BY <1>1, NumberAt
  <2> HIDE DEF g, b
  <2> QED
    BY <1>1, <2>1
<1> HIDE DEF g, b
<1>4. (g \o b)[1] = g[1]
  <2>1. \A i \in 1..Len(g) : (g \o b)[i] = g[i]
    BY <1>1, <1>2, HeaderRest
  <2> DEFINE p == g \o b
  <2> HIDE DEF p
  <2>2. \A i \in 1..Len(g) : p[i] = g[i]
    BY <2>1 DEF p
  <2>3. p[1] = g[1]
    BY <1>1, <2>2
  <2> QED
    BY <2>3 DEF p
<1>5. At16(g \o b, 2) = At16(g, 2)
  <2>1. 2 \in 1..Len(g) /\ 2 < Len(g)
    BY <1>1
  <2> QED
    BY <1>1, <1>2, <2>1, NumberStays
<1> QED
  BY <1>1, <1>3, <1>4, <1>5 DEF g, b

\* What follows.
LEMMA HandlePacket ==
  ASSUME NEW c \in Byte, NEW n \in Word, NEW x \in Bytes
  PROVE  LET p == <<c>> \o Le16(n) \o x
         IN /\ p \in Bytes /\ Len(p) = 3 + Len(x)
            /\ p[1] = c /\ At16(p, 2) = n /\ Octets(p, 4) = x
<1> DEFINE h == <<c>> \o Le16(n)
<1>1. h \in Bytes /\ Len(h) = 3 /\ h[1] = c /\ At16(h, 2) = n
  BY OpcodeHandle
<1> HIDE DEF h
<1> DEFINE p == h \o x
<1>2. /\ p \in Bytes /\ Len(p) = Len(h) + Len(x) /\ Octets(p, Len(h) + 1) = x
      /\ \A i \in 1..Len(h) : p[i] = h[i]
  BY <1>1, HeaderRest
<1>3. \A i \in 1..Len(h) : i < Len(h) => At16(p, i) = At16(h, i)
  BY <1>1, NumberStays
<1> HIDE DEF p
<1>4. Len(p) = 3 + Len(x) /\ Octets(p, 4) = x /\ p[1] = h[1]
  <2>1. Len(h) + 1 = 4
    BY <1>1
  <2> QED
    BY <1>1, <1>2, <2>1
<1>5. At16(p, 2) = At16(h, 2)
  BY <1>1, <1>3
<1> QED
  BY <1>1, <1>2, <1>4, <1>5 DEF h, p

\* A packet of an opcode and two numbers, which keep their places whatever follows.
LEMMA RangePacket ==
  ASSUME NEW c \in Byte, NEW n \in Word, NEW m \in Word, NEW x \in Bytes
  PROVE  LET p == <<c>> \o Le16(n) \o Le16(m) \o x
         IN /\ p \in Bytes /\ Len(p) = 5 + Len(x)
            /\ p[1] = c /\ At16(p, 2) = n /\ At16(p, 4) = m /\ Octets(p, 6) = x
<1> DEFINE h == <<c>> \o Le16(n) \o Le16(m)
<1>1. h \in Bytes /\ Len(h) = 5 /\ h[1] = c /\ At16(h, 2) = n /\ At16(h, 4) = m
  BY OpcodeRange
<1> HIDE DEF h
<1> DEFINE p == h \o x
<1>2. /\ p \in Bytes /\ Len(p) = Len(h) + Len(x) /\ Octets(p, Len(h) + 1) = x
      /\ \A i \in 1..Len(h) : p[i] = h[i]
  BY <1>1, HeaderRest
<1>3. \A i \in 1..Len(h) : i < Len(h) => At16(p, i) = At16(h, i)
  BY <1>1, NumberStays
<1> HIDE DEF p
<1>4. Len(p) = 5 + Len(x) /\ Octets(p, 6) = x /\ p[1] = h[1]
  <2>1. Len(h) + 1 = 6
    BY <1>1
  <2> QED
    BY <1>1, <1>2, <2>1
<1>5. At16(p, 2) = At16(h, 2) /\ At16(p, 4) = At16(h, 4)
  BY <1>1, <1>3
<1> QED
  BY <1>1, <1>2, <1>4, <1>5 DEF h, p

\* Fitting is the part of a string that there is room for.
LEMMA FittingIs ==
  ASSUME NEW value \in Bytes, NEW header \in Nat, NEW len \in Nat, header <= len
  PROVE  /\ Fitting(value, header, len) = Upto(value, len - header)
         /\ Fitting(value, header, len) \in Bytes
         /\ Len(Fitting(value, header, len)) = Least(Len(value), len - header)
         /\ Len(Fitting(value, header, len)) <= len - header
         /\ \A i \in 1..Least(Len(value), len - header) : Fitting(value, header, len)[i] = value[i]
<1>1. Len(value) \in Nat /\ SubSeq(value, 1, Len(value)) = value
  BY LenProperties, SubSeqFull DEF Bytes
<1> DEFINE n == Least(Len(value), len - header)
<1>2. n \in 0..Len(value) /\ n <= len - header
  BY <1>1 DEF Least
<1>3. \A i \in 1..n : value[i] \in Byte
  BY <1>2, ElementOfSeq DEF Bytes
<1>4. /\ SubSeq(value, 1, n) \in Bytes /\ Len(SubSeq(value, 1, n)) = n
      /\ \A i \in 1..n : SubSeq(value, 1, n)[i] = value[i]
  <2> HIDE DEF n
  <2> QED
    BY <1>1, <1>2, <1>3, SubSeqProperties DEF Bytes
<1>5. SubSeq(value, 1, n) = Upto(value, len - header)
  BY <1>1 DEF Upto, Least
<1> QED
  BY <1>2, <1>4, <1>5 DEF Fitting

\* Reverse twice.
LEMMA ReverseIs ==
  ASSUME NEW S, NEW s \in Seq(S)
  PROVE  /\ Reverse(s) \in Seq(S) /\ Len(Reverse(s)) = Len(s)
         /\ \A i \in 1..Len(s) : Reverse(s)[i] = s[Len(s) + 1 - i]
<1>1. Reverse(s) \in Seq(S) /\ Len(Reverse(s)) = Len(s)
  BY DEF Reverse
<1>2. \A i \in 1..Len(s) : Reverse(s)[i] = s[Len(s) + 1 - i]
  BY DEF Reverse
<1> QED
  BY <1>1, <1>2

\* put_uuid_le and get_uuid undo each other.
LEMMA ReverseTwice ==
  ASSUME NEW s \in Bytes
  PROVE  Reverse(s) \in Bytes /\ Len(Reverse(s)) = Len(s) /\ Reverse(Reverse(s)) = s
<1> DEFINE t == Reverse(s)
<1>1. /\ t \in Seq(Byte) /\ Len(t) = Len(s) /\ Len(s) \in Nat
      /\ \A i \in 1..Len(s) : t[i] = s[Len(s) + 1 - i]
  BY ReverseIs, LenProperties DEF Bytes
<1> HIDE DEF t
<1>3. /\ Reverse(t) \in Seq(Byte) /\ Len(Reverse(t)) = Len(s)
      /\ \A i \in 1..Len(s) : Reverse(t)[i] = t[Len(s) + 1 - i]
  BY <1>1, ReverseIs
<1>4. \A i \in 1..Len(s) : Len(s) + 1 - i \in 1..Len(s) /\ Len(s) + 1 - (Len(s) + 1 - i) = i
  BY <1>1
<1>5. \A i \in 1..Len(s) : Reverse(t)[i] = s[i]
  BY <1>1, <1>3, <1>4
<1>6. Reverse(t) = s
  BY <1>3, <1>5, SeqEqual DEF Bytes
<1> QED
  BY <1>1, <1>6 DEF t, Bytes

\* Places in a string of entries of e octets.
LEMMA Places ==
  ASSUME NEW e \in Nat, e > 0, NEW n \in Nat
  PROVE  /\ e * n \in Nat /\ (e * n) \div e = n /\ (e * n) % e = 0
         /\ \A k \in 1..n : \A i \in 1..e :
              /\ (k - 1) * e + i \in 1..(e * n)
              /\ ((k - 1) * e + i - 1) \div e = k - 1
              /\ ((k - 1) * e + i - 1) % e = i - 1
         /\ \A k \in 1..(e * n) : (k - 1) \div e \in 0..(n - 1) /\ (k - 1) % e \in 0..(e - 1)
<1>1. e * n \in Nat /\ (e * n) \div e = n /\ (e * n) % e = 0
  OBVIOUS
<1>2. ASSUME NEW k \in 1..n, NEW i \in 1..e
      PROVE  /\ (k - 1) * e + i \in 1..(e * n)
             /\ ((k - 1) * e + i - 1) \div e = k - 1
             /\ ((k - 1) * e + i - 1) % e = i - 1
  <2> DEFINE q == k - 1
             r == i - 1
  <2>1. q \in Nat /\ r \in Nat /\ r < e /\ q + 1 <= n /\ (k - 1) * e + i - 1 = q * e + r
    OBVIOUS
  <2>2. (k - 1) * e + i = q * e + r + 1
    OBVIOUS
  <2> HIDE DEF q, r
  <2>3. (q * e + r) \div e = q /\ (q * e + r) % e = r
    BY <2>1
  <2>4. q * e + r + 1 <= e * n /\ q * e + r + 1 >= 1 /\ q * e \in Nat
    <3>1. q * e \in Nat /\ (q + 1) * e <= n * e /\ (q + 1) * e = q * e + e /\ n * e = e * n
      BY <2>1
    <3> QED
      BY <2>1, <3>1
  <2> QED
    BY <1>1, <2>1, <2>2, <2>3, <2>4 DEF q, r
<1>3. ASSUME NEW k \in 1..(e * n)
      PROVE  (k - 1) \div e \in 0..(n - 1) /\ (k - 1) % e \in 0..(e - 1)
  <2> DEFINE j == k - 1
  <2>1. j \in Nat /\ j < e * n
    BY <1>1
  <2> HIDE DEF j
  <2>2. j % e \in 0..(e - 1) /\ j \div e \in Nat /\ j = e * (j \div e) + (j % e)
    BY <2>1
  <2>3. j \div e < n
    BY <2>1, <2>2
  <2> QED
    BY <2>2, <2>3 DEF j
<1> QED
  BY <1>1, <1>2, <1>3

\* Lists of entries of e octets.
Uniform(list, e) == list \in Seq(Bytes) /\ \A k \in 1..Len(list) : Len(list[k]) = e

\* The first n entries, one behind the other.
Laid(x, list, e, n) ==
  /\ x \in Bytes /\ Len(x) = e * n
  /\ \A k \in 1..n : \A i \in 1..e : x[(k - 1) * e + i] = list[k][i]

\* The octets of the first n entries are laid one behind the other.
LEMMA JoinedIs ==
  ASSUME NEW e \in Nat, e > 0, NEW list, Uniform(list, e), NEW n \in 0..Len(list)
  PROVE  Laid(Joined(list, e, n), list, e, n)
<1> DEFINE p == Joined(list, e, n)
<1>1. Len(list) \in Nat /\ n \in Nat /\ n <= Len(list)
  BY LenProperties DEF Uniform
<1>2. /\ e * n \in Nat
      /\ \A k \in 1..n : \A i \in 1..e :
              /\ (k - 1) * e + i \in 1..(e * n)
              /\ ((k - 1) * e + i - 1) \div e = k - 1
              /\ ((k - 1) * e + i - 1) % e = i - 1
      /\ \A k \in 1..(e * n) : (k - 1) \div e \in 0..(n - 1) /\ (k - 1) % e \in 0..(e - 1)
  BY <1>1, Places
<1>3. \A k \in 1..n : \A i \in 1..e : list[k][i] \in Byte
  <2> TAKE k \in 1..n
  <2>1. k \in 1..Len(list)
    BY <1>1
  <2>2. list[k] \in Bytes /\ Len(list[k]) = e
    BY <2>1, ElementOfSeq DEF Uniform
  <2> QED
    BY <2>2, ElementOfSeq DEF Bytes
<1>4. \A k \in 1..(e * n) : list[1 + ((k - 1) \div e)][1 + ((k - 1) % e)] \in Byte
  <2> TAKE k \in 1..(e * n)
  <2>1. 1 + ((k - 1) \div e) \in 1..n /\ 1 + ((k - 1) % e) \in 1..e
    <3>1. (k - 1) \div e \in 0..(n - 1) /\ (k - 1) % e \in 0..(e - 1)
      BY <1>2
    <3> QED
      BY <1>1, <3>1
  <2> QED
    BY <1>3, <2>1
<1>5. p \in Bytes /\ Len(p) = e * n
      /\ \A k \in 1..(e * n) : p[k] = list[1 + ((k - 1) \div e)][1 + ((k - 1) % e)]
  BY <1>2, <1>4 DEF Joined, Bytes
<1>6. ASSUME NEW k \in 1..n, NEW i \in 1..e
      PROVE  p[(k - 1) * e + i] = list[k][i]
  <2>1. /\ (k - 1) * e + i \in 1..(e * n)
        /\ ((k - 1) * e + i - 1) \div e = k - 1
        /\ ((k - 1) * e + i - 1) % e = i - 1
    BY <1>2
  <2> DEFINE j == (k - 1) * e + i
  <2> HIDE DEF j, p
  <2>2. p[j] = list[1 + ((j - 1) \div e)][1 + ((j - 1) % e)] /\ (j - 1) \div e = k - 1 /\ (j - 1) % e = i - 1
    BY <1>5, <2>1 DEF j
  <2>3. 1 + (k - 1) = k /\ 1 + (i - 1) = i
    OBVIOUS
  <2> QED
    BY <2>2, <2>3 DEF j
<1> QED
  BY <1>5, <1>6 DEF Laid

\* They are found again behind a header.
Behind(p, h, list, e, n) ==
  /\ p \in Bytes /\ Len(p) = Len(h) + e * n
  /\ \A i \in 1..Len(h) : p[i] = h[i]
  /\ (Len(p) - Len(h)) % e = 0 /\ (Len(p) - Len(h)) \div e = n
  /\ \A k \in 1..n : \A i \in 1..e : p[Len(h) + (k - 1) * e + i] = list[k][i]
  /\ DataList(p, Len(h) + 1, e) = SubSeq(list, 1, n)

\* What a dec_ function cuts out of a packet are the entries that were written.
LEMMA ListBack ==
  ASSUME NEW e \in Nat, e > 0, NEW list, Uniform(list, e), NEW n \in 0..Len(list),
         NEW h \in Bytes, NEW p, p = h \o Joined(list, e, n)
  PROVE  Behind(p, h, list, e, n)
<1> DEFINE x == Joined(list, e, n)
<1>1. Len(list) \in Nat /\ n \in Nat /\ n <= Len(list) /\ Len(h) \in Nat
  BY LenProperties DEF Uniform, Bytes
<1>2. /\ e * n \in Nat /\ (e * n) \div e = n /\ (e * n) % e = 0
      /\ \A k \in 1..n : \A i \in 1..e : (k - 1) * e + i \in 1..(e * n)
  BY <1>1, Places
<1>3. /\ x \in Bytes /\ Len(x) = e * n
      /\ \A k \in 1..n : \A i \in 1..e : x[(k - 1) * e + i] = list[k][i]
  <2>1. Laid(x, list, e, n)
    BY JoinedIs
  <2> QED
    BY <2>1 DEF Laid
<1> HIDE DEF x
<1>4. /\ h \o x \in Bytes /\ Len(h \o x) = Len(h) + Len(x)
      /\ \A i \in 1..Len(h) : (h \o x)[i] = h[i]
      /\ \A i \in 1..Len(x) : (h \o x)[Len(h) + i] = x[i]
  BY <1>3, HeaderRest
<1>5. /\ p \in Bytes /\ Len(p) = Len(h) + Len(x)
      /\ \A i \in 1..Len(h) : p[i] = h[i]
      /\ \A i \in 1..Len(x) : p[Len(h) + i] = x[i]
  BY <1>4 DEF x
<1> DEFINE w == e * n
<1>6. Len(p) = Len(h) + w /\ Len(p) - Len(h) = w /\ w \div e = n /\ w % e = 0 /\ w \in Nat
  <2>1. Len(p) = Len(h) + w /\ w \div e = n /\ w % e = 0 /\ w \in Nat
    BY <1>2, <1>3, <1>5
  <2> HIDE DEF w
  <2> QED
    BY <1>1, <2>1
<1>7. ASSUME NEW k \in 1..n, NEW i \in 1..e
      PROVE  p[Len(h) + (k - 1) * e + i] = list[k][i]
  <2> DEFINE j == (k - 1) * e + i
             a == (k - 1) * e
  <2>1. j \in 1..w /\ x[j] = list[k][i]
    BY <1>2, <1>3
  <2>3. a \in Nat
    OBVIOUS
  <2>2. j = a + i
    OBVIOUS
  <2> HIDE DEF j, a
  <2>4. Len(h) + a + i = Len(h) + j
    BY <1>1, <2>2, <2>3
  <2>5. p[Len(h) + j] = x[j]
    BY <1>3, <1>5, <2>1
  <2>6. p[Len(h) + a + i] = list[k][i]
    BY <2>1, <2>4, <2>5
  <2> QED
    BY <2>6 DEF a
<1>8. DataList(p, Len(h) + 1, e) = SubSeq(list, 1, n)
  <2> DEFINE E(k) == SubSeq(p, (Len(h) + 1) + (k - 1) * e, (Len(h) + 1) + k * e - 1)
             t == SubSeq(list, 1, n)
             d == DataList(p, Len(h) + 1, e)
  <2>1. ASSUME NEW k \in 1..n
        PROVE  E(k) = list[k]
    <3> DEFINE a == (k - 1) * e
    <3>1. a \in Nat /\ k * e = a + e
      OBVIOUS
    <3>2. a + e <= w
      <4>1. (k - 1) * e + e \in 1..w
        BY <1>2
      <4> QED
        BY <1>6, <4>1
    <3>3. list[k] \in Bytes /\ Len(list[k]) = e
      <4>1. k \in 1..Len(list)
        BY <1>1
      <4> QED
        BY <4>1, ElementOfSeq DEF Uniform
    <3>4. \A i \in 1..e : p[Len(h) + a + i] = list[k][i]
      BY <1>7
    <3> DEFINE from == Len(h) + 1 + a
               to == Len(h) + a + e
               s == SubSeq(p, from, to)
    <3>5. E(k) = s
      <4>1. (Len(h) + 1) + k * e - 1 = Len(h) + a + e
        <5> HIDE DEF a
        <5>1. (Len(h) + 1) + (a + e) - 1 = Len(h) + a + e
          BY <1>1, <3>1
        <5> QED
          BY <3>1, <5>1, Zenon
      <4> HIDE DEF a
      <4> QED
        BY <4>1 DEF a
    <3> HIDE DEF a, w
    <3>6. /\ from \in Nat /\ to \in Nat /\ 1 <= from /\ to <= Len(p) /\ to - from + 1 = e
          /\ from <= to + 1 /\ \A i \in 1..e : from + i - 1 = Len(h) + a + i
      BY <1>1, <1>6, <3>1, <3>2
    <3> HIDE DEF from, to
    <3>7. \A i \in from..to : p[i] \in Byte
      <4>1. \A i \in from..to : i \in 1..Len(p)
        BY <1>1, <1>6, <3>6
      <4> QED
        BY <1>5, <4>1, ElementOfSeq DEF Bytes
    <3>8. /\ s \in Seq(Byte) /\ Len(s) = IF from <= to THEN to - from + 1 ELSE 0
          /\ \A i \in 1..(to - from + 1) : s[i] = p[from + i - 1]
      BY <3>6, <3>7, SubSeqProperties
    <3> HIDE DEF s
    <3>9. Len(s) = e /\ \A i \in 1..e : s[i] = list[k][i]
      <4>1. Len(s) = e /\ \A i \in 1..e : s[i] = p[from + i - 1]
        BY <3>6, <3>8
      <4>2. \A i \in 1..e : s[i] = p[Len(h) + a + i]
        BY <3>6, <4>1
      <4> QED
        BY <3>4, <4>1, <4>2
    <3>10. s = list[k]
      BY <3>3, <3>8, <3>9, SeqEqual DEF Bytes
    <3> QED
      BY <3>5, <3>10
  <2>2. d = [k \in 1..n |-> E(k)]
    <3>1. (Len(p) + 1 - (Len(h) + 1)) \div e = n
      <4>1. Len(p) + 1 - (Len(h) + 1) = w
        <5> HIDE DEF w
        <5> QED
          BY <1>1, <1>6
      <4> QED
        BY <1>6, <4>1
    <3> QED
      BY <3>1 DEF DataList
  <2>3. \A k \in 1..n : E(k) \in Bytes
    <3>1. \A k \in 1..n : list[k] \in Bytes
      <4>1. \A k \in 1..n : k \in 1..Len(list)
        BY <1>1
      <4> QED
        BY <4>1, ElementOfSeq DEF Uniform
    <3> HIDE DEF E
    <3> QED
      BY <2>1, <3>1
  <2>4. d \in Seq(Bytes) /\ Len(d) = n /\ \A k \in 1..n : d[k] = list[k]
    <3> HIDE DEF d, E
    <3> QED
      BY <1>1, <2>1, <2>2, <2>3
  <2>5. t \in Seq(Bytes) /\ Len(t) = n /\ \A k \in 1..n : t[k] = list[k]
    <3>1. \A k \in 1..n : list[k] \in Bytes
      BY <1>1, ElementOfSeq DEF Uniform
    <3> QED
      BY <1>1, <3>1, SubSeqProperties DEF Uniform
  <2> HIDE DEF d, t
  <2>6. d = t
    BY <2>4, <2>5, SeqEqual
  <2> QED
    BY <2>6 DEF d, t
<1> QED
  BY <1>5, <1>6, <1>7, <1>8 DEF Behind

\* The octets of a read by group type, and what is read from them.
LEMMA ReadByGrpReqIs ==
  ASSUME NEW from \in Word, NEW to \in Word, NEW uuid \in Bytes, Len(uuid) \in {2, 16}
  PROVE  LET p == EncReadByGrpReq(from, to, uuid)
         IN /\ p \in Bytes /\ Len(p) = 5 + Len(uuid) /\ p[1] = 16 /\ At16(p, 2) = from
            /\ DecReadByGrpReq(p) = {[start |-> from, end |-> to, uuid |-> uuid]}
<1> DEFINE x == PutUuidLe(uuid)
           p == <<16>> \o Le16(from) \o Le16(to) \o x
<1>1. x \in Bytes /\ Len(x) = Len(uuid) /\ GetUuid(x) = uuid
  BY ReverseTwice DEF PutUuidLe, GetUuid
<1>2. 16 \in Byte
  BY DEF Byte
<1> HIDE DEF x
<1>3. /\ p \in Bytes /\ Len(p) = 5 + Len(x) /\ p[1] = 16
      /\ At16(p, 2) = from /\ At16(p, 4) = to /\ Octets(p, 6) = x
  BY <1>1, <1>2, RangePacket
<1>4. p = EncReadByGrpReq(from, to, uuid)
  BY DEF EncReadByGrpReq, x
<1> HIDE DEF p
<1>5. Len(p) \in {7, 21}
  <2>1. CASE Len(uuid) = 2
    BY <1>1, <1>3, <2>1
  <2>2. CASE Len(uuid) = 16
    BY <1>1, <1>3, <2>2
  <2> QED
    BY <2>1, <2>2
<1>6. DecReadByGrpReq(p) = {[start |-> from, end |-> to, uuid |-> uuid]}
  BY <1>1, <1>3, <1>5 DEF DecReadByGrpReq, Decoded
<1> QED
  BY <1>1, <1>3, <1>4, <1>6

\* The octets of a read by type, and what is read from them.
LEMMA ReadByTypeReqIs ==
  ASSUME NEW from \in Word, NEW to \in Word, NEW uuid \in Bytes, Len(uuid) \in {2, 16}
  PROVE  LET p == EncReadByTypeReq(from, to, uuid)
         IN /\ p \in Bytes /\ Len(p) = 5 + Len(uuid) /\ p[1] = 8 /\ At16(p, 2) = from
            /\ DecReadByTypeReq(p) = {[start |-> from, end |-> to, uuid |-> uuid]}
<1> DEFINE x == PutUuidLe(uuid)
           p == <<8>> \o Le16(from) \o Le16(to) \o x
<1>1. x \in Bytes /\ Len(x) = Len(uuid) /\ GetUuid(x) = uuid
  BY ReverseTwice DEF PutUuidLe, GetUuid
<1>2. 8 \in Byte
  BY DEF Byte
<1> HIDE DEF x
<1>3. /\ p \in Bytes /\ Len(p) = 5 + Len(x) /\ p[1] = 8
      /\ At16(p, 2) = from /\ At16(p, 4) = to /\ Octets(p, 6) = x
  BY <1>1, <1>2, RangePacket
<1>4. p = EncReadByTypeReq(from, to, uuid)
  BY DEF EncReadByTypeReq, x
<1> HIDE DEF p
<1>5. Len(p) \in {7, 21}
  <2>1. CASE Len(uuid) = 2
    BY <1>1, <1>3, <2>1
  <2>2. CASE Len(uuid) = 16
    BY <1>1, <1>3, <2>2
  <2> QED
    BY <2>1, <2>2
<1>6. DecReadByTypeReq(p) = {[start |-> from, end |-> to, uuid |-> uuid]}
  BY <1>1, <1>3, <1>5 DEF DecReadByTypeReq, Decoded
<1> QED
  BY <1>1, <1>3, <1>4, <1>6

\* The octets of a find information request, and what is read from them.
LEMMA FindInfoReqIs ==
  ASSUME NEW from \in Word, NEW to \in Word
  PROVE  LET p == EncFindInfoReq(from, to)
         IN /\ p \in Bytes /\ Len(p) = 5 /\ p[1] = 4 /\ At16(p, 2) = from
            /\ DecFindInfoReq(p) = {[start |-> from, end |-> to]}
<1> DEFINE p == <<4>> \o Le16(from) \o Le16(to)
<1>1. 4 \in Byte
  BY DEF Byte
<1>2. p \in Bytes /\ Len(p) = 5 /\ p[1] = 4 /\ At16(p, 2) = from /\ At16(p, 4) = to
  BY <1>1, OpcodeRange
<1>3. p = EncFindInfoReq(from, to)
  BY DEF EncFindInfoReq
<1> HIDE DEF p
<1>4. DecFindInfoReq(p) = {[start |-> from, end |-> to]}
  BY <1>2 DEF DecFindInfoReq, Decoded
<1> QED
  BY <1>2, <1>3, <1>4

\* The octets of a read from an offset, and what is read from them.
LEMMA ReadBlobReqIs ==
  ASSUME NEW from \in Word, NEW to \in Word
  PROVE  LET p == EncReadBlobReq(from, to)
         IN /\ p \in Bytes /\ Len(p) = 5 /\ p[1] = 12 /\ At16(p, 2) = from
            /\ DecReadBlobReq(p) = {[handle |-> from, offset |-> to]}
<1> DEFINE p == <<12>> \o Le16(from) \o Le16(to)
<1>1. 12 \in Byte
  BY DEF Byte
<1>2. p \in Bytes /\ Len(p) = 5 /\ p[1] = 12 /\ At16(p, 2) = from /\ At16(p, 4) = to
  BY <1>1, OpcodeRange
<1>3. p = EncReadBlobReq(from, to)
  BY DEF EncReadBlobReq
<1> HIDE DEF p
<1>4. DecReadBlobReq(p) = {[handle |-> from, offset |-> to]}
  BY <1>2 DEF DecReadBlobReq, Decoded
<1> QED
  BY <1>2, <1>3, <1>4

\* The octets of a prepared write, and what is read from them.
LEMMA PrepWriteReqIs ==
  ASSUME NEW from \in Word, NEW to \in Word, NEW value \in Bytes, NEW len \in Nat, 5 <= len
  PROVE  LET p == EncPrepWriteReq(from, to, value, len)
         IN /\ p \in Bytes /\ Len(p) = 5 + Least(Len(value), len - 5) /\ Len(p) <= len
            /\ p[1] = 22 /\ At16(p, 2) = from /\ At16(p, 4) = to
            /\ Octets(p, 6) = Upto(value, len - 5)
            /\ DecPrepWriteReq(p) = {[handle |-> from, offset |-> to, value |-> Upto(value, len - 5)]}
<1> DEFINE x == Fitting(value, 5, len)
           p == <<22>> \o Le16(from) \o Le16(to) \o x
<1>1. x \in Bytes /\ x = Upto(value, len - 5) /\ Len(x) = Least(Len(value), len - 5) /\ Len(x) <= len - 5
  BY FittingIs
<1>2. 22 \in Byte /\ x \in Bytes
  <2>1. 22 \in Byte
    BY DEF Byte
  <2> QED
    BY <1>1, <2>1
<1> HIDE DEF x
<1>3. /\ p \in Bytes /\ Len(p) = 5 + Len(x) /\ p[1] = 22
      /\ At16(p, 2) = from /\ At16(p, 4) = to /\ Octets(p, 6) = x
  BY <1>2, RangePacket
<1>4. p = EncPrepWriteReq(from, to, value, len)
  BY DEF EncPrepWriteReq, x
<1>5. Len(x) \in Nat
  BY <1>1, LenProperties DEF Bytes
<1> HIDE DEF p
<1>6. DecPrepWriteReq(p) = {[handle |-> from, offset |-> to, value |-> Upto(value, len - 5)]}
  BY <1>1, <1>3, <1>5 DEF DecPrepWriteReq, Decoded
<1>7. Len(p) <= len
  BY <1>1, <1>3, <1>5
<1> QED
  BY <1>1, <1>3, <1>4, <1>6, <1>7

\* The octets of the response to a prepared write, and what is read from them.
LEMMA PrepWriteRespIs ==
  ASSUME NEW from \in Word, NEW to \in Word, NEW value \in Bytes, NEW len \in Nat, 5 <= len
  PROVE  LET p == EncPrepWriteResp(from, to, value, len)
         IN /\ p \in Bytes /\ Len(p) = 5 + Least(Len(value), len - 5) /\ Len(p) <= len
            /\ p[1] = 23 /\ At16(p, 2) = from /\ At16(p, 4) = to
            /\ Octets(p, 6) = Upto(value, len - 5)
<1> DEFINE x == Fitting(value, 5, len)
           p == <<23>> \o Le16(from) \o Le16(to) \o x
<1>1. x \in Bytes /\ x = Upto(value, len - 5) /\ Len(x) = Least(Len(value), len - 5) /\ Len(x) <= len - 5
  BY FittingIs
<1>2. 23 \in Byte /\ x \in Bytes
  <2>1. 23 \in Byte
    BY DEF Byte
  <2> QED
    BY <1>1, <2>1
<1> HIDE DEF x
<1>3. /\ p \in Bytes /\ Len(p) = 5 + Len(x) /\ p[1] = 23
      /\ At16(p, 2) = from /\ At16(p, 4) = to /\ Octets(p, 6) = x
  BY <1>2, RangePacket
<1>4. p = EncPrepWriteResp(from, to, value, len)
  BY DEF EncPrepWriteResp, x
<1>5. Len(x) \in Nat
  BY <1>1, LenProperties DEF Bytes
<1> HIDE DEF p
<1>7. Len(p) <= len
  BY <1>1, <1>3, <1>5
<1> QED
  BY <1>1, <1>3, <1>4, <1>7

\* The octets of a write command, and what is read from them.
LEMMA WriteCmdIs ==
  ASSUME NEW n \in Word, NEW value \in Bytes, NEW len \in Nat, 3 <= len
  PROVE  LET p == EncWriteCmd(n, value, len)
         IN /\ p \in Bytes /\ Len(p) = 3 + Least(Len(value), len - 3) /\ Len(p) <= len
            /\ p[1] = 82 /\ At16(p, 2) = n
            /\ DecWriteCmd(p) = {[handle |-> n, value |-> Upto(value, len - 3)]}
<1> DEFINE x == Fitting(value, 3, len)
           p == <<82>> \o Le16(n) \o x
<1>1. x \in Bytes /\ x = Upto(value, len - 3) /\ Len(x) = Least(Len(value), len - 3) /\ Len(x) <= len - 3
  BY FittingIs
<1>2. 82 \in Byte
  BY DEF Byte
<1> HIDE DEF x
<1>3. /\ p \in Bytes /\ Len(p) = 3 + Len(x) /\ p[1] = 82 /\ At16(p, 2) = n /\ Octets(p, 4) = x
  BY <1>1, <1>2, HandlePacket
<1>4. p = EncWriteCmd(n, value, len)
  BY DEF EncWriteCmd, x
<1>5. Len(x) \in Nat
  BY <1>1, LenProperties DEF Bytes
<1> HIDE DEF p
<1>6. DecWriteCmd(p) = {[handle |-> n, value |-> Upto(value, len - 3)]}
  BY <1>1, <1>3, <1>5 DEF DecWriteCmd, Decoded
<1>7. Len(p) <= len
  BY <1>1, <1>3, <1>5
<1> QED
  BY <1>1, <1>3, <1>4, <1>6, <1>7

\* The octets of a write request, and what is read from them.
LEMMA WriteReqIs ==
  ASSUME NEW n \in Word, NEW value \in Bytes, NEW len \in Nat, 3 <= len
  PROVE  LET p == EncWriteReq(n, value, len)
         IN /\ p \in Bytes /\ Len(p) = 3 + Least(Len(value), len - 3) /\ Len(p) <= len
            /\ p[1] = 18 /\ At16(p, 2) = n
            /\ DecWriteReq(p) = {[handle |-> n, value |-> Upto(value, len - 3)]}
<1> DEFINE x == Fitting(value, 3, len)
           p == <<18>> \o Le16(n) \o x
<1>1. x \in Bytes /\ x = Upto(value, len - 3) /\ Len(x) = Least(Len(value), len - 3) /\ Len(x) <= len - 3
  BY FittingIs
<1>2. 18 \in Byte
  BY DEF Byte
<1> HIDE DEF x
<1>3. /\ p \in Bytes /\ Len(p) = 3 + Len(x) /\ p[1] = 18 /\ At16(p, 2) = n /\ Octets(p, 4) = x
  BY <1>1, <1>2, HandlePacket
<1>4. p = EncWriteReq(n, value, len)
  BY DEF EncWriteReq, x
<1>5. Len(x) \in Nat
  BY <1>1, LenProperties DEF Bytes
<1> HIDE DEF p
<1>6. DecWriteReq(p) = {[handle |-> n, value |-> Upto(value, len - 3)]}
  BY <1>1, <1>3, <1>5 DEF DecWriteReq, Decoded
<1>7. Len(p) <= len
  BY <1>1, <1>3, <1>5
<1> QED
  BY <1>1, <1>3, <1>4, <1>6, <1>7

\* The octets of a read, and what is read from them.
LEMMA ReadReqIs ==
  ASSUME NEW n \in Word
  PROVE  LET p == EncReadReq(n)
         IN /\ p \in Bytes /\ Len(p) = 3 /\ p[1] = 10 /\ At16(p, 2) = n
            /\ DecReadReq(p) = {[handle |-> n]}
<1> DEFINE p == <<10>> \o Le16(n)
<1>1. 10 \in Byte
  BY DEF Byte
<1>2. p \in Bytes /\ Len(p) = 3 /\ p[1] = 10 /\ At16(p, 2) = n
  BY <1>1, OpcodeHandle
<1>3. p = EncReadReq(n)
  BY DEF EncReadReq
<1> HIDE DEF p
<1>4. DecReadReq(p) = {[handle |-> n]}
  BY <1>2 DEF DecReadReq, Decoded
<1> QED
  BY <1>2, <1>3, <1>4

\* The octets of an exchange of the MTU, and what is read from them.
LEMMA MtuReqIs ==
  ASSUME NEW n \in Word
  PROVE  LET p == EncMtuReq(n)
         IN /\ p \in Bytes /\ Len(p) = 3 /\ p[1] = 2 /\ At16(p, 2) = n
            /\ DecMtuReq(p) = {[mtu |-> n]}
<1> DEFINE p == <<2>> \o Le16(n)
<1>1. 2 \in Byte
  BY DEF Byte
<1>2. p \in Bytes /\ Len(p) = 3 /\ p[1] = 2 /\ At16(p, 2) = n
  BY <1>1, OpcodeHandle
<1>3. p = EncMtuReq(n)
  BY DEF EncMtuReq
<1> HIDE DEF p
<1>4. DecMtuReq(p) = {[mtu |-> n]}
  BY <1>2 DEF DecMtuReq, Decoded
<1> QED
  BY <1>2, <1>3, <1>4

\* The octets of the response with the MTU, and what is read from them.
LEMMA MtuRespIs ==
  ASSUME NEW n \in Word
  PROVE  LET p == EncMtuResp(n)
         IN /\ p \in Bytes /\ Len(p) = 3 /\ p[1] = 3 /\ At16(p, 2) = n
            /\ DecMtuResp(p) = {[mtu |-> n]}
<1> DEFINE p == <<3>> \o Le16(n)
<1>1. 3 \in Byte
  BY DEF Byte
<1>2. p \in Bytes /\ Len(p) = 3 /\ p[1] = 3 /\ At16(p, 2) = n
  BY <1>1, OpcodeHandle
<1>3. p = EncMtuResp(n)
  BY DEF EncMtuResp
<1> HIDE DEF p
<1>4. DecMtuResp(p) = {[mtu |-> n]}
  BY <1>2 DEF DecMtuResp, Decoded
<1> QED
  BY <1>2, <1>3, <1>4

\* A packet p that asks for the attributes of a type with a value.
Searching(p, from, to, uuid, value, len) ==
  /\ p \in Bytes /\ Len(p) <= len
  /\ p[1] = 6 /\ At16(p, 2) = from
  /\ DecFindByTypeReq(p) =
       {[start |-> from, end |-> to, uuid |-> uuid, value |-> Upto(value, len - 7)]}

\* enc_find_by_type_req writes such a packet, of what the buffer holds of the value.
LEMMA FindByTypeReqIs ==
  ASSUME NEW from \in Word, NEW to \in Word, NEW uuid \in Bytes, Len(uuid) = 2,
         NEW value \in Bytes, NEW len \in Nat, 7 <= len
  PROVE  Searching(EncFindByTypeReq(from, to, uuid, value, len), from, to, uuid, value, len)
<1> DEFINE x == Fitting(value, 7, len)
           u == PutUuidLe(uuid)
           h == <<6>> \o Le16(from) \o Le16(to) \o u
           p == h \o x
<1>1. x \in Bytes /\ x = Upto(value, len - 7) /\ Len(x) = Least(Len(value), len - 7) /\ Len(x) <= len - 7
  BY FittingIs
<1>2. u \in Bytes /\ Len(u) = Len(uuid) /\ GetUuid(u) = uuid
  BY ReverseTwice DEF PutUuidLe, GetUuid
<1>3. p = EncFindByTypeReq(from, to, uuid, value, len)
  BY DEF EncFindByTypeReq
<1> HIDE DEF x, u
<1>4. 6 \in Byte /\ u \in Bytes
  <2>1. 6 \in Byte
    BY DEF Byte
  <2> QED
    BY <1>2, <2>1
<1>5. /\ h \in Bytes /\ Len(h) = 5 + Len(u) /\ h[1] = 6
      /\ At16(h, 2) = from /\ At16(h, 4) = to /\ Octets(h, 6) = u
  BY <1>4, RangePacket
<1> HIDE DEF h
<1>6. x \in Bytes
  BY <1>1
<1>7. /\ p \in Bytes /\ Len(p) = Len(h) + Len(x) /\ Octets(p, Len(h) + 1) = x
      /\ \A i \in 1..Len(h) : p[i] = h[i]
      /\ SubSeq(p, 1, Len(h)) = h
  BY <1>5, <1>6, HeaderRest
<1>8. \A i \in 1..Len(h) : i < Len(h) => At16(p, i) = At16(h, i)
  BY <1>5, <1>6, NumberStays
<1>9. Len(h) = 7 /\ Len(x) \in Nat
  BY <1>2, <1>5, <1>6, LenProperties DEF Bytes
<1> HIDE DEF p
<1>10. Len(p) = 7 + Len(x) /\ Octets(p, 8) = x /\ p[1] = 6 /\ At16(p, 2) = from /\ At16(p, 4) = to
  <2>1. Len(p) = 7 + Len(x) /\ p[1] = h[1] /\ At16(p, 2) = At16(h, 2) /\ At16(p, 4) = At16(h, 4)
    BY <1>7, <1>8, <1>9
  <2>2. Len(h) + 1 = 8
    BY <1>9
  <2> QED
    BY <1>5, <1>7, <2>1, <2>2
<1>11. SubSeq(p, 6, 7) = u
  <2>1. Octets(h, 6) = SubSeq(h, 6, 7)
    BY <1>9 DEF Octets
  <2> DEFINE s == SubSeq(p, 6, 7)
             t == SubSeq(h, 6, 7)
  <2>2. \A i \in 6..7 : i \in 1..Len(h) /\ i \in 1..Len(p) /\ p[i] = h[i]
    BY <1>7, <1>9, <1>10
  <2>3. \A i \in 6..7 : p[i] \in Byte /\ h[i] \in Byte
    BY <1>5, <1>7, <2>2, ElementOfSeq DEF Bytes
  <2>4. /\ s \in Seq(Byte) /\ Len(s) = (IF 6 <= 7 THEN 7 - 6 + 1 ELSE 0)
        /\ \A i \in 1..(7 - 6 + 1) : s[i] = p[6 + i - 1]
    BY <2>3, SubSeqProperties
  <2>5. /\ t \in Seq(Byte) /\ Len(t) = (IF 6 <= 7 THEN 7 - 6 + 1 ELSE 0)
        /\ \A i \in 1..(7 - 6 + 1) : t[i] = h[6 + i - 1]
    BY <2>3, SubSeqProperties
  <2> HIDE DEF s, t
  <2>6. Len(s) = 2 /\ Len(t) = 2 /\ \A i \in 1..2 : s[i] = t[i]
    BY <2>2, <2>4, <2>5
  <2>7. s = t
    BY <2>4, <2>5, <2>6, SeqEqual
  <2> QED
    BY <1>5, <2>1, <2>7 DEF s, t
<1>12. DecFindByTypeReq(p) = {[start |-> from, end |-> to, uuid |-> uuid, value |-> Upto(value, len - 7)]}
  <2>1. ~(Len(p) < 7 \/ p[1] # 6)
    BY <1>9, <1>10
  <2>2. /\ At16(p, 2) = from /\ At16(p, 4) = to /\ GetUuid(SubSeq(p, 6, 7)) = uuid
        /\ Octets(p, 8) = Upto(value, len - 7)
    BY <1>1, <1>2, <1>10, <1>11
  <2> QED
    BY <2>1, <2>2 DEF DecFindByTypeReq
<1>13. Len(p) <= len
  BY <1>1, <1>9, <1>10
<1> QED
  BY <1>3, <1>7, <1>10, <1>12, <1>13 DEF Searching

\* The value of a signed write, cut to what the buffer holds, is followed by the signature.
LEMMA SignedWriteCmdIs ==
  ASSUME NEW n \in Word, NEW value \in Bytes, NEW signature \in Bytes, Len(signature) = 12,
         NEW len \in Nat, 15 <= len
  PROVE  LET p == EncSignedWriteCmd(n, value, signature, len)
         IN /\ p \in Bytes /\ Len(p) <= len /\ p[1] = 210
            /\ DecSignedWriteCmd(p) =
                 {[handle |-> n, value |-> Upto(value, len - 15), signature |-> signature]}
<1> DEFINE x == Fitting(value, 15, len)
           h == <<210>> \o Le16(n) \o x
           p == h \o signature
<1>1. x \in Bytes /\ x = Upto(value, len - 15) /\ Len(x) <= len - 15
  BY FittingIs
<1>2. p = EncSignedWriteCmd(n, value, signature, len)
  BY DEF EncSignedWriteCmd
<1> HIDE DEF x
<1>3. 210 \in Byte /\ x \in Bytes
  <2>1. 210 \in Byte
    BY DEF Byte
  <2> QED
    BY <1>1, <2>1
<1>4. h \in Bytes /\ Len(h) = 3 + Len(x) /\ h[1] = 210 /\ At16(h, 2) = n /\ Octets(h, 4) = x
  BY <1>3, HandlePacket
<1> HIDE DEF h
<1>12. h \in Bytes
  BY <1>4
<1>5. /\ p \in Bytes /\ Len(p) = Len(h) + Len(signature) /\ Octets(p, Len(h) + 1) = signature
      /\ \A i \in 1..Len(h) : p[i] = h[i]
  BY <1>12, HeaderRest
<1>6. \A i \in 1..Len(h) : i < Len(h) => At16(p, i) = At16(h, i)
  BY <1>4, NumberStays
<1>7. Len(x) \in Nat /\ Len(h) \in Nat
  BY <1>3, <1>4, LenProperties DEF Bytes
<1> HIDE DEF p
<1>8. /\ Len(p) = 15 + Len(x) /\ Len(p) - 12 = Len(h) /\ Len(p) - 11 = Len(h) + 1
      /\ p[1] = h[1] /\ At16(p, 2) = At16(h, 2)
  BY <1>4, <1>5, <1>6, <1>7
<1>9. SubSeq(p, 4, Len(h)) = x
  <2> DEFINE s == SubSeq(p, 4, Len(h))
             t == SubSeq(h, 4, Len(h))
  <2>1. \A i \in 4..Len(h) : i \in 1..Len(h) /\ i \in 1..Len(p) /\ p[i] = h[i]
    BY <1>4, <1>5, <1>7, <1>8
  <2>2. \A i \in 4..Len(h) : p[i] \in Byte /\ h[i] \in Byte
    BY <1>4, <1>5, <2>1, ElementOfSeq DEF Bytes
  <2>3. /\ s \in Seq(Byte) /\ Len(s) = (IF 4 <= Len(h) THEN Len(h) - 4 + 1 ELSE 0)
        /\ \A i \in 1..(Len(h) - 4 + 1) : s[i] = p[4 + i - 1]
    BY <1>7, <2>2, SubSeqProperties
  <2>4. /\ t \in Seq(Byte) /\ Len(t) = (IF 4 <= Len(h) THEN Len(h) - 4 + 1 ELSE 0)
        /\ \A i \in 1..(Len(h) - 4 + 1) : t[i] = h[4 + i - 1]
    BY <1>7, <2>2, SubSeqProperties
  <2> HIDE DEF s, t
  <2>5. Len(s) = Len(t) /\ \A i \in 1..Len(s) : s[i] = t[i]
    BY <1>7, <2>1, <2>3, <2>4
  <2>6. s = t
    BY <2>3, <2>4, <2>5, SeqEqual
  <2> QED
    BY <1>4, <2>6 DEF s, t, Octets
<1>10. DecSignedWriteCmd(p) = {[handle |-> n, value |-> Upto(value, len - 15), signature |-> signature]}
  <2>1. Octets(p, Len(p) - 11) = signature /\ SubSeq(p, 4, Len(p) - 12) = x
    BY <1>5, <1>8, <1>9
  <2> QED
    <3>1. Len(p) >= 15 /\ p[1] = 210 /\ At16(p, 2) = n
      BY <1>4, <1>7, <1>8
    <3>2. SubSeq(p, 4, Len(p) - 12) = Upto(value, len - 15)
      BY <1>1, <2>1
    <3> QED
      BY <2>1, <3>1, <3>2 DEF DecSignedWriteCmd, Decoded
<1>11. Len(p) <= len
  BY <1>1, <1>7, <1>8
<1> QED
  BY <1>2, <1>4, <1>5, <1>8, <1>10, <1>11

\* A notification carries a handle and a value that fits.
LEMMA NotificationIs ==
  ASSUME NEW n \in Word, NEW value \in Bytes, NEW len \in Nat, EncNotification(n, value, len) # Nothing
  PROVE  LET p == EncNotification(n, value, len)
         IN p \in Bytes /\ Len(p) <= len /\ p[1] = 27
<1> DEFINE p == <<27>> \o Le16(n) \o value
<1>1. 27 \in Byte
  BY DEF Byte
<1>2. p \in Bytes /\ Len(p) = 3 + Len(value) /\ p[1] = 27
  BY <1>1, HandlePacket
<1>3. p = EncNotification(n, value, len) /\ ~(len < Len(value) + 3)
  BY DEF EncNotification
<1> HIDE DEF p
<1>4. Len(value) \in Nat
  BY LenProperties DEF Bytes
<1> QED
  BY <1>2, <1>3, <1>4

\* So does an indication, which dec_indication reads.
LEMMA IndicationIs ==
  ASSUME NEW n \in Word, NEW value \in Bytes, NEW len \in Nat, EncIndication(n, value, len) # Nothing
  PROVE  LET p == EncIndication(n, value, len)
         IN /\ p \in Bytes /\ Len(p) <= len /\ p[1] = 29
            /\ DecIndication(p, Len(p)) = {[handle |-> n, value |-> value]}
<1> DEFINE p == <<29>> \o Le16(n) \o value
<1>1. 29 \in Byte
  BY DEF Byte
<1>2. p \in Bytes /\ Len(p) = 3 + Len(value) /\ p[1] = 29 /\ At16(p, 2) = n /\ Octets(p, 4) = value
  BY <1>1, HandlePacket
<1>3. p = EncIndication(n, value, len) /\ ~(len < Len(value) + 3)
  BY DEF EncIndication
<1> HIDE DEF p
<1>4. Len(value) \in Nat
  BY LenProperties DEF Bytes
<1>5. 3 + Least(Len(p) - 3, Len(p)) = Len(p)
  BY <1>2, <1>4 DEF Least
<1>6. DecIndication(p, Len(p)) = {[handle |-> n, value |-> value]}
  <2>1. SubSeq(p, 4, 3 + Least(Len(p) - 3, Len(p))) = value
    BY <1>2, <1>5 DEF Octets
  <2>2. ~(p[1] # 29 \/ Len(p) < 3)
    BY <1>2, <1>4
  <2> QED
    BY <1>2, <2>1, <2>2 DEF DecIndication
<1> QED
  BY <1>2, <1>3, <1>4, <1>6

\* A value behind its opcode.
LEMMA OpcodeValue ==
  ASSUME NEW c \in Byte, NEW x \in Bytes
  PROVE  LET p == <<c>> \o x
         IN p \in Bytes /\ Len(p) = 1 + Len(x) /\ p[1] = c /\ Octets(p, 2) = x
<1> DEFINE h == <<c>>
           p == h \o x
<1>1. h \in Bytes /\ Len(h) = 1 /\ h[1] = c
  BY OneOctet
<1> HIDE DEF h
<1>2. /\ p \in Bytes /\ Len(p) = Len(h) + Len(x) /\ Octets(p, Len(h) + 1) = x
      /\ \A i \in 1..Len(h) : p[i] = h[i]
  BY <1>1, HeaderRest
<1> HIDE DEF p
<1>3. Len(p) = 1 + Len(x) /\ p[1] = h[1] /\ Octets(p, 2) = x
  <2>1. Len(h) + 1 = 2
    BY <1>1
  <2> QED
    BY <1>1, <1>2, <2>1
<1> QED
  BY <1>1, <1>2, <1>3 DEF h, p

\* A response carries what the buffer holds of a value.
LEMMA ReadRespIs ==
  ASSUME NEW value \in Bytes, NEW len \in Nat, 1 <= len
  PROVE  LET p == EncReadResp(value, len)
         IN /\ p \in Bytes /\ Len(p) = 1 + Least(Len(value), len - 1) /\ Len(p) <= len /\ p[1] = 11
            /\ Octets(p, 2) = Upto(value, len - 1)
            /\ \A room \in Nat : Len(p) <= room + 1 => DecReadResp(p, room) = {Upto(value, len - 1)}
<1> DEFINE x == Fitting(value, 1, len)
           p == <<11>> \o x
<1>1. x \in Bytes /\ x = Upto(value, len - 1) /\ Len(x) = Least(Len(value), len - 1) /\ Len(x) <= len - 1
  BY FittingIs
<1>2. p = EncReadResp(value, len)
  BY DEF EncReadResp
<1> HIDE DEF x
<1>3. 11 \in Byte /\ x \in Bytes
  <2>1. 11 \in Byte
    BY DEF Byte
  <2> QED
    BY <1>1, <2>1
<1>4. p \in Bytes /\ Len(p) = 1 + Len(x) /\ p[1] = 11 /\ Octets(p, 2) = x
  BY <1>3, OpcodeValue
<1>5. Len(x) \in Nat
  BY <1>3, LenProperties DEF Bytes
<1> HIDE DEF p
<1>6. ASSUME NEW room \in Nat, Len(p) <= room + 1
      PROVE  DecReadResp(p, room) = {x}
  BY <1>4, <1>5, <1>6 DEF DecReadResp, Decoded
<1>7. Len(p) <= len
  BY <1>1, <1>4, <1>5
<1> QED
  BY <1>1, <1>2, <1>4, <1>6, <1>7

\* An error names the opcode and the handle of the request.
LEMMA ErrorRespIs ==
  ASSUME NEW opcode \in Byte, NEW n \in Word, NEW status \in Byte
  PROVE  LET p == EncErrorResp(opcode, n, status)
         IN /\ p \in Bytes /\ Len(p) = 5 /\ p[1] = 1 /\ p[2] = opcode /\ At16(p, 3) = n /\ p[5] = status
<1> DEFINE a == <<1, opcode>>
           b == a \o Le16(n)
           c == <<status>>
           p == b \o c
<1>1. a \in Bytes /\ Len(a) = 2 /\ a[1] = 1 /\ a[2] = opcode
  <2>1. 1 \in Byte
    BY DEF Byte
  <2> QED
    BY <2>1 DEF Bytes
<1>2. c \in Bytes /\ Len(c) = 1 /\ c[1] = status
  BY OneOctet
<1>3. p = EncErrorResp(opcode, n, status)
  BY DEF EncErrorResp
<1> HIDE DEF a, c
<1>4. Le16(n) \in Bytes
  BY Halves
<1>5. b \in Bytes /\ Len(b) = Len(a) + 2 /\ At16(b, Len(a) + 1) = n /\ \A i \in 1..Len(a) : b[i] = a[i]
  BY <1>1, <1>4, NumberAt, HeaderRest
<1> HIDE DEF b
<1>6. Len(b) = 4 /\ At16(b, 3) = n /\ b[1] = a[1] /\ b[2] = a[2]
  <2>1. Len(a) + 1 = 3
    BY <1>1
  <2> QED
    BY <1>1, <1>5, <2>1
<1>7. /\ p \in Bytes /\ Len(p) = Len(b) + Len(c) /\ \A i \in 1..Len(b) : p[i] = b[i]
      /\ \A i \in 1..Len(c) : p[Len(b) + i] = c[i]
  BY <1>2, <1>5, HeaderRest
<1>8. \A i \in 1..Len(b) : i < Len(b) => At16(p, i) = At16(b, i)
  BY <1>2, <1>5, NumberStays
<1> HIDE DEF p
<1>9. Len(p) = 5 /\ p[1] = b[1] /\ p[2] = b[2] /\ At16(p, 3) = At16(b, 3) /\ p[5] = c[1]
  BY <1>2, <1>6, <1>7, <1>8
<1> QED
  BY <1>1, <1>2, <1>3, <1>6, <1>7, <1>9

\* The packets of one octet or two.
LEMMA ShortPackets ==
  /\ EncWriteResp \in Bytes /\ Len(EncWriteResp) = 1 /\ EncWriteResp[1] = 19
  /\ DecWriteResp(EncWriteResp) = {1}
  /\ EncExecWriteResp \in Bytes /\ Len(EncExecWriteResp) = 1 /\ EncExecWriteResp[1] = 25
  /\ DecExecWriteResp(EncExecWriteResp) = {1}
  /\ \A flags \in {0, 1} :
       /\ EncExecWriteReq(flags) = <<24, flags>> /\ EncExecWriteReq(flags) \in Bytes
       /\ DecExecWriteReq(EncExecWriteReq(flags)) = {[flags |-> flags]}
<1>1. 19 \in Byte /\ 25 \in Byte /\ 24 \in Byte /\ 0 \in Byte /\ 1 \in Byte
  BY DEF Byte
<1>2. EncWriteResp \in Bytes /\ Len(EncWriteResp) = 1 /\ EncWriteResp[1] = 19
  BY <1>1 DEF EncWriteResp, Bytes
<1>3. EncExecWriteResp \in Bytes /\ Len(EncExecWriteResp) = 1 /\ EncExecWriteResp[1] = 25
  BY <1>1 DEF EncExecWriteResp, Bytes
<1>4. ASSUME NEW flags \in {0, 1}
      PROVE  /\ EncExecWriteReq(flags) = <<24, flags>> /\ EncExecWriteReq(flags) \in Bytes
             /\ DecExecWriteReq(EncExecWriteReq(flags)) = {[flags |-> flags]}
  <2>1. EncExecWriteReq(flags) = <<24, flags>>
    BY DEF EncExecWriteReq
  <2>2. <<24, flags>> \in Bytes
    BY <1>1 DEF Bytes
  <2>3. DecExecWriteReq(<<24, flags>>) = {[flags |-> flags]}
    BY DEF DecExecWriteReq, Decoded
  <2> QED
    BY <2>1, <2>2, <2>3
<1>5. DecWriteResp(EncWriteResp) = {1} /\ DecExecWriteResp(EncExecWriteResp) = {1}
  BY <1>2, <1>3 DEF DecWriteResp, DecExecWriteResp, Decoded
<1> QED
  BY <1>2, <1>3, <1>4, <1>5

\* How many entries fit.
LEMMA RoomFor ==
  ASSUME NEW e \in Nat, e > 0, NEW S, NEW list \in Seq(S), NEW room \in Nat
  PROVE  LET n == Least(Len(list), room \div e)
         IN /\ n \in 0..Len(list) /\ e * n \in Nat /\ e * n <= room
            /\ SubSeq(list, 1, n) = Upto(list, room \div e)
            /\ list # <<>> /\ e <= room => n >= 1
<1> DEFINE r == room \div e
           n == Least(Len(list), r)
<1>1. r \in Nat /\ e * r <= room /\ (e <= room => r >= 1)
  OBVIOUS
<1>2. Len(list) \in Nat /\ SubSeq(list, 1, Len(list)) = list /\ (list # <<>> => Len(list) >= 1)
  <2>1. Len(list) \in Nat /\ SubSeq(list, 1, Len(list)) = list
    BY LenProperties, SubSeqFull
  <2> QED
    BY <2>1, EmptySeq
<1> HIDE DEF r
<1>3. n \in 0..Len(list) /\ n <= r /\ (list # <<>> /\ e <= room => n >= 1)
  BY <1>1, <1>2 DEF Least
<1>4. SubSeq(list, 1, n) = Upto(list, r)
  BY <1>1, <1>2 DEF Upto, Least
<1>5. e * n \in Nat /\ e * n <= room
  <2> HIDE DEF n
  <2>1. n \in Nat
    BY <1>2, <1>3
  <2>2. e * n <= e * r /\ e * n \in Nat /\ e * r \in Nat
    BY <1>1, <1>3, <2>1
  <2> QED
    BY <1>1, <2>2
<1> QED
  BY <1>3, <1>4, <1>5 DEF r

\* A list behind two octets of header.
LEMMA ListPacket ==
  ASSUME NEW c \in Byte, NEW d \in Byte, NEW e \in Nat, e > 0, NEW list, Uniform(list, e),
         NEW len \in Nat, e + 2 <= len, list # <<>>
  PROVE  LET p == <<c, d>> \o Entries(list, e, len)
         IN /\ p \in Bytes /\ Len(p) <= len /\ Len(p) >= 2 + e /\ p[1] = c /\ p[2] = d
            /\ (Len(p) - 2) % e = 0
            /\ DataList(p, 3, e) = Upto(list, (len - 2) \div e)
            /\ Len(Upto(list, (len - 2) \div e)) >= 1
<1> DEFINE h == <<c, d>>
           room == len - 2
           n == Least(Len(list), room \div e)
           x == Joined(list, e, n)
           p == h \o x
<1>1. h \in Bytes /\ Len(h) = 2 /\ h[1] = c /\ h[2] = d
  BY DEF Bytes
<1>2. room \in Nat /\ e <= room
  OBVIOUS
<1>3. list \in Seq(Bytes)
  BY DEF Uniform
<1>4. p = <<c, d>> \o Entries(list, e, len)
  BY DEF Entries
<1>10. len - 2 = room
  OBVIOUS
<1> HIDE DEF room
<1>5. /\ n \in 0..Len(list) /\ e * n \in Nat /\ e * n <= room /\ n >= 1
      /\ SubSeq(list, 1, n) = Upto(list, room \div e)
  BY <1>2, <1>3, RoomFor
<1>12. p = h \o Joined(list, e, n)
  OBVIOUS
<1> HIDE DEF h, n, p
<1>6. /\ p \in Bytes /\ Len(p) = Len(h) + e * n
      /\ \A i \in 1..Len(h) : p[i] = h[i]
      /\ (Len(p) - Len(h)) % e = 0
      /\ DataList(p, Len(h) + 1, e) = SubSeq(list, 1, n)
  <2>1. n \in 0..Len(list) /\ h \in Bytes
    BY <1>1, <1>5
  <2>2. Behind(p, h, list, e, n)
    BY <1>12, <2>1, ListBack
  <2> QED
    BY <2>2 DEF Behind
<1>7. n \in Nat /\ e * n >= e
  BY <1>3, <1>5, LenProperties
<1>8. Len(p) <= len /\ Len(p) >= 2 + e /\ p[1] = c /\ p[2] = d
  <2> DEFINE w == e * n
  <2>1. w >= e /\ w \in Nat /\ w <= room /\ Len(p) = Len(h) + w
    BY <1>5, <1>6, <1>7
  <2> HIDE DEF w
  <2>2. p[1] = h[1] /\ p[2] = h[2]
    BY <1>1, <1>6
  <2> QED
    BY <1>1, <1>10, <2>1, <2>2
<1>9. (Len(p) - 2) % e = 0 /\ DataList(p, 3, e) = Upto(list, room \div e)
  <2>1. Len(h) + 1 = 3
    BY <1>1
  <2> QED
    BY <1>1, <1>5, <1>6, <2>1
<1>11. Len(Upto(list, room \div e)) >= 1
  <2>1. \A i \in 1..n : list[i] \in Bytes
    BY <1>3, <1>5, ElementOfSeq
  <2>2. Len(SubSeq(list, 1, n)) = IF 1 <= n THEN n - 1 + 1 ELSE 0
    BY <1>7, <2>1, SubSeqProperties
  <2> QED
    BY <1>5, <1>7, <2>2
<1> QED
  BY <1>4, <1>6, <1>8, <1>9, <1>10, <1>11

\* dec_read_by_grp_resp reads the entries that fit.
LEMMA ReadByGrpRespIs ==
  ASSUME NEW e \in 5..Longest, NEW list, Uniform(list, e), list # <<>>, NEW len \in Nat, e + 2 <= len
  PROVE  LET p == EncReadByGrpResp(list, len)
         IN /\ p \in Bytes /\ Len(p) <= len /\ p[1] = 17
            /\ DecReadByGrpResp(p) = {Upto(list, (len - 2) \div e)}
            /\ Len(Upto(list, (len - 2) \div e)) >= 1
<1> DEFINE p == <<17, e>> \o Entries(list, e, len)
<1>1. e \in Byte /\ 17 \in Byte /\ e \in Nat /\ e > 0 /\ e <= Longest /\ e >= 5
  BY DEF Byte, Longest
<1>2. Len(list[1]) = e
  <2>1. 1 \in 1..Len(list)
    BY LenProperties, EmptySeq DEF Uniform
  <2> QED
    BY <2>1 DEF Uniform
<1>3. /\ p \in Bytes /\ Len(p) <= len /\ Len(p) >= 2 + e /\ p[1] = 17 /\ p[2] = e
      /\ (Len(p) - 2) % e = 0
      /\ DataList(p, 3, e) = Upto(list, (len - 2) \div e)
      /\ Len(Upto(list, (len - 2) \div e)) >= 1
  BY <1>1, ListPacket
<1>4. p = EncReadByGrpResp(list, len)
  <2>1. ~(e > Longest \/ len < e + 2)
    BY <1>1 DEF Longest
  <2> QED
    BY <1>2, <2>1 DEF EncReadByGrpResp
<1> HIDE DEF p
<1>5. ~(p[1] # 17 \/ Len(p) < 7 \/ p[2] < 5)
  <2>1. Len(p) \in Nat
    BY <1>3, LenProperties DEF Bytes
  <2> QED
    BY <1>1, <1>3, <2>1
<1>6. DecReadByGrpResp(p) = {Upto(list, (len - 2) \div e)}
  BY <1>3, <1>5 DEF DecReadByGrpResp, Decoded
<1> QED
  BY <1>3, <1>4, <1>6

\* dec_find_info_resp reads the entries that fit.
LEMMA FindInfoRespIs ==
  ASSUME NEW format \in {1, 2}, NEW e, e = IF format = 1 THEN 4 ELSE 18,
         NEW list, Uniform(list, e), list # <<>>, NEW len \in Nat, e + 2 <= len
  PROVE  LET p == EncFindInfoResp(format, list, len)
         IN /\ p \in Bytes /\ Len(p) <= len /\ p[1] = 5
            /\ DecFindInfoResp(p) = {[format |-> format, list |-> Upto(list, (len - 2) \div e)]}
            /\ Len(Upto(list, (len - 2) \div e)) >= 1
<1> DEFINE p == <<5, format>> \o Entries(list, e, len)
<1>1. e \in Nat /\ e > 0 /\ ~(e > Longest) /\ 5 \in Byte /\ format \in Byte
  BY DEF Byte, Longest
<1>2. Len(list[1]) = e
  <2>1. 1 \in 1..Len(list)
    BY LenProperties, EmptySeq DEF Uniform
  <2> QED
    BY <2>1 DEF Uniform
<1>3. /\ p \in Bytes /\ Len(p) <= len /\ p[1] = 5 /\ p[2] = format
      /\ DataList(p, 3, e) = Upto(list, (len - 2) \div e)
      /\ Len(Upto(list, (len - 2) \div e)) >= 1
  BY <1>1, ListPacket
<1>4. p = EncFindInfoResp(format, list, len)
  <2>1. ~(e > Longest \/ len < e + 2)
    BY <1>1
  <2> QED
    BY <1>2, <2>1 DEF EncFindInfoResp
<1> HIDE DEF p
<1>5. e = 2 + (CASE p[2] = 1 -> 2 [] p[2] = 2 -> 16 [] OTHER -> 0)
  BY <1>3
<1>6. DecFindInfoResp(p) = {[format |-> format, list |-> Upto(list, (len - 2) \div e)]}
  <2> DEFINE u == Upto(list, (len - 2) \div e)
             f == 2 + (CASE p[2] = 1 -> 2 [] p[2] = 2 -> 16 [] OTHER -> 0)
  <2>1. DecFindInfoResp(p) = Decoded(p[1] = 5, [format |-> p[2], list |-> DataList(p, 3, f)])
    BY DEF DecFindInfoResp
  <2>2. e = f
    BY <1>5
  <2> HIDE DEF u, f
  <2>3. DataList(p, 3, f) = u
    BY <1>3, <2>2 DEF u
  <2>4. DecFindInfoResp(p) = {[format |-> format, list |-> u]}
    BY <1>3, <2>1, <2>3 DEF Decoded
  <2> QED
    BY <2>4 DEF u
<1> QED
  BY <1>3, <1>4, <1>6

\* Entries that are cut all the same.
LEMMA CutUniform ==
  ASSUME NEW e \in Nat, NEW list, Uniform(list, e), NEW l \in Nat, l <= e
  PROVE  /\ Uniform(Cut(list, l), l) /\ Len(Cut(list, l)) = Len(list) /\ (l = e => Cut(list, l) = list)
         /\ \A k \in 1..Len(list) : Cut(list, l)[k] = SubSeq(list[k], 1, l)
<1> DEFINE cut == [k \in DOMAIN list |-> SubSeq(list[k], 1, l)]
<1>1. list \in Seq(Bytes) /\ DOMAIN list = 1..Len(list) /\ Len(list) \in Nat
  BY LenProperties DEF Uniform
<1>2. ASSUME NEW k \in 1..Len(list)
      PROVE  /\ SubSeq(list[k], 1, l) \in Bytes /\ Len(SubSeq(list[k], 1, l)) = l
             /\ l = e => SubSeq(list[k], 1, l) = list[k]
  <2>1. list[k] \in Bytes /\ Len(list[k]) = e
    BY <1>1, ElementOfSeq DEF Uniform
  <2>2. \A i \in 1..l : list[k][i] \in Byte
    BY <2>1, ElementOfSeq DEF Bytes
  <2>3. SubSeq(list[k], 1, l) \in Bytes /\ Len(SubSeq(list[k], 1, l)) = IF 1 <= l THEN l - 1 + 1 ELSE 0
    BY <2>2, SubSeqProperties DEF Bytes
  <2>4. l = e => SubSeq(list[k], 1, l) = list[k]
    BY <2>1, SubSeqFull DEF Bytes
  <2> QED
    BY <2>3, <2>4
<1>3. cut \in Seq(Bytes) /\ Len(cut) = Len(list)
  <2> DEFINE E(k) == SubSeq(list[k], 1, l)
  <2>1. cut = [k \in 1..Len(list) |-> E(k)] /\ \A k \in 1..Len(list) : E(k) \in Bytes
    BY <1>1, <1>2
  <2> HIDE DEF cut, E
  <2> QED
    BY <1>1, <2>1
<1>4. \A k \in 1..Len(list) : cut[k] = SubSeq(list[k], 1, l)
  BY <1>1
<1>5. l = e => cut = list
  <2>1. l = e => \A k \in 1..Len(list) : cut[k] = list[k]
    BY <1>2, <1>4
  <2> HIDE DEF cut
  <2> QED
    BY <1>1, <1>3, <2>1, SeqEqual
<1>6. \A k \in 1..Len(cut) : Len(cut[k]) = l
  <2> HIDE DEF cut
  <2> QED
    BY <1>2, <1>3, <1>4
<1> QED
  BY <1>3, <1>4, <1>5, <1>6 DEF Uniform, Cut

\* dec_read_by_type_resp reads the entries that fit, or the first one, cut.
LEMMA ReadByTypeRespIs ==
  ASSUME NEW e \in 3..Longest, NEW list, Uniform(list, e), list # <<>>, NEW len \in Nat, 5 <= len
  PROVE  LET p == EncReadByTypeResp(list, len)
             l == Least(len - 2, e)
             cut == Cut(list, l)
         IN /\ p \in Bytes /\ Len(p) <= len /\ p[1] = 9
            /\ DecReadByTypeResp(p) = {Upto(cut, (len - 2) \div l)}
            /\ Len(Upto(cut, (len - 2) \div l)) >= 1
<1> DEFINE l == Least(len - 2, e)
           cut == Cut(list, l)
           p == <<9, l>> \o Entries(cut, l, len)
<1>1. e \in Nat /\ e <= Longest /\ ~(e > Longest) /\ l \in Nat /\ l >= 3 /\ l <= e /\ l + 2 <= len
      /\ l \in Byte /\ 9 \in Byte
  BY DEF Byte, Longest, Least
<1>2. Len(list[1]) = e
  <2>1. 1 \in 1..Len(list)
    BY LenProperties, EmptySeq DEF Uniform
  <2> QED
    BY <2>1 DEF Uniform
<1>4. p = EncReadByTypeResp(list, len)
  BY <1>1, <1>2 DEF EncReadByTypeResp
<1> HIDE DEF l
<1>5. Uniform(cut, l) /\ Len(cut) = Len(list)
  BY <1>1, CutUniform
<1> HIDE DEF cut
<1>6. cut # <<>>
  BY <1>5, EmptySeq DEF Uniform
<1>3. /\ p \in Bytes /\ Len(p) <= len /\ Len(p) >= 2 + l /\ p[1] = 9 /\ p[2] = l
      /\ (Len(p) - 2) % l = 0
      /\ DataList(p, 3, l) = Upto(cut, (len - 2) \div l)
      /\ Len(Upto(cut, (len - 2) \div l)) >= 1
  <2>1. l > 0 /\ l \in Byte /\ 9 \in Byte /\ l \in Nat /\ l + 2 <= len
    BY <1>1
  <2> QED
    BY <1>5, <1>6, <2>1, ListPacket
<1> HIDE DEF p
<1>7. ~(p[1] # 9 \/ Len(p) < 5 \/ p[2] < 3)
  <2>1. Len(p) \in Nat
    BY <1>3, LenProperties DEF Bytes
  <2> QED
    BY <1>1, <1>3, <2>1
<1>8. DecReadByTypeResp(p) = {Upto(cut, (len - 2) \div l)}
  BY <1>3, <1>7 DEF DecReadByTypeResp, Decoded
<1> QED
  BY <1>3, <1>4, <1>8 DEF l, cut

\* Two numbers.
LEMMA TwoNumbers ==
  ASSUME NEW n \in Word, NEW m \in Word
  PROVE  LET q == Le16(n) \o Le16(m)
         IN q \in Bytes /\ Len(q) = 4 /\ At16(q, 1) = n /\ At16(q, 3) = m
<1> DEFINE h == Le16(n)
           q == h \o Le16(m)
<1>1. h \in Bytes /\ Len(h) = 2 /\ Le16(m) \in Bytes /\ h[1] + 256 * h[2] = n
  BY Halves
<1> HIDE DEF h
<1>2. q \in Bytes /\ Len(q) = Len(h) + 2 /\ At16(q, Len(h) + 1) = m
  BY <1>1, NumberAt
<1>3. \A i \in 1..Len(h) : i < Len(h) => At16(q, i) = At16(h, i)
  BY <1>1, NumberStays
<1> HIDE DEF q
<1>4. At16(q, 1) = At16(h, 1) /\ Len(q) = 4 /\ At16(q, 3) = m
  <2>1. Len(h) + 1 = 3
    BY <1>1
  <2> QED
    BY <1>1, <1>2, <1>3, <2>1
<1>5. At16(h, 1) = n
  BY <1>1 DEF At16
<1> QED
  BY <1>2, <1>4, <1>5 DEF h, q

\* dec_find_by_type_resp reads the ranges that fit.
LEMMA FindByTypeRespIs ==
  ASSUME NEW matches \in Seq(Word \X Word), matches # <<>>, NEW len \in Nat, 5 <= len
  PROVE  LET p == EncFindByTypeResp(matches, len)
         IN /\ p \in Bytes /\ Len(p) <= len /\ p[1] = 7
            /\ DecFindByTypeResp(p) = {Upto(matches, (len - 1) \div 4)}
            /\ Len(Upto(matches, (len - 1) \div 4)) >= 1
<1> DEFINE list == [k \in DOMAIN matches |-> Le16(matches[k][1]) \o Le16(matches[k][2])]
           room == len - 1
           n == Least(Len(matches), room \div 4)
           h == <<7>>
           p == h \o Joined(list, 4, n)
           u == Upto(matches, room \div 4)
<1>1. DOMAIN matches = 1..Len(matches) /\ Len(matches) \in Nat
  BY LenProperties
<1>2. ASSUME NEW k \in 1..Len(matches)
      PROVE  /\ list[k] \in Bytes /\ Len(list[k]) = 4
             /\ At16(list[k], 1) = matches[k][1] /\ At16(list[k], 3) = matches[k][2]
             /\ matches[k] = <<matches[k][1], matches[k][2]>> /\ matches[k] \in Word \X Word
  <2>1. matches[k] \in Word \X Word
    BY ElementOfSeq
  <2>2. /\ matches[k][1] \in Word /\ matches[k][2] \in Word
        /\ matches[k] = <<matches[k][1], matches[k][2]>>
    BY <2>1
  <2> DEFINE q == Le16(matches[k][1]) \o Le16(matches[k][2])
  <2>3. q \in Bytes /\ Len(q) = 4 /\ At16(q, 1) = matches[k][1] /\ At16(q, 3) = matches[k][2]
    BY <2>2, TwoNumbers
  <2>4. list[k] = q
    BY <1>1
  <2> HIDE DEF q, list
  <2> QED
    BY <2>1, <2>2, <2>3, <2>4
<1>3. Uniform(list, 4) /\ Len(list) = Len(matches)
  <2> DEFINE E(k) == Le16(matches[k][1]) \o Le16(matches[k][2])
  <2>1. list = [k \in 1..Len(matches) |-> E(k)]
    BY <1>1
  <2>2. \A k \in 1..Len(matches) : E(k) \in Bytes
    <3>1. \A k \in 1..Len(matches) : list[k] = E(k)
      BY <1>1
    <3> HIDE DEF E, list
    <3> QED
      BY <1>2, <3>1
  <2> HIDE DEF E, list
  <2>3. list \in Seq(Bytes) /\ Len(list) = Len(matches)
    BY <1>1, <2>1, <2>2
  <2>4. \A k \in 1..Len(list) : Len(list[k]) = 4
    BY <1>2, <2>3
  <2> QED
    BY <2>3, <2>4 DEF Uniform
<1>4. p = EncFindByTypeResp(matches, len)
  BY DEF EncFindByTypeResp
<1>5. h \in Bytes /\ Len(h) = 1 /\ h[1] = 7
  BY DEF Byte, Bytes
<1>6. room \in Nat /\ 4 <= room
  OBVIOUS
<1>7. n \in 0..Len(matches) /\ 4 * n \in Nat /\ 4 * n <= room /\ n >= 1 /\ SubSeq(matches, 1, n) = u
  <2>1. 4 \in Nat /\ 4 > 0 /\ matches \in Seq(Word \X Word)
    OBVIOUS
  <2> HIDE DEF room
  <2> DEFINE W == Word \X Word
  <2>2. matches \in Seq(W)
    OBVIOUS
  <2> HIDE DEF W
  <2>3. /\ n \in 0..Len(matches) /\ 4 * n \in Nat /\ 4 * n <= room
        /\ SubSeq(matches, 1, n) = Upto(matches, room \div 4)
        /\ matches # <<>> /\ 4 <= room => n >= 1
    BY <1>6, <2>1, <2>2, RoomFor
  <2> QED
    BY <1>6, <2>3
<1> HIDE DEF list, h
<1>8. p = h \o Joined(list, 4, n)
  OBVIOUS
<1>15. room = len - 1
  OBVIOUS
<1> HIDE DEF p, n, u, room
<1>9. Behind(p, h, list, 4, n)
  <2>1. 4 \in Nat /\ 4 > 0 /\ Uniform(list, 4) /\ n \in 0..Len(list) /\ h \in Bytes
    BY <1>3, <1>5, <1>7
  <2> QED
    BY <1>8, <2>1, ListBack
<1>10. p \in Bytes /\ Len(p) = 1 + 4 * n /\ p[1] = 7 /\ (Len(p) - 1) % 4 = 0 /\ (Len(p) - 1) \div 4 = n
  <2>1. p \in Bytes /\ Len(p) = Len(h) + 4 * n /\ \A i \in 1..Len(h) : p[i] = h[i]
    BY <1>9 DEF Behind
  <2>2. (Len(p) - Len(h)) % 4 = 0 /\ (Len(p) - Len(h)) \div 4 = n
    BY <1>9 DEF Behind
  <2> QED
    BY <1>5, <2>1, <2>2
<1>11. ASSUME NEW k \in 1..n
       PROVE  <<At16(p, 4 * k - 2), At16(p, 4 * k)>> = matches[k]
  <2>1. \A i \in 1..4 : p[Len(h) + (k - 1) * 4 + i] = list[k][i]
    BY <1>9 DEF Behind
  <2>2. /\ p[Len(h) + (k - 1) * 4 + 1] = list[k][1] /\ p[Len(h) + (k - 1) * 4 + 2] = list[k][2]
        /\ p[Len(h) + (k - 1) * 4 + 3] = list[k][3] /\ p[Len(h) + (k - 1) * 4 + 4] = list[k][4]
    BY <2>1
  <2>3. /\ Len(h) + (k - 1) * 4 + 1 = 4 * k - 2 /\ Len(h) + (k - 1) * 4 + 2 = (4 * k - 2) + 1
        /\ Len(h) + (k - 1) * 4 + 3 = 4 * k /\ Len(h) + (k - 1) * 4 + 4 = 4 * k + 1
    BY <1>5
  <2>4. /\ p[4 * k - 2] = list[k][1] /\ p[(4 * k - 2) + 1] = list[k][2]
        /\ p[4 * k] = list[k][3] /\ p[4 * k + 1] = list[k][4]
    BY <2>2, <2>3
  <2>5. k \in 1..Len(matches)
    BY <1>1, <1>7
  <2>6. At16(p, 4 * k - 2) = At16(list[k], 1) /\ At16(p, 4 * k) = At16(list[k], 3)
    BY <2>4 DEF At16
  <2> QED
    BY <1>2, <2>5, <2>6
<1>12. DecFindByTypeResp(p) = {u}
  <2> DEFINE d == [k \in 1..((Len(p) - 1) \div 4) |-> <<At16(p, 4 * k - 2), At16(p, 4 * k)>>]
             E(k) == <<At16(p, 4 * k - 2), At16(p, 4 * k)>>
  <2>1. d = [k \in 1..n |-> E(k)]
    BY <1>10
  <2>2. \A k \in 1..n : matches[k] \in Word \X Word /\ k \in 1..Len(matches)
    BY <1>1, <1>2, <1>7
  <2>3. \A k \in 1..n : E(k) \in Word \X Word /\ E(k) = matches[k]
    BY <1>11, <2>2
  <2>4. d \in Seq(Word \X Word) /\ Len(d) = n /\ \A k \in 1..n : d[k] = matches[k]
    <3> HIDE DEF d, E
    <3> QED
      BY <1>1, <1>7, <2>1, <2>3
  <2> DEFINE t == SubSeq(matches, 1, n)
  <2>5. t \in Seq(Word \X Word) /\ Len(t) = n /\ \A k \in 1..n : t[k] = matches[k]
    BY <1>1, <1>7, <2>2, SubSeqProperties
  <2> HIDE DEF d, t
  <2>6. d = t
    BY <2>4, <2>5, SeqEqual
  <2>7. ~(Len(p) < 5 \/ p[1] # 7)
    BY <1>1, <1>7, <1>10
  <2>8. d = u
    BY <1>7, <2>6 DEF t
  <2> QED
    BY <1>10, <2>7, <2>8 DEF DecFindByTypeResp, Decoded, d
<1>13. Len(u) >= 1
  <2>1. \A i \in 1..n : matches[i] \in Word \X Word
    BY <1>1, <1>7, ElementOfSeq
  <2>2. Len(SubSeq(matches, 1, n)) = IF 1 <= n THEN n - 1 + 1 ELSE 0
    BY <1>1, <1>7, <2>1, SubSeqProperties
  <2> QED
    BY <1>1, <1>7, <2>2
<1>14. Len(p) <= len
  BY <1>7, <1>10, <1>15
<1> QED
  BY <1>4, <1>10, <1>12, <1>13, <1>14, <1>15 DEF u

\* The arguments of a message.
LEMMA MessageIs ==
  ASSUME NEW m \in Messages
  PROVE  /\ m.kind \in Requests \cup Pushed \cup Responses
         /\ m.start \in Word /\ m.end \in Word
         /\ m.uuid \in Bytes /\ Len(m.uuid) \in {2, 16}
         /\ m.value \in Bytes /\ m.len \in Nat /\ 23 <= m.len
         /\ Signature \in Bytes /\ Len(Signature) = 12
<1>1. /\ m.kind \in Requests \cup Pushed \cup Responses
      /\ m.start \in Handles /\ m.end \in Handles /\ m.uuid \in Uuids /\ m.value \in Values /\ m.len \in Lens
  BY DEF Messages
<1>2. m.len \in Nat /\ 23 <= m.len
  <2>1. m.len \in Word /\ m.len >= 23
    BY <1>1, PduAssumption
  <2> QED
    BY <2>1, WordIs
<1> QED
  BY <1>1, <1>2, PduAssumption

\* The requests that are answered, with their own opcodes.
Opcodes == {<<"find_info_req", 4>>, <<"find_by_type_req", 6>>, <<"read_by_type_req", 8>>, <<"read_req", 10>>,
            <<"read_blob_req", 12>>, <<"read_by_grp_req", 16>>, <<"write_req", 18>>,
            <<"prep_write_req", 22>>, <<"mtu_req", 2>>}
\* The requests that are answered.
Refusable == {"find_info_req", "find_by_type_req", "read_by_type_req", "read_req",
              "read_blob_req", "read_by_grp_req", "write_req", "prep_write_req", "mtu_req"}

\* What the theorems say of the packet of one message.
Faithful(m, p) ==
  /\ p \in Bytes /\ Len(p) <= m.len
  /\ m.kind \notin {"prep_write_resp", "notification"} => Decode(m.kind, p) = {Meaning(m)}
  /\ m.kind \in Refusable => <<m.kind, p[1]>> \in Opcodes /\ At16(p, 2) = m.start

\* Of a read by group request.
LEMMA ReadByGrpReqFaithful ==
  ASSUME NEW m \in Messages, m.kind = "read_by_grp_req", Encode(m) # Nothing
  PROVE  Faithful(m, Encode(m))
<1> DEFINE p == Encode(m)
<1>1. p = EncReadByGrpReq(m.start, m.end, m.uuid)
  BY DEF Encode
<1>2. /\ m.start \in Word /\ m.end \in Word /\ m.uuid \in Bytes /\ Len(m.uuid) \in {2, 16}
      /\ m.value \in Bytes /\ m.len \in Nat /\ 23 <= m.len /\ Signature \in Bytes /\ Len(Signature) = 12
  BY MessageIs
<1>3. Decode(m.kind, p) = DecReadByGrpReq(p) /\ Meaning(m) = [start |-> m.start, end |-> m.end, uuid |-> m.uuid]
  BY DEF Decode, Meaning

<1> HIDE DEF p
<1>4. p \in Bytes /\ Len(p) = 5 + Len(m.uuid) /\ p[1] = 16 /\ At16(p, 2) = m.start /\ DecReadByGrpReq(p) = {[start |-> m.start, end |-> m.end, uuid |-> m.uuid]}
  BY <1>1, <1>2, ReadByGrpReqIs
<1>5. Len(p) <= m.len
  <2>1. CASE Len(m.uuid) = 2
    <3>1. Len(p) = 7
      BY <1>4, <2>1
    <3> QED
      BY <1>2, <3>1
  <2>2. CASE Len(m.uuid) = 16
    <3>1. Len(p) = 21
      BY <1>4, <2>2
    <3> QED
      BY <1>2, <3>1
  <2> QED
    BY <1>2, <2>1, <2>2
<1>6. <<m.kind, p[1]>> \in Opcodes
  BY <1>4 DEF Opcodes
<1>7. Faithful(m, p)
  BY <1>3, <1>4, <1>5, <1>6 DEF Faithful
<1> QED
  BY <1>7 DEF p

\* Of a read by type request.
LEMMA ReadByTypeReqFaithful ==
  ASSUME NEW m \in Messages, m.kind = "read_by_type_req", Encode(m) # Nothing
  PROVE  Faithful(m, Encode(m))
<1> DEFINE p == Encode(m)
<1>1. p = EncReadByTypeReq(m.start, m.end, m.uuid)
  BY DEF Encode
<1>2. /\ m.start \in Word /\ m.end \in Word /\ m.uuid \in Bytes /\ Len(m.uuid) \in {2, 16}
      /\ m.value \in Bytes /\ m.len \in Nat /\ 23 <= m.len /\ Signature \in Bytes /\ Len(Signature) = 12
  BY MessageIs
<1>3. Decode(m.kind, p) = DecReadByTypeReq(p) /\ Meaning(m) = [start |-> m.start, end |-> m.end, uuid |-> m.uuid]
  BY DEF Decode, Meaning

<1> HIDE DEF p
<1>4. p \in Bytes /\ Len(p) = 5 + Len(m.uuid) /\ p[1] = 8 /\ At16(p, 2) = m.start /\ DecReadByTypeReq(p) = {[start |-> m.start, end |-> m.end, uuid |-> m.uuid]}
  BY <1>1, <1>2, ReadByTypeReqIs
<1>5. Len(p) <= m.len
  <2>1. CASE Len(m.uuid) = 2
    <3>1. Len(p) = 7
      BY <1>4, <2>1
    <3> QED
      BY <1>2, <3>1
  <2>2. CASE Len(m.uuid) = 16
    <3>1. Len(p) = 21
      BY <1>4, <2>2
    <3> QED
      BY <1>2, <3>1
  <2> QED
    BY <1>2, <2>1, <2>2
<1>6. <<m.kind, p[1]>> \in Opcodes
  BY <1>4 DEF Opcodes
<1>7. Faithful(m, p)
  BY <1>3, <1>4, <1>5, <1>6 DEF Faithful
<1> QED
  BY <1>7 DEF p

\* Of a find info request.
LEMMA FindInfoReqFaithful ==
  ASSUME NEW m \in Messages, m.kind = "find_info_req", Encode(m) # Nothing
  PROVE  Faithful(m, Encode(m))
<1> DEFINE p == Encode(m)
<1>1. p = EncFindInfoReq(m.start, m.end)
  BY DEF Encode
<1>2. /\ m.start \in Word /\ m.end \in Word /\ m.uuid \in Bytes /\ Len(m.uuid) \in {2, 16}
      /\ m.value \in Bytes /\ m.len \in Nat /\ 23 <= m.len /\ Signature \in Bytes /\ Len(Signature) = 12
  BY MessageIs
<1>3. Decode(m.kind, p) = DecFindInfoReq(p) /\ Meaning(m) = [start |-> m.start, end |-> m.end]
  BY DEF Decode, Meaning

<1> HIDE DEF p
<1>4. p \in Bytes /\ Len(p) = 5 /\ p[1] = 4 /\ At16(p, 2) = m.start /\ DecFindInfoReq(p) = {[start |-> m.start, end |-> m.end]}
  BY <1>1, <1>2, FindInfoReqIs
<1>5. Len(p) <= m.len
  BY <1>2, <1>4
<1>6. <<m.kind, p[1]>> \in Opcodes
  BY <1>4 DEF Opcodes
<1>7. Faithful(m, p)
  BY <1>3, <1>4, <1>5, <1>6 DEF Faithful
<1> QED
  BY <1>7 DEF p

\* Of a read blob request.
LEMMA ReadBlobReqFaithful ==
  ASSUME NEW m \in Messages, m.kind = "read_blob_req", Encode(m) # Nothing
  PROVE  Faithful(m, Encode(m))
<1> DEFINE p == Encode(m)
<1>1. p = EncReadBlobReq(m.start, m.end)
  BY DEF Encode
<1>2. /\ m.start \in Word /\ m.end \in Word /\ m.uuid \in Bytes /\ Len(m.uuid) \in {2, 16}
      /\ m.value \in Bytes /\ m.len \in Nat /\ 23 <= m.len /\ Signature \in Bytes /\ Len(Signature) = 12
  BY MessageIs
<1>3. Decode(m.kind, p) = DecReadBlobReq(p) /\ Meaning(m) = [handle |-> m.start, offset |-> m.end]
  BY DEF Decode, Meaning

<1> HIDE DEF p
<1>4. p \in Bytes /\ Len(p) = 5 /\ p[1] = 12 /\ At16(p, 2) = m.start /\ DecReadBlobReq(p) = {[handle |-> m.start, offset |-> m.end]}
  BY <1>1, <1>2, ReadBlobReqIs
<1>5. Len(p) <= m.len
  BY <1>2, <1>4
<1>6. <<m.kind, p[1]>> \in Opcodes
  BY <1>4 DEF Opcodes
<1>7. Faithful(m, p)
  BY <1>3, <1>4, <1>5, <1>6 DEF Faithful
<1> QED
  BY <1>7 DEF p

\* Of a find by type request.
LEMMA FindByTypeReqFaithful ==
  ASSUME NEW m \in Messages, m.kind = "find_by_type_req", Encode(m) # Nothing
  PROVE  Faithful(m, Encode(m))
<1> DEFINE p == Encode(m)
<1>1. p = EncFindByTypeReq(m.start, m.end, m.uuid, m.value, m.len)
  BY DEF Encode
<1>2. /\ m.start \in Word /\ m.end \in Word /\ m.uuid \in Bytes /\ Len(m.uuid) \in {2, 16}
      /\ m.value \in Bytes /\ m.len \in Nat /\ 23 <= m.len /\ Signature \in Bytes /\ Len(Signature) = 12
  BY MessageIs
<1>3. Decode(m.kind, p) = DecFindByTypeReq(p) /\ Meaning(m) = [start |-> m.start, end |-> m.end, uuid |-> m.uuid, value |-> Upto(m.value, m.len - 7)]
  BY DEF Decode, Meaning

<1> HIDE DEF p
<1>8. 7 <= m.len
  BY <1>2
<1>9. Len(m.uuid) = 2
  BY <1>1, Zenon DEF EncFindByTypeReq, p
<1>4. p \in Bytes /\ Len(p) <= m.len /\ p[1] = 6 /\ At16(p, 2) = m.start /\ DecFindByTypeReq(p) = {[start |-> m.start, end |-> m.end, uuid |-> m.uuid, value |-> Upto(m.value, m.len - 7)]}
  <2>1. Searching(p, m.start, m.end, m.uuid, m.value, m.len)
    BY <1>1, <1>2, <1>8, <1>9, FindByTypeReqIs
  <2> QED
    BY <2>1 DEF Searching
<1>5. Len(p) <= m.len
  BY <1>2, <1>4
<1>6. <<m.kind, p[1]>> \in Opcodes
  BY <1>4 DEF Opcodes
<1>7. Faithful(m, p)
  BY <1>3, <1>4, <1>5, <1>6 DEF Faithful
<1> QED
  BY <1>7 DEF p

\* Of a write command.
LEMMA WriteCmdFaithful ==
  ASSUME NEW m \in Messages, m.kind = "write_cmd", Encode(m) # Nothing
  PROVE  Faithful(m, Encode(m))
<1> DEFINE p == Encode(m)
<1>1. p = EncWriteCmd(m.start, m.value, m.len)
  BY DEF Encode
<1>2. /\ m.start \in Word /\ m.end \in Word /\ m.uuid \in Bytes /\ Len(m.uuid) \in {2, 16}
      /\ m.value \in Bytes /\ m.len \in Nat /\ 23 <= m.len /\ Signature \in Bytes /\ Len(Signature) = 12
  BY MessageIs
<1>3. Decode(m.kind, p) = DecWriteCmd(p) /\ Meaning(m) = [handle |-> m.start, value |-> Upto(m.value, m.len - 3)]
  BY DEF Decode, Meaning

<1> HIDE DEF p
<1>8. 3 <= m.len
  BY <1>2
<1>4. p \in Bytes /\ Len(p) <= m.len /\ DecWriteCmd(p) = {[handle |-> m.start, value |-> Upto(m.value, m.len - 3)]}
  BY <1>1, <1>2, <1>8, WriteCmdIs
<1>5. Len(p) <= m.len
  BY <1>2, <1>4
<1>6. m.kind \notin Refusable
  BY DEF Refusable
<1>7. Faithful(m, p)
  BY <1>3, <1>4, <1>5, <1>6 DEF Faithful
<1> QED
  BY <1>7 DEF p

\* Of a write request.
LEMMA WriteReqFaithful ==
  ASSUME NEW m \in Messages, m.kind = "write_req", Encode(m) # Nothing
  PROVE  Faithful(m, Encode(m))
<1> DEFINE p == Encode(m)
<1>1. p = EncWriteReq(m.start, m.value, m.len)
  BY DEF Encode
<1>2. /\ m.start \in Word /\ m.end \in Word /\ m.uuid \in Bytes /\ Len(m.uuid) \in {2, 16}
      /\ m.value \in Bytes /\ m.len \in Nat /\ 23 <= m.len /\ Signature \in Bytes /\ Len(Signature) = 12
  BY MessageIs
<1>3. Decode(m.kind, p) = DecWriteReq(p) /\ Meaning(m) = [handle |-> m.start, value |-> Upto(m.value, m.len - 3)]
  BY DEF Decode, Meaning

<1> HIDE DEF p
<1>8. 3 <= m.len
  BY <1>2
<1>4. p \in Bytes /\ Len(p) <= m.len /\ p[1] = 18 /\ At16(p, 2) = m.start /\ DecWriteReq(p) = {[handle |-> m.start, value |-> Upto(m.value, m.len - 3)]}
  BY <1>1, <1>2, <1>8, WriteReqIs
<1>5. Len(p) <= m.len
  BY <1>2, <1>4
<1>6. <<m.kind, p[1]>> \in Opcodes
  BY <1>4 DEF Opcodes
<1>7. Faithful(m, p)
  BY <1>3, <1>4, <1>5, <1>6 DEF Faithful
<1> QED
  BY <1>7 DEF p

\* Of a signed write command.
LEMMA SignedWriteCmdFaithful ==
  ASSUME NEW m \in Messages, m.kind = "signed_write_cmd", Encode(m) # Nothing
  PROVE  Faithful(m, Encode(m))
<1> DEFINE p == Encode(m)
<1>1. p = EncSignedWriteCmd(m.start, m.value, Signature, m.len)
  BY DEF Encode
<1>2. /\ m.start \in Word /\ m.end \in Word /\ m.uuid \in Bytes /\ Len(m.uuid) \in {2, 16}
      /\ m.value \in Bytes /\ m.len \in Nat /\ 23 <= m.len /\ Signature \in Bytes /\ Len(Signature) = 12
  BY MessageIs
<1>3. Decode(m.kind, p) = DecSignedWriteCmd(p) /\ Meaning(m) = [handle |-> m.start, value |-> Upto(m.value, m.len - 15), signature |-> Signature]
  BY DEF Decode, Meaning

<1> HIDE DEF p
<1>8. 15 <= m.len
  BY <1>2
<1>4. p \in Bytes /\ Len(p) <= m.len /\ DecSignedWriteCmd(p) = {[handle |-> m.start, value |-> Upto(m.value, m.len - 15), signature |-> Signature]}
  BY <1>1, <1>2, <1>8, SignedWriteCmdIs
<1>5. Len(p) <= m.len
  BY <1>2, <1>4
<1>6. m.kind \notin Refusable
  BY DEF Refusable
<1>7. Faithful(m, p)
  BY <1>3, <1>4, <1>5, <1>6 DEF Faithful
<1> QED
  BY <1>7 DEF p

\* Of a read request.
LEMMA ReadReqFaithful ==
  ASSUME NEW m \in Messages, m.kind = "read_req", Encode(m) # Nothing
  PROVE  Faithful(m, Encode(m))
<1> DEFINE p == Encode(m)
<1>1. p = EncReadReq(m.start)
  BY DEF Encode
<1>2. /\ m.start \in Word /\ m.end \in Word /\ m.uuid \in Bytes /\ Len(m.uuid) \in {2, 16}
      /\ m.value \in Bytes /\ m.len \in Nat /\ 23 <= m.len /\ Signature \in Bytes /\ Len(Signature) = 12
  BY MessageIs
<1>3. Decode(m.kind, p) = DecReadReq(p) /\ Meaning(m) = [handle |-> m.start]
  BY DEF Decode, Meaning

<1> HIDE DEF p
<1>4. p \in Bytes /\ Len(p) = 3 /\ p[1] = 10 /\ At16(p, 2) = m.start /\ DecReadReq(p) = {[handle |-> m.start]}
  BY <1>1, <1>2, ReadReqIs
<1>5. Len(p) <= m.len
  BY <1>2, <1>4
<1>6. <<m.kind, p[1]>> \in Opcodes
  BY <1>4 DEF Opcodes
<1>7. Faithful(m, p)
  BY <1>3, <1>4, <1>5, <1>6 DEF Faithful
<1> QED
  BY <1>7 DEF p

\* Of an mtu request.
LEMMA MtuReqFaithful ==
  ASSUME NEW m \in Messages, m.kind = "mtu_req", Encode(m) # Nothing
  PROVE  Faithful(m, Encode(m))
<1> DEFINE p == Encode(m)
<1>1. p = EncMtuReq(m.start)
  BY DEF Encode
<1>2. /\ m.start \in Word /\ m.end \in Word /\ m.uuid \in Bytes /\ Len(m.uuid) \in {2, 16}
      /\ m.value \in Bytes /\ m.len \in Nat /\ 23 <= m.len /\ Signature \in Bytes /\ Len(Signature) = 12
  BY MessageIs
<1>3. Decode(m.kind, p) = DecMtuReq(p) /\ Meaning(m) = [mtu |-> m.start]
  BY DEF Decode, Meaning

<1> HIDE DEF p
<1>4. p \in Bytes /\ Len(p) = 3 /\ p[1] = 2 /\ At16(p, 2) = m.start /\ DecMtuReq(p) = {[mtu |-> m.start]}
  BY <1>1, <1>2, MtuReqIs
<1>5. Len(p) <= m.len
  BY <1>2, <1>4
<1>6. <<m.kind, p[1]>> \in Opcodes
  BY <1>4 DEF Opcodes
<1>7. Faithful(m, p)
  BY <1>3, <1>4, <1>5, <1>6 DEF Faithful
<1> QED
  BY <1>7 DEF p

\* Of an mtu response.
LEMMA MtuRespFaithful ==
  ASSUME NEW m \in Messages, m.kind = "mtu_resp", Encode(m) # Nothing
  PROVE  Faithful(m, Encode(m))
<1> DEFINE p == Encode(m)
<1>1. p = EncMtuResp(m.start)
  BY DEF Encode
<1>2. /\ m.start \in Word /\ m.end \in Word /\ m.uuid \in Bytes /\ Len(m.uuid) \in {2, 16}
      /\ m.value \in Bytes /\ m.len \in Nat /\ 23 <= m.len /\ Signature \in Bytes /\ Len(Signature) = 12
  BY MessageIs
<1>3. Decode(m.kind, p) = DecMtuResp(p) /\ Meaning(m) = [mtu |-> m.start]
  BY DEF Decode, Meaning

<1> HIDE DEF p
<1>4. p \in Bytes /\ Len(p) = 3 /\ DecMtuResp(p) = {[mtu |-> m.start]}
  BY <1>1, <1>2, MtuRespIs
<1>5. Len(p) <= m.len
  BY <1>2, <1>4
<1>6. m.kind \notin Refusable
  BY DEF Refusable
<1>7. Faithful(m, p)
  BY <1>3, <1>4, <1>5, <1>6 DEF Faithful
<1> QED
  BY <1>7 DEF p

\* Of a prep write request.
LEMMA PrepWriteReqFaithful ==
  ASSUME NEW m \in Messages, m.kind = "prep_write_req", Encode(m) # Nothing
  PROVE  Faithful(m, Encode(m))
<1> DEFINE p == Encode(m)
<1>1. p = EncPrepWriteReq(m.start, m.end, m.value, m.len)
  BY DEF Encode
<1>2. /\ m.start \in Word /\ m.end \in Word /\ m.uuid \in Bytes /\ Len(m.uuid) \in {2, 16}
      /\ m.value \in Bytes /\ m.len \in Nat /\ 23 <= m.len /\ Signature \in Bytes /\ Len(Signature) = 12
  BY MessageIs
<1>3. Decode(m.kind, p) = DecPrepWriteReq(p) /\ Meaning(m) = [handle |-> m.start, offset |-> m.end, value |-> Upto(m.value, m.len - 5)]
  BY DEF Decode, Meaning

<1> HIDE DEF p
<1>8. 5 <= m.len
  BY <1>2
<1>4. /\ p \in Bytes /\ Len(p) <= m.len /\ p[1] = 22 /\ At16(p, 2) = m.start
      /\ DecPrepWriteReq(p) = {[handle |-> m.start, offset |-> m.end, value |-> Upto(m.value, m.len - 5)]}
  <2>1. LET q == EncPrepWriteReq(m.start, m.end, m.value, m.len)
        IN /\ q \in Bytes /\ Len(q) <= m.len /\ q[1] = 22 /\ At16(q, 2) = m.start
           /\ DecPrepWriteReq(q) = {[handle |-> m.start, offset |-> m.end, value |-> Upto(m.value, m.len - 5)]}
    BY <1>2, <1>8, PrepWriteReqIs
  <2> QED
    BY <1>1, <2>1
<1>5. Len(p) <= m.len
  BY <1>2, <1>4
<1>6. <<m.kind, p[1]>> \in Opcodes
  BY <1>4 DEF Opcodes
<1>7. Faithful(m, p)
  BY <1>3, <1>4, <1>5, <1>6 DEF Faithful
<1> QED
  BY <1>7 DEF p

\* Of a prep write response.
LEMMA PrepWriteRespFaithful ==
  ASSUME NEW m \in Messages, m.kind = "prep_write_resp", Encode(m) # Nothing
  PROVE  Faithful(m, Encode(m))
<1> DEFINE p == Encode(m)
<1>1. p = EncPrepWriteResp(m.start, m.end, m.value, m.len)
  BY DEF Encode
<1>2. /\ m.start \in Word /\ m.end \in Word /\ m.uuid \in Bytes /\ Len(m.uuid) \in {2, 16}
      /\ m.value \in Bytes /\ m.len \in Nat /\ 23 <= m.len /\ Signature \in Bytes /\ Len(Signature) = 12
  BY MessageIs

<1> HIDE DEF p
<1>8. 5 <= m.len
  BY <1>2
<1>4. p \in Bytes /\ Len(p) <= m.len
  BY <1>1, <1>2, <1>8, PrepWriteRespIs
<1>5. Len(p) <= m.len
  BY <1>2, <1>4
<1>6. m.kind \notin Refusable
  BY DEF Refusable
<1>7. Faithful(m, p)
  BY <1>4, <1>5, <1>6 DEF Faithful
<1> QED
  BY <1>7 DEF p

\* Of a notification.
LEMMA NotificationFaithful ==
  ASSUME NEW m \in Messages, m.kind = "notification", Encode(m) # Nothing
  PROVE  Faithful(m, Encode(m))
<1> DEFINE p == Encode(m)
<1>1. p = EncNotification(m.start, m.value, m.len)
  BY DEF Encode
<1>2. /\ m.start \in Word /\ m.end \in Word /\ m.uuid \in Bytes /\ Len(m.uuid) \in {2, 16}
      /\ m.value \in Bytes /\ m.len \in Nat /\ 23 <= m.len /\ Signature \in Bytes /\ Len(Signature) = 12
  BY MessageIs

<1> HIDE DEF p
<1>8. EncNotification(m.start, m.value, m.len) # Nothing
  BY <1>1 DEF p
<1>4. p \in Bytes /\ Len(p) <= m.len
  BY <1>1, <1>2, <1>8, NotificationIs
<1>5. Len(p) <= m.len
  BY <1>2, <1>4
<1>6. m.kind \notin Refusable
  BY DEF Refusable
<1>7. Faithful(m, p)
  BY <1>4, <1>5, <1>6 DEF Faithful
<1> QED
  BY <1>7 DEF p

\* Of an indication.
LEMMA IndicationFaithful ==
  ASSUME NEW m \in Messages, m.kind = "indication", Encode(m) # Nothing
  PROVE  Faithful(m, Encode(m))
<1> DEFINE p == Encode(m)
<1>1. p = EncIndication(m.start, m.value, m.len)
  BY DEF Encode
<1>2. /\ m.start \in Word /\ m.end \in Word /\ m.uuid \in Bytes /\ Len(m.uuid) \in {2, 16}
      /\ m.value \in Bytes /\ m.len \in Nat /\ 23 <= m.len /\ Signature \in Bytes /\ Len(Signature) = 12
  BY MessageIs
<1>3. Decode(m.kind, p) = DecIndication(p, Len(p)) /\ Meaning(m) = [handle |-> m.start, value |-> m.value]
  BY DEF Decode, Meaning

<1> HIDE DEF p
<1>8. EncIndication(m.start, m.value, m.len) # Nothing
  BY <1>1 DEF p
<1>4. p \in Bytes /\ Len(p) <= m.len /\ DecIndication(p, Len(p)) = {[handle |-> m.start, value |-> m.value]}
  BY <1>1, <1>2, <1>8, IndicationIs
<1>5. Len(p) <= m.len
  BY <1>2, <1>4
<1>6. m.kind \notin Refusable
  BY DEF Refusable
<1>7. Faithful(m, p)
  BY <1>3, <1>4, <1>5, <1>6 DEF Faithful
<1> QED
  BY <1>7 DEF p

\* Of a read response.
LEMMA ReadRespFaithful ==
  ASSUME NEW m \in Messages, m.kind = "read_resp", Encode(m) # Nothing
  PROVE  Faithful(m, Encode(m))
<1> DEFINE p == Encode(m)
<1>1. p = EncReadResp(m.value, m.len)
  BY DEF Encode
<1>2. /\ m.start \in Word /\ m.end \in Word /\ m.uuid \in Bytes /\ Len(m.uuid) \in {2, 16}
      /\ m.value \in Bytes /\ m.len \in Nat /\ 23 <= m.len /\ Signature \in Bytes /\ Len(Signature) = 12
  BY MessageIs
<1>3. Decode(m.kind, p) = DecReadResp(p, Len(p)) /\ Meaning(m) = Upto(m.value, m.len - 1)
  BY DEF Decode, Meaning

<1> HIDE DEF p
<1>8. 1 <= m.len
  BY <1>2
<1>9. /\ p \in Bytes /\ Len(p) <= m.len
      /\ \A room \in Nat : Len(p) <= room + 1 => DecReadResp(p, room) = {Upto(m.value, m.len - 1)}
  BY <1>1, <1>2, <1>8, ReadRespIs
<1>10. Len(p) \in Nat /\ Len(p) <= Len(p) + 1
  BY <1>9, LenProperties DEF Bytes
<1>4. p \in Bytes /\ Len(p) <= m.len /\ DecReadResp(p, Len(p)) = {Upto(m.value, m.len - 1)}
  BY <1>9, <1>10
<1>5. Len(p) <= m.len
  BY <1>2, <1>4
<1>6. m.kind \notin Refusable
  BY DEF Refusable
<1>7. Faithful(m, p)
  BY <1>3, <1>4, <1>5, <1>6 DEF Faithful
<1> QED
  BY <1>7 DEF p

\* The packets of one octet or two.
LEMMA WriteRespFaithful ==
  ASSUME NEW m \in Messages, m.kind \in {"write_resp", "exec_write_resp", "exec_write_req"}, Encode(m) # Nothing
  PROVE  Faithful(m, Encode(m))
<1>1. m.len \in Nat /\ 23 <= m.len /\ m.start \in Word
  BY MessageIs
<1>2. m.kind \notin Refusable
  BY DEF Refusable
<1>3. CASE m.kind = "write_resp"
  <2>1. Encode(m) = EncWriteResp /\ Decode(m.kind, EncWriteResp) = DecWriteResp(EncWriteResp) /\ Meaning(m) = 1
    BY <1>3 DEF Encode, Decode, Meaning
  <2>2. EncWriteResp \in Bytes /\ Len(EncWriteResp) <= m.len /\ DecWriteResp(EncWriteResp) = {1}
    BY <1>1, ShortPackets
  <2> QED
    BY <1>2, <2>1, <2>2 DEF Faithful
<1>4. CASE m.kind = "exec_write_resp"
  <2>1. /\ Encode(m) = EncExecWriteResp /\ Meaning(m) = 1
        /\ Decode(m.kind, EncExecWriteResp) = DecExecWriteResp(EncExecWriteResp)
    BY <1>4 DEF Encode, Decode, Meaning
  <2>2. EncExecWriteResp \in Bytes /\ Len(EncExecWriteResp) <= m.len /\ DecExecWriteResp(EncExecWriteResp) = {1}
    BY <1>1, ShortPackets
  <2> QED
    BY <1>2, <2>1, <2>2 DEF Faithful
<1>5. CASE m.kind = "exec_write_req"
  <2> DEFINE p == EncExecWriteReq(m.start)
  <2>1. Encode(m) = p /\ Meaning(m) = [flags |-> m.start] /\ Decode(m.kind, p) = DecExecWriteReq(p)
    BY <1>5 DEF Encode, Decode, Meaning
  <2>2. m.start \in {0, 1}
    <3>1. ~(m.start > 1)
      BY <2>1, Zenon DEF EncExecWriteReq
    <3>2. m.start \in Nat
      BY <1>1, WordIs
    <3> QED
      BY <3>1, <3>2
  <2>3. p = <<24, m.start>> /\ p \in Bytes /\ DecExecWriteReq(p) = {[flags |-> m.start]}
    BY <2>2, ShortPackets
  <2>4. Len(p) <= m.len
    BY <1>1, <2>3
  <2> QED
    BY <1>2, <2>1, <2>3, <2>4 DEF Faithful
<1> QED
  BY <1>3, <1>4, <1>5

\* The entries of a list.
LEMMA EntryIs ==
  ASSUME NEW n \in Word, NEW m \in Word, NEW value \in Bytes
  PROVE  LET x == Le16(n) \o Le16(m) \o <<0>> \o value
         IN x \in Bytes /\ Len(x) = 5 + Len(value)
<1> DEFINE q == Le16(n) \o Le16(m)
           z == <<0>>
           h == q \o z
<1>1. q \in Bytes /\ Len(q) = 4
  BY TwoNumbers
<1>2. z \in Bytes /\ Len(z) = 1
  BY DEF Byte, Bytes
<1> HIDE DEF q, z
<1>3. h \in Bytes /\ Len(h) = Len(q) + Len(z)
  BY <1>1, <1>2, HeaderRest
<1> HIDE DEF h
<1>4. h \o value \in Bytes /\ Len(h \o value) = Len(h) + Len(value)
  BY <1>3, HeaderRest
<1> DEFINE x == h \o value
<1> HIDE DEF x
<1>5. x \in Bytes /\ Len(x) = 5 + Len(value)
  BY <1>1, <1>2, <1>3, <1>4 DEF x
<1> QED
  BY <1>5 DEF x, h, q, z

\* A list of two entries of one length.
LEMMA TwoEntries ==
  ASSUME NEW a \in Bytes, NEW b \in Bytes, Len(a) = Len(b)
  PROVE  Uniform(<<a, b>>, Len(a)) /\ <<a, b>> # <<>>
BY DEF Uniform

\* The entries of a list of values.
LEMMA ListIs ==
  ASSUME NEW m \in Messages
  PROVE  /\ Uniform(List(m), Len(m.value) + 5) /\ List(m) # <<>> /\ Len(m.value) \in Nat
         /\ Len(List(m)) = 2 /\ List(m)[1] \in Bytes /\ Len(List(m)[1]) = Len(m.value) + 5
<1> DEFINE a == Entry(m.start, m)
           b == Entry(m.end, m)
<1>1. m.start \in Word /\ m.end \in Word /\ m.value \in Bytes
  BY MessageIs
<1>2. Len(m.value) \in Nat
  BY <1>1, LenProperties DEF Bytes
<1>3. a \in Bytes /\ b \in Bytes /\ Len(a) = Len(m.value) + 5 /\ Len(b) = Len(m.value) + 5
  <2>1. a \in Bytes /\ Len(a) = 5 + Len(m.value)
    BY <1>1, EntryIs DEF Entry
  <2>2. b \in Bytes /\ Len(b) = 5 + Len(m.value)
    BY <1>1, EntryIs DEF Entry
  <2> HIDE DEF a, b
  <2> QED
    BY <1>2, <2>1, <2>2
<1>4. List(m) = <<a, b>>
  BY DEF List
<1> HIDE DEF a, b
<1>5. Uniform(<<a, b>>, Len(a)) /\ <<a, b>> # <<>>
  BY <1>3, TwoEntries
<1>6. Len(List(m)) = 2 /\ List(m)[1] = a
  BY <1>4
<1> QED
  BY <1>2, <1>3, <1>4, <1>5, <1>6

\* The entries of a list of UUIDs.
LEMMA InfosIs ==
  ASSUME NEW m \in Messages
  PROVE  Uniform(Infos(m), Len(m.uuid) + 2) /\ Infos(m) # <<>>
<1> DEFINE u == PutUuidLe(m.uuid)
           a == Le16(m.start) \o u
           b == Le16(m.end) \o u
<1>1. m.start \in Word /\ m.end \in Word /\ m.uuid \in Bytes
  BY MessageIs
<1>2. u \in Bytes /\ Len(u) = Len(m.uuid) /\ Len(m.uuid) \in Nat
  BY <1>1, ReverseTwice, LenProperties DEF PutUuidLe, Bytes
<1> HIDE DEF u
<1>3. a \in Bytes /\ b \in Bytes /\ Len(a) = Len(m.uuid) + 2 /\ Len(b) = Len(m.uuid) + 2
  <2> DEFINE h == Le16(m.start)
             g == Le16(m.end)
  <2>1. h \in Bytes /\ g \in Bytes /\ Len(h) = 2 /\ Len(g) = 2
    BY <1>1, Halves
  <2> HIDE DEF h, g
  <2>2. /\ h \o u \in Bytes /\ Len(h \o u) = Len(h) + Len(u)
        /\ g \o u \in Bytes /\ Len(g \o u) = Len(g) + Len(u)
    BY <1>2, <2>1, HeaderRest
  <2>3. Len(h) + Len(u) = Len(m.uuid) + 2 /\ Len(g) + Len(u) = Len(m.uuid) + 2
    BY <1>2, <2>1
  <2>4. /\ h \o u \in Bytes /\ Len(h \o u) = Len(m.uuid) + 2
        /\ g \o u \in Bytes /\ Len(g \o u) = Len(m.uuid) + 2
    BY <2>2, <2>3, Zenon
  <2> QED
    BY <2>4 DEF h, g
<1>4. Infos(m) = <<a, b>>
  BY DEF Infos, u
<1> HIDE DEF a, b
<1>5. Uniform(<<a, b>>, Len(a)) /\ <<a, b>> # <<>>
  BY <1>3, TwoEntries
<1> QED
  BY <1>3, <1>4, <1>5

\* Of a read by group response.
LEMMA ReadByGrpRespFaithful ==
  ASSUME NEW m \in Messages, m.kind = "read_by_grp_resp", Encode(m) # Nothing
  PROVE  Faithful(m, Encode(m))
<1> DEFINE list == List(m)
           e == Len(m.value) + 5
           p == EncReadByGrpResp(list, m.len)
           u == Upto(list, (m.len - 2) \div e)
<1>1. Encode(m) = p /\ Decode(m.kind, p) = DecReadByGrpResp(p) /\ Meaning(m) = u
  BY DEF Encode, Decode, Meaning
<1>2. m.len \in Nat /\ m.kind \notin Refusable
  BY MessageIs DEF Refusable
<1>3. Uniform(list, e) /\ list # <<>> /\ e \in Nat /\ e >= 5 /\ Len(list[1]) = e
  BY ListIs
<1> HIDE DEF list, e
<1>4. ~(e > Longest \/ m.len < e + 2)
  BY <1>1, <1>3, Zenon DEF EncReadByGrpResp
<1>5. e \in 5..Longest /\ e + 2 <= m.len
  BY <1>2, <1>3, <1>4 DEF Longest
<1>6. p \in Bytes /\ Len(p) <= m.len /\ DecReadByGrpResp(p) = {u}
  BY <1>2, <1>3, <1>5, ReadByGrpRespIs
<1> QED
  BY <1>1, <1>2, <1>6 DEF Faithful

\* Of a find info response.
LEMMA FindInfoRespFaithful ==
  ASSUME NEW m \in Messages, m.kind = "find_info_resp", Encode(m) # Nothing
  PROVE  Faithful(m, Encode(m))
<1> DEFINE list == Infos(m)
           e == Len(m.uuid) + 2
           format == IF Len(m.uuid) = 2 THEN 1 ELSE 2
           p == EncFindInfoResp(format, list, m.len)
           u == [format |-> format, list |-> Upto(list, (m.len - 2) \div e)]
<1>1. m.len \in Nat /\ 23 <= m.len /\ m.kind \notin Refusable /\ Len(m.uuid) \in {2, 16}
  BY MessageIs DEF Refusable
<1>2. Len(m.uuid) \div 9 + 1 = format
  <2>1. CASE Len(m.uuid) = 2
    BY <2>1
  <2>2. CASE Len(m.uuid) = 16
    BY <2>2
  <2> QED
    BY <1>1, <2>1, <2>2
<1>3. Encode(m) = p
  BY <1>2 DEF Encode
<1>4. Decode(m.kind, p) = DecFindInfoResp(p) /\ Meaning(m) = u
  BY DEF Decode, Meaning
<1>5. Uniform(list, e) /\ list # <<>>
  BY InfosIs
<1>6. format \in {1, 2} /\ e = (IF format = 1 THEN 4 ELSE 18) /\ e + 2 <= m.len
  <2>1. CASE Len(m.uuid) = 2
    BY <1>1, <2>1
  <2>2. CASE Len(m.uuid) = 16
    BY <1>1, <2>2
  <2> QED
    BY <1>1, <2>1, <2>2
<1> HIDE DEF list, e, format
<1>7. p \in Bytes /\ Len(p) <= m.len /\ DecFindInfoResp(p) = {u}
  BY <1>1, <1>5, <1>6, FindInfoRespIs
<1> QED
  BY <1>1, <1>3, <1>4, <1>7 DEF Faithful

\* Of a find by type response.
LEMMA FindByTypeRespFaithful ==
  ASSUME NEW m \in Messages, m.kind = "find_by_type_resp", Encode(m) # Nothing
  PROVE  Faithful(m, Encode(m))
<1> DEFINE list == Ranges(m)
           p == EncFindByTypeResp(list, m.len)
           u == Upto(list, (m.len - 1) \div 4)
<1>1. Encode(m) = p /\ Decode(m.kind, p) = DecFindByTypeResp(p) /\ Meaning(m) = u
  BY DEF Encode, Decode, Meaning
<1>2. m.len \in Nat /\ 5 <= m.len /\ m.kind \notin Refusable /\ m.start \in Word /\ m.end \in Word
  BY MessageIs DEF Refusable
<1>3. list \in Seq(Word \X Word) /\ list # <<>>
  BY <1>2 DEF Ranges
<1> HIDE DEF list
<1>4. p \in Bytes /\ Len(p) <= m.len /\ DecFindByTypeResp(p) = {u}
  BY <1>2, <1>3, FindByTypeRespIs
<1> QED
  BY <1>1, <1>2, <1>4 DEF Faithful

\* Of a read by type response.
LEMMA ReadByTypeRespFaithful ==
  ASSUME NEW m \in Messages, m.kind = "read_by_type_resp", Encode(m) # Nothing
  PROVE  Faithful(m, Encode(m))
<1> DEFINE list == List(m)
           e == Len(m.value) + 5
           l == Least(m.len - 2, e)
           cut == Cut(list, l)
           p == EncReadByTypeResp(list, m.len)
           u == Upto(cut, (m.len - 2) \div l)
<1>1. Encode(m) = p /\ Decode(m.kind, p) = DecReadByTypeResp(p)
  BY DEF Encode, Decode
<1>2. m.len \in Nat /\ 23 <= m.len /\ 5 <= m.len /\ m.kind \notin Refusable
  BY MessageIs DEF Refusable
<1>3. /\ Uniform(list, e) /\ list # <<>> /\ e \in Nat /\ e >= 5 /\ Len(list[1]) = e
      /\ Len(list) = 2 /\ list[1] \in Bytes
  BY ListIs
<1>4. Meaning(m) = u
  <2>1. Meaning(m) = IF Len(m.value) + 7 > m.len THEN <<Upto(list[1], m.len - 2)>>
                     ELSE Upto(list, (m.len - 2) \div e)
    BY DEF Meaning
  <2>2. Len(m.value) + 7 = e + 2
    BY ListIs
  <2> HIDE DEF list, e
  <2>3. l \in Nat /\ l <= e
    BY <1>2, <1>3 DEF Least
  <2>6. /\ Uniform(cut, l) /\ Len(cut) = Len(list) /\ (l = e => cut = list)
        /\ \A k \in 1..Len(list) : cut[k] = SubSeq(list[k], 1, l)
    <3> HIDE DEF l
    <3> QED
      BY <1>3, <2>3, CutUniform
  <2>4. CASE Len(m.value) + 7 > m.len
    <3>1. l = m.len - 2 /\ ~(e <= m.len - 2) /\ l > 0 /\ (m.len - 2) \div l = 1
      <4>1. l = m.len - 2 /\ ~(e <= m.len - 2) /\ l > 0
        BY <1>2, <1>3, <2>2, <2>4 DEF Least
      <4> HIDE DEF l
      <4>2. l \div l = 1
        BY <2>3, <4>1
      <4> QED
        BY <4>1, <4>2
    <3>2. Upto(list[1], m.len - 2) = SubSeq(list[1], 1, l)
      BY <1>3, <3>1 DEF Upto
    <3> HIDE DEF l
    <3>3. Uniform(cut, l) /\ Len(cut) = 2
      BY <1>3, <2>6
    <3>4. cut[1] = SubSeq(list[1], 1, l)
      <4>1. 1 \in 1..Len(list)
        BY <1>3
      <4> QED
        BY <2>6, <4>1
    <3> HIDE DEF cut
    <3>5. u = SubSeq(cut, 1, 1)
      BY <3>1, <3>3 DEF Upto
    <3>6. SubSeq(cut, 1, 1) = <<cut[1]>>
      <4>1. cut[1] \in Bytes
        BY <3>3, ElementOfSeq DEF Uniform
      <4> DEFINE s == SubSeq(cut, 1, 1)
                 t == <<cut[1]>>
      <4>2. /\ s \in Seq(Bytes) /\ Len(s) = (IF 1 <= 1 THEN 1 - 1 + 1 ELSE 0)
            /\ \A i \in 1..(1 - 1 + 1) : s[i] = cut[1 + i - 1]
        <5>1. \A i \in 1..1 : cut[i] \in Bytes
          BY <4>1
        <5> QED
          BY <5>1, SubSeqProperties
      <4>3. t \in Seq(Bytes) /\ Len(t) = 1 /\ t[1] = cut[1]
        BY <4>1
      <4> HIDE DEF s, t
      <4>4. Len(s) = Len(t) /\ \A i \in 1..Len(s) : s[i] = t[i]
        BY <4>2, <4>3
      <4>5. s = t
        BY <4>2, <4>3, <4>4, SeqEqual
      <4> QED
        BY <4>5 DEF s, t
    <3> QED
      BY <2>1, <2>4, <3>2, <3>4, <3>5, <3>6
  <2>5. CASE ~(Len(m.value) + 7 > m.len)
    <3>1. l = e
      BY <1>2, <1>3, <2>2, <2>5 DEF Least
    <3> HIDE DEF l
    <3>2. cut = list
      BY <2>6, <3>1
    <3> QED
      BY <2>1, <2>5, <3>1, <3>2
  <2> QED
    BY <2>4, <2>5
<1> HIDE DEF list, e
<1>5. e \in 3..Longest
  <2>1. ~(e > Longest)
    BY <1>1, <1>3, Zenon DEF EncReadByTypeResp
  <2> QED
    BY <1>3, <2>1 DEF Longest
<1>6. p \in Bytes /\ Len(p) <= m.len /\ DecReadByTypeResp(p) = {u}
  <2>1. Uniform(list, e) /\ list # <<>> /\ m.len \in Nat /\ 5 <= m.len
    BY <1>2, <1>3
  <2>2. /\ p \in Bytes /\ Len(p) <= m.len /\ p[1] = 9 /\ DecReadByTypeResp(p) = {u}
        /\ Len(Upto(cut, (m.len - 2) \div l)) >= 1
    BY <1>5, <2>1, ReadByTypeRespIs
  <2> QED
    BY <2>2
<1> QED
  BY <1>1, <1>2, <1>4, <1>6 DEF Faithful

\* Every packet that is sent is read as it was meant, fits, and can be told from the others.
LEMMA EveryPacket ==
  ASSUME NEW m \in Messages, Encode(m) # Nothing
  PROVE  Faithful(m, Encode(m))
<1>1. m.kind \in Requests \cup Pushed \cup Responses
  BY MessageIs
<1>2. CASE m.kind \in Requests
  BY <1>2, FindInfoReqFaithful, FindByTypeReqFaithful, ReadByTypeReqFaithful, ReadReqFaithful,
     ReadBlobReqFaithful, ReadByGrpReqFaithful, WriteReqFaithful, PrepWriteReqFaithful,
     WriteRespFaithful, MtuReqFaithful DEF Requests
<1>3. CASE m.kind \in Pushed
  BY <1>3, WriteCmdFaithful, SignedWriteCmdFaithful, NotificationFaithful, IndicationFaithful DEF Pushed
<1>4. CASE m.kind \in Responses
  BY <1>4, ReadByGrpRespFaithful, FindByTypeRespFaithful, ReadByTypeRespFaithful, FindInfoRespFaithful,
     ReadRespFaithful, WriteRespFaithful, PrepWriteRespFaithful, MtuRespFaithful DEF Responses
<1> QED
  BY <1>1, <1>2, <1>3, <1>4

\* A packet that is there is the one of its message, and what is sent back was made from it.
ExchangeInv ==
  /\ message \in Messages
  /\ pdu \in {Nothing, Encode(message)}
  /\ answers = {Nothing} \/ (pdu # Nothing /\ answers = Served(pdu))

\* Nothing is sent at first.
LEMMA XInvInit == XInit => ExchangeInv
BY DEF XInit, ExchangeInv

\* A message is sent once, and served as the packet that it is.
LEMMA XInvNext == ExchangeInv /\ [XNext]_exchange => ExchangeInv'
<1> SUFFICES ASSUME ExchangeInv, [XNext]_exchange
             PROVE  ExchangeInv'
  OBVIOUS
<1>1. CASE Send
  BY <1>1 DEF ExchangeInv, Send
<1>2. CASE Serve
  BY <1>2 DEF ExchangeInv, Serve
<1>3. CASE UNCHANGED exchange
  BY <1>3 DEF ExchangeInv, exchange
<1> QED
  BY <1>1, <1>2, <1>3 DEF XNext

\* The invariant: the packet is the one of the message, and is read as it was meant.
THEOREM PduInvariant == XSpec => []ExchangeInv
BY XInvInit, XInvNext, PTL DEF XSpec

\* Each dec_ function of att.c understands what its enc_ function wrote, for every handle,
\* UUID, value and buffer: a value or a list that the buffer cuts is read up to the cut.
THEOREM PduRoundTrip == XSpec => []RoundTrip
<1>1. ExchangeInv => RoundTrip
  <2> SUFFICES ASSUME ExchangeInv, pdu # Nothing, message.kind \notin {"prep_write_resp", "notification"}
               PROVE  Decode(message.kind, pdu) = {Meaning(message)}
    BY DEF RoundTrip
  <2>1. message \in Messages /\ pdu = Encode(message)
    BY DEF ExchangeInv
  <2>2. Faithful(message, pdu)
    BY <2>1, EveryPacket
  <2> QED
    BY <2>2 DEF Faithful
<1> QED
  BY <1>1, PduInvariant, PTL

\* No packet is longer than the buffer it is written to, whatever the arguments are.
THEOREM PduWithinBuffer == XSpec => []WithinBuffer
<1>1. ExchangeInv => WithinBuffer
  <2> SUFFICES ASSUME ExchangeInv
               PROVE  Len(pdu) <= message.len
    BY DEF WithinBuffer
  <2>1. message \in Messages /\ pdu \in {Nothing, Encode(message)}
    BY DEF ExchangeInv
  <2>2. CASE pdu = Nothing
    BY <2>1, <2>2, MessageIs DEF Nothing
  <2>3. CASE pdu # Nothing
    <3>1. pdu = Encode(message)
      BY <2>1, <2>3
    <3>2. Faithful(message, pdu)
      BY <2>1, <2>3, <3>1, EveryPacket
    <3> QED
      BY <3>2 DEF Faithful
  <2> QED
    BY <2>2, <2>3
<1> QED
  BY <1>1, PduInvariant, PTL

\* Eight bits are a handle.
LEMMA OctetIsWord ==
  ASSUME NEW n \in Nat, n < 256
  PROVE  n \in Word
<1> DEFINE top == 65535
<1>1. n <= top /\ top \in Nat
  OBVIOUS
<1>2. Word = 0..top
  BY DEF Word
<1>3. \A k \in Nat : \A i \in Nat : i <= k => i \in 0..k
  OBVIOUS
<1> HIDE DEF top
<1> QED
  BY <1>1, <1>2, <1>3

\* What the helper sends back to a request that it answers.
LEMMA ServedRefusal ==
  ASSUME NEW k, NEW p, <<k, p[1]>> \in Opcodes
  PROVE  Served(p) \subseteq {EncErrorResp(p[1],
                                IF k = "prep_write_req" THEN At16(p, 2) % 256
                                ELSE IF k = "mtu_req" THEN 0 ELSE At16(p, 2),
                                ReqNotSupp)}
<1>1. CASE p[1] \in {4, 6, 8, 10, 12, 16, 18}
  <2>1. k # "prep_write_req" /\ k # "mtu_req"
    BY <1>1 DEF Opcodes
  <2>2. Served(p) = Registered(p)
    BY <1>1 DEF Served
  <2>3. /\ GattsFindInfoReq(p) \subseteq Refuse(p, At16(p, 2))
        /\ GattsFindByTypeReq(p) \subseteq Refuse(p, At16(p, 2))
        /\ GattsReadByTypeReq(p) \subseteq Refuse(p, At16(p, 2))
        /\ GattsReadReq(p) \subseteq Refuse(p, At16(p, 2))
        /\ GattsReadBlobReq(p) \subseteq Refuse(p, At16(p, 2))
        /\ GattsReadByGroupReq(p) \subseteq Refuse(p, At16(p, 2))
        /\ GattsWriteReq(p) \subseteq Refuse(p, At16(p, 2))
    BY Zenon DEF GattsFindInfoReq, GattsFindByTypeReq, GattsReadByTypeReq, GattsReadReq, GattsReadBlobReq,
           GattsReadByGroupReq, GattsWriteReq, Asserted
  <2>4. Registered(p) \subseteq Refuse(p, At16(p, 2))
    BY <1>1, <2>3 DEF Registered
  <2> QED
    BY <2>1, <2>2, <2>4 DEF Refuse
<1>2. CASE p[1] = 22
  <2>1. k = "prep_write_req"
    BY <1>2 DEF Opcodes
  <2>2. Served(p) = GattsPrepWriteReq(p)
    BY <1>2 DEF Served, Registered
  <2>3. GattsPrepWriteReq(p) \subseteq Refuse(p, At16(p, 2) % 256)
    BY Zenon DEF GattsPrepWriteReq, Asserted
  <2> QED
    BY <2>1, <2>2, <2>3 DEF Refuse
<1>3. CASE p[1] = 2
  <2>1. k = "mtu_req"
    BY <1>3 DEF Opcodes
  <2> QED
    BY <1>3, <2>1 DEF Served, NotSupported
<1> QED
  BY <1>1, <1>2, <1>3 DEF Opcodes

\* An execute write fails the assertion of its handler.
LEMMA ExecWriteServed ==
  ASSUME NEW m \in Messages, m.kind = "exec_write_req", Encode(m) # Nothing
  PROVE  Served(Encode(m)) = {}
<1> DEFINE p == Encode(m)
<1>1. p = EncExecWriteReq(m.start)
  BY DEF Encode
<1>2. p = <<24, m.start>>
  BY <1>1, Zenon DEF EncExecWriteReq
<1> HIDE DEF p
<1>3. p[1] = 24 /\ Len(p) # 5
  BY <1>2
<1>4. Served(p) = GattsExecWriteReq(p)
  BY <1>3 DEF Served, Registered
<1>5. GattsExecWriteReq(p) = {}
  BY <1>3, Zenon DEF GattsExecWriteReq, Asserted
<1> QED
  BY <1>4, <1>5 DEF p

\* Every request of the device that is answered is refused with its own opcode and, but
\* for a prepared write, of whose handle eight bits come back, and an exchange of the
\* MTU, with its own handle; an execute write is never answered.
THEOREM PduRefusedAsAsked == XSpec => []RefusedAsAsked
<1>1. ASSUME ExchangeInv, message.kind = "exec_write_req"
      PROVE  answers \subseteq {Nothing}
  BY <1>1, ExecWriteServed DEF ExchangeInv
<1>2. ASSUME ExchangeInv, message.kind \in Requests, NEW a \in answers \ {Nothing}
      PROVE  a[1] = 1 /\ a[2] = pdu[1] /\ a[5] = ReqNotSupp /\ At16(a, 3) = Blamed(message)
  <2>1. message \in Messages /\ pdu = Encode(message) /\ pdu # Nothing /\ answers = Served(pdu)
    BY <1>2 DEF ExchangeInv
  <2>2. message.kind \in Refusable
    BY <1>1, <1>2 DEF Requests, Refusable
  <2>3. Faithful(message, pdu)
    BY <2>1, EveryPacket
  <2>4. <<message.kind, pdu[1]>> \in Opcodes /\ At16(pdu, 2) = message.start
    BY <2>2, <2>3 DEF Faithful
  <2>5. Blamed(message) = IF message.kind = "prep_write_req" THEN message.start % 256
                          ELSE IF message.kind = "mtu_req" THEN 0 ELSE message.start
    BY DEF Blamed
  <2>6. a = EncErrorResp(pdu[1], Blamed(message), ReqNotSupp)
    BY <1>2, <2>1, <2>4, <2>5, ServedRefusal
  <2>7. pdu[1] \in Byte /\ ReqNotSupp \in Byte
    BY <2>4 DEF Opcodes, Byte, ReqNotSupp
  <2>8. message.start \in Word /\ message.start % 256 \in Word /\ 0 \in Word
    <3>1. message.start \in Word
      BY <2>1, MessageIs
    <3>2. message.start \in Nat
      BY <3>1, WordIs
    <3>3. message.start % 256 \in Nat /\ message.start % 256 < 256
      BY <3>2
    <3> DEFINE low == message.start % 256
    <3> HIDE DEF low
    <3>4. low \in Nat /\ low < 256 => low \in Word
      BY OctetIsWord
    <3>5. 0 \in Word
      BY OctetIsWord
    <3> QED
      BY <3>1, <3>3, <3>4, <3>5 DEF low
  <2>9. Blamed(message) \in Word
    BY <2>5, <2>8
  <2> QED
    BY <2>6, <2>7, <2>9, ErrorRespIs
<1>3. ExchangeInv => RefusedAsAsked
  BY <1>1, <1>2, Zenon DEF RefusedAsAsked
<1> QED
  BY <1>3, PduInvariant, PTL
=============================================================================
