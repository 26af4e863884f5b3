-------------------------- MODULE GattClientProofs ---------------------------
(***************************************************************************)
(* Proofs about GattClient, for every device, procedure, argument and MTU  *)
(* that its assumptions allow, and whatever a device answers that does not *)
(* follow the protocol: types, and the one call of the caller's callback;  *)
(* on a device that follows it, that a value is read and written whole and *)
(* that a discovery finds all there is.  Each request of a procedure       *)
(* stands for a state of its callback (Asks), each response for what the   *)
(* device holds (Answered); the proof has one lemma for each action.       *)
(* Finding says what a discovery has found so far.  The packets are those  *)
(* of PduExchangeProofs, whose constants and variables play no part here.  *)
(***************************************************************************)
EXTENDS GattClient, PduExchangeProofs

\* An octet, and the other way round.
LEMMA ByteIs ==
  ASSUME NEW c \in Byte
  PROVE  c \in Nat /\ c <= 255
BY DEF Byte

\* A number that sixteen bits hold.
LEMMA IsWord ==
  ASSUME NEW n \in Nat, n <= 65535
  PROVE  n \in Word
<1> DEFINE m == 65535
<1>0. Word = 0..m
  BY DEF Word
<1>1. n <= m /\ m \in Nat
  OBVIOUS
<1> HIDE DEF m
<1>2. n \in 0..m
  BY <1>1
<1> QED
  BY <1>0, <1>2

\* What stands where a number does is a number.
LEMMA NumberIs ==
  ASSUME NEW p \in Bytes, NEW i \in 1..Len(p), i < Len(p)
  PROVE  At16(p, i) \in Word
<1>1. Len(p) \in Nat /\ \A k \in 1..Len(p) : p[k] \in Byte
  BY ElementOfSeq, LenProperties DEF Bytes
<1>2. i + 1 \in 1..Len(p)
  BY <1>1
<1>3. p[i] \in Byte /\ p[i + 1] \in Byte
  BY <1>1, <1>2
<1> DEFINE a == p[i]
           b == p[i + 1]
<1> HIDE DEF a, b
<1>4. a \in Nat /\ a <= 255 /\ b \in Nat /\ b <= 255
  BY <1>3, ByteIs DEF a, b
<1>5. a + 256 * b \in Nat /\ a + 256 * b <= 65535
  BY <1>4
<1>6. a + 256 * b \in Word
  BY <1>5, IsWord
<1> QED
  BY <1>6 DEF At16, a, b

\* A part of a string.
LEMMA PartIs ==
  ASSUME NEW p \in Bytes, NEW i \in Nat, i >= 1, NEW j \in Nat, j <= Len(p)
  PROVE  /\ SubSeq(p, i, j) \in Bytes
         /\ Len(SubSeq(p, i, j)) = IF i <= j THEN j - i + 1 ELSE 0
         /\ \A k \in 1..(j - i + 1) : SubSeq(p, i, j)[k] = p[i + k - 1]
<1>1. Len(p) \in Nat /\ \A k \in 1..Len(p) : p[k] \in Byte
  BY ElementOfSeq, LenProperties DEF Bytes
<1>2. \A k \in i..j : p[k] \in Byte
  BY <1>1
<1>3. /\ SubSeq(p, i, j) \in Seq(Byte)
      /\ Len(SubSeq(p, i, j)) = IF i <= j THEN j - i + 1 ELSE 0
      /\ \A k \in 1..(j - i + 1) : SubSeq(p, i, j)[k] = p[i + k - 1]
  BY <1>2, SubSeqProperties
<1> QED
  BY <1>3 DEF Bytes

\* The octets from a place on.
LEMMA OctetsIs ==
  ASSUME NEW p \in Bytes, NEW i \in 1..(Len(p) + 1)
  PROVE  Octets(p, i) \in Bytes /\ Len(Octets(p, i)) = Len(p) + 1 - i
<1>1. Len(p) \in Nat
  BY LenProperties DEF Bytes
<1>2. i \in Nat /\ i >= 1 /\ Len(p) <= Len(p)
  BY <1>1
<1>3. /\ SubSeq(p, i, Len(p)) \in Bytes
      /\ Len(SubSeq(p, i, Len(p))) = IF i <= Len(p) THEN Len(p) - i + 1 ELSE 0
  BY <1>1, <1>2, PartIs
<1> QED
  BY <1>1, <1>3 DEF Octets

\* The entries that are cut out of a packet have one length, whatever it holds.
LEMMA CutOut ==
  ASSUME NEW p \in Bytes, NEW i \in Nat, i >= 1, NEW e \in Nat, e > 0
  PROVE  Uniform(DataList(p, i, e), e)
<1> DEFINE n == (Len(p) + 1 - i) \div e
           list == DataList(p, i, e)
<1>1. Len(p) \in Nat
  BY LenProperties DEF Bytes
<1>2. n \in Int /\ (n > 0 => e * n <= Len(p) + 1 - i)
  BY <1>1
<1>3. ASSUME NEW k \in 1..n
      PROVE  /\ i + (k - 1) * e \in Nat /\ i + (k - 1) * e >= 1
             /\ i + k * e - 1 \in Nat /\ i + k * e - 1 <= Len(p)
             /\ i + (k - 1) * e <= i + k * e - 1
             /\ (i + k * e - 1) - (i + (k - 1) * e) + 1 = e
  <2>1. k \in Nat /\ k >= 1 /\ n > 0 /\ k <= n
    BY <1>2
  <2> HIDE DEF n
  <2>2. (k - 1) * e \in Nat /\ k * e \in Nat /\ k * e = (k - 1) * e + e /\ k * e <= e * n
    BY <2>1, <1>2
  <2> QED
    BY <2>1, <2>2, <1>1, <1>2
<1>4. ASSUME NEW k \in 1..n
      PROVE  /\ SubSeq(p, i + (k - 1) * e, i + k * e - 1) \in Bytes
             /\ Len(SubSeq(p, i + (k - 1) * e, i + k * e - 1)) = e
  <2> DEFINE a == i + (k - 1) * e
             b == i + k * e - 1
  <2>1. a \in Nat /\ a >= 1 /\ b \in Nat /\ b <= Len(p) /\ a <= b /\ b - a + 1 = e
    BY <1>3
  <2> HIDE DEF a, b
  <2>2. SubSeq(p, a, b) \in Bytes /\ Len(SubSeq(p, a, b)) = IF a <= b THEN b - a + 1 ELSE 0
    BY <2>1, PartIs
  <2> QED
    BY <2>1, <2>2 DEF a, b
<1>5. list = [k \in 1..n |-> SubSeq(p, i + (k - 1) * e, i + k * e - 1)]
  BY DEF DataList
<1> HIDE DEF n, list
<1>6. CASE n >= 0
  <2>1. list \in [1..n -> Bytes]
    BY <1>4, <1>5
  <2>2. list \in Seq(Bytes) /\ Len(list) = n
    BY <1>2, <1>6, <2>1
  <2>3. \A k \in 1..Len(list) : Len(list[k]) = e
    BY <1>4, <1>5, <2>2
  <2> QED
    BY <2>2, <2>3 DEF Uniform, list
<1>7. CASE n < 0
  <2>1. 1..n = {}
    BY <1>2, <1>7
  <2>2. list = <<>>
    BY <1>5, <2>1
  <2> QED
    BY <2>2 DEF Uniform, list
<1> QED
  BY <1>2, <1>6, <1>7

\* Min and the first entry that a match function accepts.
LEMMA LeastOf ==
  ASSUME NEW I \in SUBSET Nat, I # {}
  PROVE  Min(I) \in I /\ \A i \in I : Min(I) <= i
<1>1. \E i \in I : \A j \in I : i <= j
  BY FirstNatural
<1> QED
  BY <1>1 DEF Min

\* FirstMatch is the first: none before it matches.
LEMMA FirstMatchFirst ==
  ASSUME NEW X, NEW q \in Seq(X), NEW matching, FirstMatch(q, matching) # 0
  PROVE  \A i \in 1..(FirstMatch(q, matching) - 1) : q[i] \notin matching
<1> DEFINE I == {i \in 1..Len(q) : q[i] \in matching}
<1>1. FirstMatch(q, matching) = IF I = {} THEN 0 ELSE Min(I)
  BY DEF FirstMatch
<1>2. I # {} /\ FirstMatch(q, matching) = Min(I) /\ I \in SUBSET Nat
  BY <1>1
<1>3. Min(I) \in I /\ \A i \in I : Min(I) <= i
  <2> HIDE DEF I
  <2> QED
    BY <1>2, LeastOf
<1> SUFFICES ASSUME NEW i \in 1..(Min(I) - 1), q[i] \in matching PROVE FALSE
  BY <1>2
<1>4. Min(I) \in 1..Len(q)
  BY <1>3
<1>5. i \in 1..Len(q) /\ ~(Min(I) <= i)
  BY <1>4
<1> QED
  BY <1>3, <1>5

\* The attribute of a handle.
LEMMA AtIs ==
  ASSUME NEW db \in Seq(Attribute), NEW h
  PROVE  /\ At(db, h) \in 0..Len(db)
         /\ At(db, h) = 0 <=> \A a \in ToSet(db) : a.handle # h
         /\ At(db, h) # 0 => At(db, h) \in 1..Len(db) /\ db[At(db, h)] \in Attribute /\ db[At(db, h)].handle = h
<1> DEFINE wanted == {a \in ToSet(db) : a.handle = h}
<1>1. At(db, h) = FirstMatch(db, wanted)
  BY DEF At
<1>2. /\ FirstMatch(db, wanted) = 0 <=> ToSet(db) \cap wanted = {}
      /\ FirstMatch(db, wanted) # 0 =>
              FirstMatch(db, wanted) \in 1..Len(db) /\ db[FirstMatch(db, wanted)] \in wanted
  BY FirstMatchQueue
<1>3. ToSet(db) \subseteq Attribute
  BY ToSetIs
<1>4. Len(db) \in Nat /\ \A i \in 1..Len(db) : db[i] \in Attribute
  BY LenProperties, ElementOfSeq
<1> DEFINE i == FirstMatch(db, wanted)
<1>5. ToSet(db) \cap wanted = {} <=> \A a \in ToSet(db) : a.handle # h
  OBVIOUS
<1>6. i # 0 => i \in 1..Len(db) /\ db[i].handle = h
  BY <1>2
<1> HIDE DEF i
<1>7. i \in 0..Len(db) /\ (i # 0 => db[i] \in Attribute)
  <2>1. CASE i = 0
    BY <1>4, <2>1
  <2>2. CASE i # 0
    <3>1. i \in 1..Len(db)
      BY <1>6, <2>2
    <3> QED
      BY <1>4, <3>1
  <2> QED
    BY <2>1, <2>2
<1> QED
  BY <1>1, <1>2, <1>5, <1>6, <1>7 DEF i

\* Its place depends on the handles only.
LEMMA AtSame ==
  ASSUME NEW db \in Seq(Attribute), NEW bs \in Seq(Attribute), NEW h,
         Len(bs) = Len(db), \A i \in 1..Len(db) : bs[i].handle = db[i].handle
  PROVE  At(bs, h) = At(db, h)
<1> DEFINE A == {i \in 1..Len(db) : db[i] \in {a \in ToSet(db) : a.handle = h}}
           B == {i \in 1..Len(bs) : bs[i] \in {a \in ToSet(bs) : a.handle = h}}
<1>0. ToSet(db) = {db[i] : i \in 1..Len(db)} /\ ToSet(bs) = {bs[i] : i \in 1..Len(bs)}
  <2>1. ToSet(db) = {db[i] : i \in 1..Len(db)}
    BY ToSetIs
  <2>2. ToSet(bs) = {bs[i] : i \in 1..Len(bs)}
    BY ToSetIs
  <2> QED
    BY <2>1, <2>2
<1>1. A = {i \in 1..Len(db) : db[i].handle = h} /\ B = {i \in 1..Len(bs) : bs[i].handle = h}
  BY <1>0
<1>2. A = B
  BY <1>1
<1>3. At(db, h) = IF A = {} THEN 0 ELSE Min(A)
  BY DEF At, FirstMatch
<1>4. At(bs, h) = IF B = {} THEN 0 ELSE Min(B)
  BY DEF At, FirstMatch
<1> HIDE DEF A, B
<1> QED
  BY <1>2, <1>3, <1>4

\* Attributes in the order of their handles.
Sorted(s) == \A i, j \in 1..Len(s) : i < j => s[i].handle < s[j].handle

\* What stays in a list is in the order of its handles.
LEMMA RemoveAllSorted ==
  ASSUME NEW q \in Seq(Attribute), NEW matching, Sorted(q)
  PROVE  Sorted(RemoveAll(q, matching))
<1>1. PICK g \in [0..Len(q) -> Seq(Attribute)] :
             RestOf(q, matching, Len(q), g) /\ RemoveAll(q, matching) = g[Len(q)]
  BY RestIs
<1>2. /\ Len(q) \in Nat /\ \A i \in 1..Len(q) : q[i] \in Attribute
      /\ g[0] = <<>>
      /\ \A i \in 0..Len(q) : g[i] \in Seq(Attribute)
      /\ \A i \in 1..Len(q) :
           g[i] = IF q[i] \in matching THEN g[i - 1] ELSE Append(g[i - 1], q[i])
  <2>1. /\ Len(q) \in Nat /\ 0 \in 0..Len(q)
        /\ \A i \in 1..Len(q) : q[i] \in Attribute /\ i \in 0..Len(q) /\ i # 0
        /\ \A i \in 0..Len(q) : g[i] \in Seq(Attribute)
    OBVIOUS
  <2> QED
    BY <1>1, <2>1 DEF RestOf
<1> DEFINE From(i) == \A k \in 1..Len(g[i]) : \E l \in 1..i : g[i][k] = q[l]
           S == {i \in 0..Len(q) : From(i) /\ Sorted(g[i])}
<1>3. 0 \in S
  <2>1. 0 \in 0..Len(q) /\ Len(g[0]) = 0 /\ 1..Len(g[0]) = {}
    BY <1>2
  <2> QED
    BY <2>1 DEF Sorted
<1>4. \A i \in 0..Len(q) : i < Len(q) /\ i \in S => i + 1 \in S
  <2> SUFFICES ASSUME NEW i \in 0..Len(q), i < Len(q), i \in S PROVE i + 1 \in S
    OBVIOUS
  <2>1. i + 1 \in 1..Len(q) /\ (i + 1) - 1 = i /\ i + 1 \in 0..Len(q)
    BY <1>2
  <2>2. From(i) /\ Sorted(g[i]) /\ g[i] \in Seq(Attribute) /\ q[i + 1] \in Attribute
    BY <1>2, <2>1
  <2>3. g[i + 1] = IF q[i + 1] \in matching THEN g[i] ELSE Append(g[i], q[i + 1])
    BY <1>2, <2>1
  <2>4. \A l \in 1..i : l \in 1..(i + 1)
    BY <2>1
  <2>5. CASE q[i + 1] \in matching
    <3>1. g[i + 1] = g[i]
      BY <2>3, <2>5
    <3>2. From(i + 1)
      BY <2>2, <2>4, <3>1
    <3> QED
      BY <2>1, <2>2, <3>1, <3>2
  <2>6. CASE q[i + 1] \notin matching
    <3> DEFINE s == g[i]
               t == g[i + 1]
               x == q[i + 1]
    <3>1. t = Append(s, x) /\ s \in Seq(Attribute) /\ x \in Attribute
      BY <2>2, <2>3, <2>6
    <3>2. \A k \in 1..Len(s) : \E l \in 1..i : s[k] = q[l]
      BY <2>2
    <3>3. \A l \in 1..i : q[l].handle < x.handle
      <4>1. \A l \in 1..i : l \in 1..Len(q) /\ l < i + 1
        BY <2>1
      <4> QED
        BY <2>1, <4>1 DEF Sorted
    <3>4. Sorted(s)
      BY <2>2
    <3>5. From(i + 1) <=> \A k \in 1..Len(t) : \E l \in 1..(i + 1) : t[k] = q[l]
      OBVIOUS
    <3> HIDE DEF s, t, From
    <3>6. /\ Len(s) \in Nat /\ Len(t) = Len(s) + 1 /\ t[Len(s) + 1] = x
          /\ \A k \in 1..Len(s) : t[k] = s[k]
      BY <3>1, AppendProperties, LenProperties
    <3>7. \A k \in 1..Len(t) : k \in 1..Len(s) \/ k = Len(s) + 1
      BY <3>6
    <3>8. From(i + 1)
      <4>1. i + 1 \in 1..(i + 1)
        BY <2>1
      <4> QED
        BY <2>4, <3>2, <3>5, <3>6, <3>7, <4>1
    <3>9. \A k \in 1..Len(s) : s[k].handle < x.handle
      BY <3>2, <3>3
    <3>10. Sorted(t)
      <4> SUFFICES ASSUME NEW k \in 1..Len(t), NEW l \in 1..Len(t), k < l
                   PROVE  t[k].handle < t[l].handle
        BY DEF Sorted
      <4>1. k \in 1..Len(s)
        BY <3>6
      <4>2. CASE l \in 1..Len(s)
        BY <3>4, <3>6, <4>1, <4>2 DEF Sorted
      <4>3. CASE l = Len(s) + 1
        BY <3>6, <3>9, <4>1, <4>3
      <4> QED
        BY <3>7, <4>2, <4>3
    <3> QED
      BY <2>1, <3>8, <3>10 DEF t
  <2> QED
    BY <2>5, <2>6
<1>5. Len(q) \in S
  <2>1. Len(q) \in 0..Len(q)
    BY <1>2
  <2> HIDE DEF S
  <2> QED
    BY <1>2, <1>3, <1>4, <2>1, CountUp
<1> QED
  BY <1>1, <1>5

\* The attributes that a request asks for.
LEMMA AskedIs ==
  ASSUME NEW db \in Seq(Attribute), NEW r, NEW wanted
  PROVE  LET q == Asked(db, r, wanted)
         IN /\ q.range = r /\ q.list \in Seq(Attribute)
            /\ ToSet(q.list) = {a \in ToSet(db) : a \in wanted /\ a.handle \in r.start..r.end}
            /\ Sorted(db) => Sorted(q.list)
<1> DEFINE others == {a \in ToSet(db) : a \notin wanted \/ a.handle \notin r.start..r.end}
<1>1. Asked(db, r, wanted) = [range |-> r, list |-> RemoveAll(db, others)]
  BY DEF Asked
<1>2. /\ RemoveAll(db, others) \in Seq(Attribute)
      /\ ToSet(RemoveAll(db, others)) = ToSet(db) \ others
  BY RemoveAllQueue
<1>3. Sorted(db) => Sorted(RemoveAll(db, others))
  BY RemoveAllSorted
<1>4. ToSet(db) \ others = {a \in ToSet(db) : a \in wanted /\ a.handle \in r.start..r.end}
  OBVIOUS
<1> DEFINE q == Asked(db, r, wanted)
<1>5. q.range = r /\ q.list = RemoveAll(db, others)
  BY <1>1
<1> HIDE DEF others, q
<1> QED
  BY <1>2, <1>3, <1>4, <1>5 DEF q

\* The leading ones of one size.
LEMMA LeadingIs ==
  ASSUME NEW list \in Seq(Attribute), list # <<>>, NEW sizes, DOMAIN sizes = 1..Len(list)
  PROVE  \E m \in 1..Len(list) : /\ Leading(list, sizes) = SubSeq(list, 1, m)
                                 /\ \A k \in 1..m : sizes[k] = sizes[1]
<1> DEFINE others == {k \in DOMAIN list : sizes[k] # sizes[1]}
<1>1. Len(list) \in Nat /\ Len(list) >= 1 /\ DOMAIN list = 1..Len(list)
  BY EmptySeq, LenProperties
<1>2. Leading(list, sizes) = IF others = {} THEN list ELSE SubSeq(list, 1, Min(others) - 1)
  BY DEF Leading
<1>3. CASE others = {}
  <2>1. SubSeq(list, 1, Len(list)) = list
    BY SubSeqFull
  <2>2. Len(list) \in 1..Len(list)
    BY <1>1
  <2>3. \A k \in 1..Len(list) : sizes[k] = sizes[1]
    BY <1>1, <1>3
  <2> QED
    BY <1>2, <1>3, <2>1, <2>2, <2>3
<1>4. CASE others # {}
  <2>1. others \in SUBSET Nat
    BY <1>1
  <2>2. Min(others) \in others /\ \A i \in others : Min(others) <= i
    <3> HIDE DEF others
    <3> QED
      BY <1>4, <2>1, LeastOf
  <2> DEFINE m == Min(others) - 1
  <2>3. Min(others) \in 1..Len(list) /\ Min(others) # 1
    BY <1>1, <2>2
  <2>4. m \in 1..Len(list) /\ \A k \in 1..m : k \in 1..Len(list) /\ ~(Min(others) <= k)
    <3> DEFINE i == Min(others)
    <3>1. i \in 1..Len(list) /\ i # 1
      BY <2>3
    <3> HIDE DEF i
    <3>2. i - 1 \in 1..Len(list) /\ \A k \in 1..(i - 1) : k \in 1..Len(list) /\ ~(i <= k)
      BY <1>1, <3>1
    <3> QED
      BY <3>2 DEF i
  <2>5. \A k \in 1..m : sizes[k] = sizes[1]
    BY <1>1, <2>2, <2>4
  <2> QED
    BY <1>2, <1>4, <2>4, <2>5
<1> QED
  BY <1>3, <1>4

\* The first entries of a sorted list are those up to a handle.
LEMMA PrefixIs ==
  ASSUME NEW list \in Seq(Attribute), Sorted(list), NEW m \in 1..Len(list)
  PROVE  {list[k] : k \in 1..m} = {a \in ToSet(list) : a.handle <= list[m].handle}
<1>1. Len(list) \in Nat /\ \A k \in 1..Len(list) : list[k] \in Attribute
  BY ElementOfSeq, LenProperties
<1>2. \A k \in 1..Len(list) : list[k].handle \in Nat
  <2> SUFFICES ASSUME NEW k \in 1..Len(list) PROVE list[k].handle \in Nat
    OBVIOUS
  <2>1. list[k].handle \in Word
    BY <1>1 DEF Attribute
  <2> QED
    BY <2>1, WordIs
<1>3. \A k \in 1..m : k \in 1..Len(list) /\ list[k].handle <= list[m].handle
  <2> SUFFICES ASSUME NEW k \in 1..m PROVE k \in 1..Len(list) /\ list[k].handle <= list[m].handle
    OBVIOUS
  <2>1. k \in 1..Len(list) /\ (k < m \/ k = m)
    BY <1>1
  <2>2. k < m => list[k].handle < list[m].handle
    BY <2>1 DEF Sorted
  <2> QED
    BY <1>2, <2>1, <2>2
<1>4. \A k \in 1..Len(list) : list[k].handle <= list[m].handle => k \in 1..m
  <2> SUFFICES ASSUME NEW k \in 1..Len(list), list[k].handle <= list[m].handle, k \notin 1..m PROVE FALSE
    OBVIOUS
  <2>1. m < k
    BY <1>1
  <2>2. list[m].handle < list[k].handle
    BY <2>1 DEF Sorted
  <2> QED
    BY <1>2, <2>2
<1> QED
  BY <1>3, <1>4, ToSetIs

\* The fields of an attribute.
LEMMA AttributeIs ==
  ASSUME NEW a \in Attribute
  PROVE  /\ a.handle \in Word /\ a.handle # 0 /\ a.type \in Bytes /\ a.value \in Bytes /\ a.end \in Word
BY DEF Attribute

\* The first entries of a list.
LEMMA UptoIs ==
  ASSUME NEW X, NEW list \in Seq(X), NEW n \in Nat
  PROVE  /\ Upto(list, n) \in Seq(X) /\ Len(Upto(list, n)) <= Len(list)
         /\ \A k \in 1..Len(Upto(list, n)) : Upto(list, n)[k] = list[k]
<1>1. Len(list) \in Nat /\ \A k \in 1..Len(list) : list[k] \in X
  BY LenProperties, ElementOfSeq
<1>2. CASE Len(list) <= n
  BY <1>1, <1>2 DEF Upto
<1>3. CASE ~(Len(list) <= n)
  <2>1. \A k \in 1..n : k \in 1..Len(list)
    BY <1>1, <1>3
  <2>2. \A k \in 1..n : list[k] \in X
    BY <1>1, <2>1
  <2>3. /\ SubSeq(list, 1, n) \in Seq(X) /\ Len(SubSeq(list, 1, n)) = n
        /\ \A k \in 1..n : SubSeq(list, 1, n)[k] = list[k]
    BY <2>2, SubSeqProperties
  <2> DEFINE s == SubSeq(list, 1, n)
  <2>4. Upto(list, n) = s
    BY <1>3 DEF Upto
  <2> HIDE DEF s
  <2>5. s \in Seq(X) /\ Len(s) = n /\ \A k \in 1..n : s[k] = list[k]
    BY <2>3 DEF s
  <2> QED
    BY <1>1, <1>3, <2>4, <2>5
<1> QED
  BY <1>2, <1>3

\* The first attributes of a list.
LEMMA FirstOnes ==
  ASSUME NEW list \in Seq(Attribute), NEW m \in 1..Len(list)
  PROVE  /\ SubSeq(list, 1, m) \in Seq(Attribute) /\ Len(SubSeq(list, 1, m)) = m
         /\ DOMAIN SubSeq(list, 1, m) = 1..m
         /\ \A k \in 1..m : SubSeq(list, 1, m)[k] = list[k] /\ list[k] \in Attribute /\ k \in 1..Len(list)
<1>1. Len(list) \in Nat /\ \A k \in 1..Len(list) : list[k] \in Attribute
  BY LenProperties, ElementOfSeq
<1>2. \A k \in 1..m : k \in 1..Len(list) /\ list[k] \in Attribute
  BY <1>1
<1>3. m \in Nat /\ m >= 1
  BY <1>1
<1>4. /\ SubSeq(list, 1, m) \in Seq(Attribute)
      /\ Len(SubSeq(list, 1, m)) = m
      /\ \A k \in 1..m : SubSeq(list, 1, m)[k] = list[k]
  BY <1>2, <1>3, SubSeqProperties
<1> DEFINE s == SubSeq(list, 1, m)
<1> HIDE DEF s
<1>5. s \in Seq(Attribute) /\ Len(s) = m
  BY <1>4 DEF s
<1>6. DOMAIN s = 1..m
  BY <1>5
<1> QED
  BY <1>2, <1>4, <1>6 DEF s

\* A handle, or two, before a value.
LEMMA ValueEntryIs ==
  ASSUME NEW n \in Word, NEW v \in Bytes
  PROVE  LET w == Le16(n) \o v
         IN w \in Bytes /\ Len(w) = 2 + Len(v) /\ At16(w, 1) = n /\ Octets(w, 3) = v
<1> DEFINE h == Le16(n)
           w == h \o v
<1>1. h \in Bytes /\ Len(h) = 2 /\ h[1] + 256 * h[2] = n
  BY Halves
<1> HIDE DEF h
<1>2. /\ w \in Bytes /\ Len(w) = Len(h) + Len(v) /\ Octets(w, Len(h) + 1) = v
      /\ \A i \in 1..Len(h) : w[i] = h[i]
  BY <1>1, HeaderRest
<1> HIDE DEF w
<1>3. w[1] = h[1] /\ w[2] = h[2] /\ Len(h) + 1 = 3
  BY <1>1, <1>2
<1>4. Octets(w, 3) = v /\ Len(w) = 2 + Len(v)
  BY <1>1, <1>2, <1>3
<1>5. At16(w, 1) = n
  <2>1. w[1] + 256 * w[1 + 1] = n
    BY <1>1, <1>3
  <2> QED
    BY <2>1 DEF At16
<1> QED
  BY <1>2, <1>4, <1>5 DEF w, h

\* An entry of two handles and a value.
LEMMA GroupEntryIs ==
  ASSUME NEW n \in Word, NEW m \in Word, NEW v \in Bytes
  PROVE  LET w == Le16(n) \o Le16(m) \o v
         IN /\ w \in Bytes /\ Len(w) = 4 + Len(v) /\ At16(w, 1) = n /\ At16(w, 3) = m /\ Octets(w, 5) = v
<1> DEFINE h == Le16(n) \o Le16(m)
           w == h \o v
<1>1. h \in Bytes /\ Len(h) = 4 /\ At16(h, 1) = n /\ At16(h, 3) = m
  BY TwoNumbers
<1> HIDE DEF h
<1>2. w \in Bytes /\ Len(w) = Len(h) + Len(v) /\ Octets(w, Len(h) + 1) = v
  BY <1>1, HeaderRest
<1>3. \A i \in 1..Len(h) : i < Len(h) => At16(w, i) = At16(h, i)
  BY <1>1, NumberStays
<1> HIDE DEF w
<1>4. 1 \in 1..Len(h) /\ 3 \in 1..Len(h) /\ 1 < Len(h) /\ 3 < Len(h) /\ Len(h) + 1 = 5
  BY <1>1
<1>5. At16(w, 1) = n /\ At16(w, 3) = m
  BY <1>1, <1>3, <1>4
<1>6. Octets(w, 5) = v /\ Len(w) = 4 + Len(v)
  BY <1>1, <1>2, <1>4
<1> QED
  BY <1>2, <1>5, <1>6 DEF w, h

\* Those of one size, in a row.
LEMMA ValueSizes ==
  ASSUME NEW list \in Seq(Attribute), list # <<>>
  PROVE  \E m \in 1..Len(list) : /\ OfOneValueSize(list) = SubSeq(list, 1, m)
                                 /\ \A k \in 1..m : Len(list[k].value) = Len(list[1].value)
<1> DEFINE sizes == [k \in DOMAIN list |-> Len(list[k].value)]
<1>1. DOMAIN list = 1..Len(list) /\ Len(list) \in Nat
  BY LenProperties
<1>2. DOMAIN sizes = 1..Len(list) /\ \A k \in 1..Len(list) : sizes[k] = Len(list[k].value)
  BY <1>1
<1>3. OfOneValueSize(list) = Leading(list, sizes)
  BY DEF OfOneValueSize
<1> HIDE DEF sizes
<1>4. PICK m \in 1..Len(list) : /\ Leading(list, sizes) = SubSeq(list, 1, m)
                                /\ \A k \in 1..m : sizes[k] = sizes[1]
  BY <1>2, LeadingIs
<1>5. 1 \in 1..Len(list) /\ \A k \in 1..m : k \in 1..Len(list)
  BY <1>1
<1> QED
  BY <1>2, <1>3, <1>4, <1>5

\* The leading attributes whose types are of one size.
LEMMA TypeSizes ==
  ASSUME NEW list \in Seq(Attribute), list # <<>>
  PROVE  \E m \in 1..Len(list) : /\ OfOneTypeSize(list) = SubSeq(list, 1, m)
                                 /\ \A k \in 1..m : Len(list[k].type) = Len(list[1].type)
<1> DEFINE sizes == [k \in DOMAIN list |-> Len(list[k].type)]
<1>1. DOMAIN list = 1..Len(list) /\ Len(list) \in Nat
  BY LenProperties
<1>2. DOMAIN sizes = 1..Len(list) /\ \A k \in 1..Len(list) : sizes[k] = Len(list[k].type)
  BY <1>1
<1>3. OfOneTypeSize(list) = Leading(list, sizes)
  BY DEF OfOneTypeSize
<1> HIDE DEF sizes
<1>4. PICK m \in 1..Len(list) : /\ Leading(list, sizes) = SubSeq(list, 1, m)
                                /\ \A k \in 1..m : sizes[k] = sizes[1]
  BY <1>2, LeadingIs
<1>5. 1 \in 1..Len(list) /\ \A k \in 1..m : k \in 1..Len(list)
  BY <1>1
<1> QED
  BY <1>2, <1>3, <1>4, <1>5

\* The entries of a response are those of the first attributes of a list.
GroupsOf(w, list) ==
  /\ w \in Seq(Bytes) /\ Len(w) \in 1..Len(list)
  /\ \A k \in 1..Len(w) : w[k] = Le16(list[k].handle) \o Le16(list[k].end) \o list[k].value
ValuesOf(w, list) ==
  /\ w \in Seq(Bytes) /\ Len(w) \in 1..Len(list)
  /\ \A k \in 1..Len(w) : w[k] = Le16(list[k].handle) \o list[k].value
TypesOf(w, list) ==
  /\ w \in Seq(Bytes) /\ Len(w) \in 1..Len(list)
  /\ \A k \in 1..Len(w) : w[k] = Le16(list[k].handle) \o PutUuidLe(list[k].type)
RangesOf(w, list) ==
  /\ w \in Seq(Word \X Word) /\ Len(w) \in 1..Len(list)
  /\ \A k \in 1..Len(w) : w[k] = <<list[k].handle, list[k].end>>

\* The entries that a device makes of services.
LEMMA GroupEntries ==
  ASSUME NEW list \in Seq(Attribute), NEW e \in Nat,
         \A k \in 1..Len(list) : 4 + Len(list[k].value) = e
  PROVE  /\ Uniform(Groups(list), e) /\ Len(Groups(list)) = Len(list)
         /\ \A k \in 1..Len(list) :
              Groups(list)[k] = Le16(list[k].handle) \o Le16(list[k].end) \o list[k].value
<1> DEFINE G(k) == Le16(list[k].handle) \o Le16(list[k].end) \o list[k].value
           f == [k \in 1..Len(list) |-> G(k)]
<1>1. DOMAIN list = 1..Len(list) /\ Len(list) \in Nat /\ \A k \in 1..Len(list) : list[k] \in Attribute
  BY LenProperties, ElementOfSeq
<1>2. Groups(list) = f
  BY <1>1 DEF Groups
<1>3. ASSUME NEW k \in 1..Len(list) PROVE G(k) \in Bytes /\ Len(G(k)) = e
  <2>1. list[k].handle \in Word /\ list[k].end \in Word /\ list[k].value \in Bytes
    BY <1>1, AttributeIs
  <2>2. G(k) \in Bytes /\ Len(G(k)) = 4 + Len(list[k].value)
    BY <2>1, GroupEntryIs
  <2> QED
    BY <2>2
<1> HIDE DEF G
<1>4. f \in [1..Len(list) -> Bytes]
  BY <1>3
<1>5. f \in Seq(Bytes) /\ Len(f) = Len(list) /\ \A k \in 1..Len(list) : f[k] = G(k)
  BY <1>1, <1>4
<1> HIDE DEF f
<1>6. Uniform(f, e)
  BY <1>3, <1>5 DEF Uniform
<1> QED
  BY <1>2, <1>5, <1>6 DEF G

\* The entries that a device makes of declarations.
LEMMA ValueEntries ==
  ASSUME NEW list \in Seq(Attribute), NEW e \in Nat,
         \A k \in 1..Len(list) : 2 + Len(list[k].value) = e
  PROVE  /\ Uniform(HandleValues(list), e) /\ Len(HandleValues(list)) = Len(list)
         /\ \A k \in 1..Len(list) : HandleValues(list)[k] = Le16(list[k].handle) \o list[k].value
<1> DEFINE G(k) == Le16(list[k].handle) \o list[k].value
           f == [k \in 1..Len(list) |-> G(k)]
<1>1. DOMAIN list = 1..Len(list) /\ Len(list) \in Nat /\ \A k \in 1..Len(list) : list[k] \in Attribute
  BY LenProperties, ElementOfSeq
<1>2. HandleValues(list) = f
  BY <1>1 DEF HandleValues
<1>3. ASSUME NEW k \in 1..Len(list) PROVE G(k) \in Bytes /\ Len(G(k)) = e
  <2>1. list[k].handle \in Word /\ list[k].value \in Bytes
    BY <1>1, AttributeIs
  <2>2. G(k) \in Bytes /\ Len(G(k)) = 2 + Len(list[k].value)
    BY <2>1, ValueEntryIs
  <2> QED
    BY <2>2
<1> HIDE DEF G
<1>4. f \in [1..Len(list) -> Bytes]
  BY <1>3
<1>5. f \in Seq(Bytes) /\ Len(f) = Len(list) /\ \A k \in 1..Len(list) : f[k] = G(k)
  BY <1>1, <1>4
<1> HIDE DEF f
<1>6. Uniform(f, e)
  BY <1>3, <1>5 DEF Uniform
<1> QED
  BY <1>2, <1>5, <1>6 DEF G

\* The entries that a device makes of any attributes.
LEMMA TypeEntries ==
  ASSUME NEW list \in Seq(Attribute), NEW e \in Nat,
         \A k \in 1..Len(list) : 2 + Len(list[k].type) = e
  PROVE  /\ Uniform(HandleTypes(list), e) /\ Len(HandleTypes(list)) = Len(list)
         /\ \A k \in 1..Len(list) : HandleTypes(list)[k] = Le16(list[k].handle) \o PutUuidLe(list[k].type)
<1> DEFINE G(k) == Le16(list[k].handle) \o PutUuidLe(list[k].type)
           f == [k \in 1..Len(list) |-> G(k)]
<1>1. DOMAIN list = 1..Len(list) /\ Len(list) \in Nat /\ \A k \in 1..Len(list) : list[k] \in Attribute
  BY LenProperties, ElementOfSeq
<1>2. HandleTypes(list) = f
  BY <1>1 DEF HandleTypes
<1>3. ASSUME NEW k \in 1..Len(list) PROVE G(k) \in Bytes /\ Len(G(k)) = e
  <2>1. list[k].handle \in Word /\ list[k].type \in Bytes
    BY <1>1, AttributeIs
  <2> DEFINE u == PutUuidLe(list[k].type)
  <2>2. u \in Bytes /\ Len(u) = Len(list[k].type)
    BY <2>1, ReverseTwice DEF PutUuidLe
  <2>3. G(k) = Le16(list[k].handle) \o u
    OBVIOUS
  <2> HIDE DEF u
  <2>4. Le16(list[k].handle) \o u \in Bytes /\ Len(Le16(list[k].handle) \o u) = 2 + Len(u)
    BY <2>1, <2>2, ValueEntryIs
  <2> QED
    BY <2>2, <2>3, <2>4
<1> HIDE DEF G
<1>4. f \in [1..Len(list) -> Bytes]
  BY <1>3
<1>5. f \in Seq(Bytes) /\ Len(f) = Len(list) /\ \A k \in 1..Len(list) : f[k] = G(k)
  BY <1>1, <1>4
<1> HIDE DEF f
<1>6. Uniform(f, e)
  BY <1>3, <1>5 DEF Uniform
<1> QED
  BY <1>2, <1>5, <1>6 DEF G

\* What enc_read_by_grp_resp writes of a list of services is read as the first of them.
LEMMA GroupsRead ==
  ASSUME NEW list \in Seq(Attribute), list # <<>>, \A k \in 1..Len(list) : Len(list[k].value) \in {2, 16},
         NEW len \in Nat, 23 <= len
  PROVE  LET p == EncReadByGrpResp(Groups(OfOneValueSize(list)), len)
         IN /\ p \in Bytes /\ p[1] = 17
            /\ \E w : DecReadByGrpResp(p) = {w} /\ GroupsOf(w, list) /\ Len(w[1]) \in {6, 20}
<1>1. PICK m \in 1..Len(list) : /\ OfOneValueSize(list) = SubSeq(list, 1, m)
                                /\ \A k \in 1..m : Len(list[k].value) = Len(list[1].value)
  BY ValueSizes
<1> DEFINE lead == SubSeq(list, 1, m)
           e == 4 + Len(list[1].value)
           g == Groups(lead)
           p == EncReadByGrpResp(g, len)
           w == Upto(g, (len - 2) \div e)
<1>2. lead \in Seq(Attribute) /\ Len(lead) = m /\ \A k \in 1..m : lead[k] = list[k] /\ k \in 1..Len(list)
  BY FirstOnes
<1>3. m \in Nat /\ m >= 1 /\ 1 \in 1..Len(list) /\ Len(list) \in Nat
  BY LenProperties
<1>4. Len(list[1].value) \in {2, 16}
  BY <1>3
<1>5. e \in {6, 20} /\ e \in Nat
  <2>1. CASE Len(list[1].value) = 2
    BY <2>1
  <2>2. CASE Len(list[1].value) = 16
    BY <2>2
  <2> QED
    BY <1>4, <2>1, <2>2
<1>6. \A k \in 1..Len(lead) : 4 + Len(lead[k].value) = e
  BY <1>1, <1>2
<1> HIDE DEF lead, e
<1>7. /\ Uniform(g, e) /\ Len(g) = m
      /\ \A k \in 1..m : g[k] = Le16(lead[k].handle) \o Le16(lead[k].end) \o lead[k].value
  BY <1>2, <1>5, <1>6, GroupEntries
<1>8. \A k \in 1..m : g[k] = Le16(list[k].handle) \o Le16(list[k].end) \o list[k].value
  BY <1>2, <1>7
<1> HIDE DEF g
<1>9. g \in Seq(Bytes) /\ g # <<>> /\ \A k \in 1..m : Len(g[k]) = e
  BY <1>3, <1>7 DEF Uniform
<1>10. e \in 5..Longest /\ e + 2 <= len
  BY <1>5 DEF Longest
<1>11. p \in Bytes /\ p[1] = 17 /\ DecReadByGrpResp(p) = {w} /\ Len(w) >= 1
  BY <1>7, <1>9, <1>10, ReadByGrpRespIs
<1>12. (len - 2) \div e \in Nat
  BY <1>5
<1>13. w \in Seq(Bytes) /\ Len(w) <= m /\ \A k \in 1..Len(w) : w[k] = g[k]
  BY <1>7, <1>9, <1>12, UptoIs
<1> HIDE DEF p, w
<1>14. Len(w) \in 1..Len(list) /\ \A k \in 1..Len(w) : k \in 1..m
  BY <1>3, <1>11, <1>13, LenProperties
<1>15. GroupsOf(w, list)
  BY <1>8, <1>13, <1>14 DEF GroupsOf
<1>16. Len(w[1]) \in {6, 20}
  <2>1. 1 \in 1..Len(w) /\ 1 \in 1..m
    BY <1>3, <1>14
  <2> QED
    BY <1>5, <1>9, <1>13, <2>1
<1>17. p = EncReadByGrpResp(Groups(OfOneValueSize(list)), len)
  BY <1>1 DEF p, g, lead
<1> QED
  BY <1>11, <1>15, <1>16, <1>17

\* Likewise the values of attributes of one type, and their types.
LEMMA ValuesRead ==
  ASSUME NEW list \in Seq(Attribute), list # <<>>, NEW L \in SUBSET (1..19),
         \A k \in 1..Len(list) : Len(list[k].value) \in L,
         NEW len \in Nat, 23 <= len
  PROVE  LET p == EncReadByTypeResp(HandleValues(OfOneValueSize(list)), len)
         IN /\ p \in Bytes /\ p[1] = 9
            /\ \E w : DecReadByTypeResp(p) = {w} /\ ValuesOf(w, list) /\ \E n \in L : Len(w[1]) = 2 + n
<1>1. PICK m \in 1..Len(list) : /\ OfOneValueSize(list) = SubSeq(list, 1, m)
                                /\ \A k \in 1..m : Len(list[k].value) = Len(list[1].value)
  BY ValueSizes
<1> DEFINE lead == SubSeq(list, 1, m)
           n == Len(list[1].value)
           e == 2 + n
           g == HandleValues(lead)
           p == EncReadByTypeResp(g, len)
           w == Upto(g, (len - 2) \div e)
<1>2. lead \in Seq(Attribute) /\ Len(lead) = m /\ \A k \in 1..m : lead[k] = list[k] /\ k \in 1..Len(list)
  BY FirstOnes
<1>3. m \in Nat /\ m >= 1 /\ 1 \in 1..Len(list) /\ Len(list) \in Nat
  BY LenProperties
<1>4. n \in L /\ n \in 1..19
  BY <1>3
<1>5. e \in Nat /\ e >= 3 /\ e <= 21
  BY <1>4
<1>6. \A k \in 1..Len(lead) : 2 + Len(lead[k].value) = e
  BY <1>1, <1>2
<1> HIDE DEF lead, e, n
<1>7. /\ Uniform(g, e) /\ Len(g) = m
      /\ \A k \in 1..m : g[k] = Le16(lead[k].handle) \o lead[k].value
  BY <1>2, <1>5, <1>6, ValueEntries
<1>8. \A k \in 1..m : g[k] = Le16(list[k].handle) \o list[k].value
  BY <1>2, <1>7
<1> HIDE DEF g
<1>9. g \in Seq(Bytes) /\ g # <<>> /\ \A k \in 1..m : Len(g[k]) = e
  BY <1>3, <1>7 DEF Uniform
<1>10. e \in 3..Longest /\ 5 <= len /\ Least(len - 2, e) = e
  BY <1>5 DEF Longest, Least
<1>11. /\ p \in Bytes /\ p[1] = 9
       /\ DecReadByTypeResp(p) = {Upto(Cut(g, Least(len - 2, e)), (len - 2) \div Least(len - 2, e))}
       /\ Len(Upto(Cut(g, Least(len - 2, e)), (len - 2) \div Least(len - 2, e))) >= 1
  BY <1>7, <1>9, <1>10, ReadByTypeRespIs
<1>12. Cut(g, e) = g
  <2>1. e <= e
    BY <1>5
  <2> QED
    BY <1>5, <1>7, <2>1, CutUniform
<1>13. DecReadByTypeResp(p) = {w} /\ Len(w) >= 1
  BY <1>10, <1>11, <1>12
<1>14. (len - 2) \div e \in Nat
  BY <1>5
<1>15. w \in Seq(Bytes) /\ Len(w) <= m /\ \A k \in 1..Len(w) : w[k] = g[k]
  BY <1>7, <1>9, <1>14, UptoIs
<1> HIDE DEF p, w
<1>16. Len(w) \in 1..Len(list) /\ \A k \in 1..Len(w) : k \in 1..m
  BY <1>3, <1>13, <1>15, LenProperties
<1>17. ValuesOf(w, list)
  BY <1>8, <1>15, <1>16 DEF ValuesOf
<1>18. Len(w[1]) = 2 + n
  <2>1. 1 \in 1..Len(w) /\ 1 \in 1..m
    BY <1>3, <1>16
  <2> QED
    BY <1>9, <1>15, <2>1 DEF e
<1>19. p = EncReadByTypeResp(HandleValues(OfOneValueSize(list)), len)
  BY <1>1 DEF p, g, lead
<1> QED
  BY <1>4, <1>11, <1>13, <1>17, <1>18, <1>19

\* The response to a find information request is read as its first entries.
LEMMA TypesRead ==
  ASSUME NEW list \in Seq(Attribute), list # <<>>, \A k \in 1..Len(list) : Len(list[k].type) \in {2, 16},
         NEW len \in Nat, 23 <= len
  PROVE  LET p == EncFindInfoResp(IF Len(list[1].type) = 2 THEN 1 ELSE 2, HandleTypes(OfOneTypeSize(list)), len)
         IN /\ p \in Bytes /\ p[1] = 5
            /\ \E w, f : DecFindInfoResp(p) = {[format |-> f, list |-> w]} /\ TypesOf(w, list)
<1>1. PICK m \in 1..Len(list) : /\ OfOneTypeSize(list) = SubSeq(list, 1, m)
                                /\ \A k \in 1..m : Len(list[k].type) = Len(list[1].type)
  BY TypeSizes
<1> DEFINE lead == SubSeq(list, 1, m)
           e == 2 + Len(list[1].type)
           f == IF Len(list[1].type) = 2 THEN 1 ELSE 2
           g == HandleTypes(lead)
           p == EncFindInfoResp(f, g, len)
           w == Upto(g, (len - 2) \div e)
<1>2. lead \in Seq(Attribute) /\ Len(lead) = m /\ \A k \in 1..m : lead[k] = list[k] /\ k \in 1..Len(list)
  BY FirstOnes
<1>3. m \in Nat /\ m >= 1 /\ 1 \in 1..Len(list) /\ Len(list) \in Nat
  BY LenProperties
<1>4. Len(list[1].type) \in {2, 16}
  BY <1>3
<1>5. f \in {1, 2} /\ e = (IF f = 1 THEN 4 ELSE 18) /\ e \in Nat /\ e <= 18 /\ e >= 4
  <2>1. CASE Len(list[1].type) = 2
    BY <2>1
  <2>2. CASE Len(list[1].type) = 16
    BY <2>2
  <2> QED
    BY <1>4, <2>1, <2>2
<1>6. \A k \in 1..Len(lead) : 2 + Len(lead[k].type) = e
  BY <1>1, <1>2
<1> HIDE DEF lead, e, f
<1>7. /\ Uniform(g, e) /\ Len(g) = m
      /\ \A k \in 1..m : g[k] = Le16(lead[k].handle) \o PutUuidLe(lead[k].type)
  BY <1>2, <1>5, <1>6, TypeEntries
<1>8. \A k \in 1..m : g[k] = Le16(list[k].handle) \o PutUuidLe(list[k].type)
  BY <1>2, <1>7
<1> HIDE DEF g
<1>9. g \in Seq(Bytes) /\ g # <<>> /\ \A k \in 1..m : Len(g[k]) = e
  BY <1>3, <1>7 DEF Uniform
<1>10. e + 2 <= len
  BY <1>5
<1>11. p \in Bytes /\ p[1] = 5 /\ DecFindInfoResp(p) = {[format |-> f, list |-> w]} /\ Len(w) >= 1
  <2>1. /\ EncFindInfoResp(f, g, len) \in Bytes /\ EncFindInfoResp(f, g, len)[1] = 5
        /\ DecFindInfoResp(EncFindInfoResp(f, g, len)) = {[format |-> f, list |-> Upto(g, (len - 2) \div e)]}
        /\ Len(Upto(g, (len - 2) \div e)) >= 1
    <3>1. f \in {1, 2} /\ e = IF f = 1 THEN 4 ELSE 18
      BY <1>5
    <3>2. Uniform(g, e) /\ g # <<>>
      BY <1>7, <1>9
    <3> HIDE DEF p, w
    <3>3. LET q == EncFindInfoResp(f, g, len)
          IN /\ q \in Bytes /\ Len(q) <= len /\ q[1] = 5
             /\ DecFindInfoResp(q) = {[format |-> f, list |-> Upto(g, (len - 2) \div e)]}
             /\ Len(Upto(g, (len - 2) \div e)) >= 1
      <4>1. CASE f = 1
        BY <3>1, <3>2, <1>10, <4>1, FindInfoRespIs
      <4>2. CASE f = 2
        BY <3>1, <3>2, <1>10, <4>2, FindInfoRespIs
      <4> QED
        BY <3>1, <4>1, <4>2
    <3> QED
      BY <3>3
  <2> QED
    BY <2>1
<1>12. (len - 2) \div e \in Nat
  BY <1>5
<1>13. w \in Seq(Bytes) /\ Len(w) <= m /\ \A k \in 1..Len(w) : w[k] = g[k]
  BY <1>7, <1>9, <1>12, UptoIs
<1> HIDE DEF p, w
<1>14. Len(w) \in 1..Len(list) /\ \A k \in 1..Len(w) : k \in 1..m
  BY <1>3, <1>11, <1>13, LenProperties
<1>15. TypesOf(w, list)
  BY <1>8, <1>13, <1>14 DEF TypesOf
<1>16. p = EncFindInfoResp(IF Len(list[1].type) = 2 THEN 1 ELSE 2, HandleTypes(OfOneTypeSize(list)), len)
  BY <1>1 DEF p, g, lead, f
<1> QED
  BY <1>11, <1>15, <1>16

\* The response to a find by type value request is read as its first ranges.
LEMMA RangesRead ==
  ASSUME NEW list \in Seq(Attribute), list # <<>>, NEW len \in Nat, 23 <= len
  PROVE  LET p == EncFindByTypeResp(HandleRanges(list), len)
         IN /\ p \in Bytes /\ p[1] = 7
            /\ \E w : DecFindByTypeResp(p) = {w} /\ RangesOf(w, list)
<1> DEFINE g == HandleRanges(list)
           p == EncFindByTypeResp(g, len)
           w == Upto(g, (len - 1) \div 4)
<1>1. Len(list) \in Nat /\ DOMAIN list = 1..Len(list) /\ \A k \in 1..Len(list) : list[k] \in Attribute
  BY LenProperties, ElementOfSeq
<1>2. g = [k \in 1..Len(list) |-> <<list[k].handle, list[k].end>>]
  BY <1>1 DEF HandleRanges
<1>3. \A k \in 1..Len(list) : <<list[k].handle, list[k].end>> \in Word \X Word
  BY <1>1, AttributeIs
<1>4. g \in [1..Len(list) -> Word \X Word]
  BY <1>2, <1>3
<1>5. \A k \in 1..Len(list) : g[k] = <<list[k].handle, list[k].end>>
  BY <1>2
<1> HIDE DEF g
<1>6. g \in Seq(Word \X Word) /\ Len(g) = Len(list)
  BY <1>1, <1>4
<1>7. g # <<>> /\ 5 <= len
  BY <1>1, <1>6, EmptySeq
<1>8. p \in Bytes /\ p[1] = 7 /\ DecFindByTypeResp(p) = {w} /\ Len(w) >= 1
  BY <1>6, <1>7, FindByTypeRespIs
<1>9. (len - 1) \div 4 \in Nat
  OBVIOUS
<1>10. w \in Seq(Word \X Word) /\ Len(w) <= Len(g) /\ \A k \in 1..Len(w) : w[k] = g[k]
  BY <1>6, <1>9, UptoIs
<1> HIDE DEF p, w
<1>11. Len(w) \in 1..Len(list) /\ \A k \in 1..Len(w) : k \in 1..Len(list)
  BY <1>1, <1>6, <1>8, <1>10, LenProperties
<1>12. RangesOf(w, list)
  BY <1>5, <1>10, <1>11 DEF RangesOf
<1> QED
  BY <1>8, <1>12 DEF p, g

\* g[i] is what the first i parts make of a value.
Grown(v, parts, n, g) ==
  g = [i \in 0..n |-> IF i = 0 THEN v ELSE SubSeq(g[i - 1], 1, parts[i].offset) \o parts[i].value]

\* Any parts make something of a value.
LEMMA GrownExists ==
  ASSUME NEW v, NEW parts, NEW n \in Nat
  PROVE  \E g : Grown(v, parts, n, g)
<1> DEFINE S == {m \in 0..n : \E g : Grown(v, parts, m, g)}
<1>1. 0 \in S
  <2> DEFINE g == [i \in 0..0 |-> v]
  <2>1. \A i \in 0..0 : i = 0
    OBVIOUS
  <2>2. Grown(v, parts, 0, g)
    BY <2>1 DEF Grown
  <2> QED
    BY <2>2
<1>2. \A m \in 0..n : m < n /\ m \in S => m + 1 \in S
  <2> SUFFICES ASSUME NEW m \in 0..n, m < n, m \in S PROVE m + 1 \in S
    OBVIOUS
  <2>1. PICK g : Grown(v, parts, m, g)
    OBVIOUS
  <2> DEFINE h == [i \in 0..(m + 1) |-> IF i <= m THEN g[i]
                                       ELSE SubSeq(g[m], 1, parts[m + 1].offset) \o parts[m + 1].value]
  <2>2. g = [i \in 0..m |-> IF i = 0 THEN v ELSE SubSeq(g[i - 1], 1, parts[i].offset) \o parts[i].value]
    BY <2>1 DEF Grown
  <2>3. \A i \in 0..m : h[i] = g[i]
    OBVIOUS
  <2>4. h[m + 1] = SubSeq(g[m], 1, parts[m + 1].offset) \o parts[m + 1].value
    <3>1. m + 1 \in 0..(m + 1) /\ ~(m + 1 <= m)
      OBVIOUS
    <3> QED
      BY <3>1, Zenon
  <2> HIDE DEF h
  <2>5. ASSUME NEW i \in 0..(m + 1)
        PROVE  h[i] = IF i = 0 THEN v ELSE SubSeq(h[i - 1], 1, parts[i].offset) \o parts[i].value
    <3>1. CASE i = 0
      BY <2>2, <2>3, <3>1
    <3>2. CASE i \in 1..m
      <4>1. h[i] = g[i] /\ h[i - 1] = g[i - 1]
        BY <2>3, <3>2
      <4>2. g[i] = SubSeq(g[i - 1], 1, parts[i].offset) \o parts[i].value
        <5>1. i \in 0..m /\ i # 0
          BY <3>2
        <5> QED
          BY <2>2, <5>1, Zenon
      <4>3. i # 0
        BY <3>2
      <4> QED
        BY <4>1, <4>2, <4>3, Zenon
    <3>3. CASE i = m + 1
      <4>1. i # 0 /\ i - 1 = m /\ h[m] = g[m]
        BY <2>3, <3>3
      <4> QED
        BY <2>4, <3>3, <4>1
    <3> QED
      BY <3>1, <3>2, <3>3
  <2>6. h = [i \in 0..(m + 1) |-> h[i]]
    BY DEF h
  <2>7. Grown(v, parts, m + 1, h)
    BY <2>5, <2>6 DEF Grown
  <2>8. m + 1 \in 0..n
    OBVIOUS
  <2> QED
    BY <2>7, <2>8
<1>3. n \in S
  <2>1. n \in 0..n
    OBVIOUS
  <2> HIDE DEF S
  <2> QED
    BY <1>1, <1>2, <2>1, CountUp
<1> QED
  BY <1>3

\* What they make of it depends on them only.
LEMMA GrownSame ==
  ASSUME NEW v, NEW parts, NEW others, NEW n \in Nat, NEW m \in Nat, n <= m,
         \A i \in 1..n : parts[i] = others[i],
         NEW g, Grown(v, parts, n, g), NEW h, Grown(v, others, m, h)
  PROVE  g[n] = h[n]
<1> DEFINE S == {i \in 0..n : g[i] = h[i]}
<1>1. \A i \in 0..n : g[i] = IF i = 0 THEN v ELSE SubSeq(g[i - 1], 1, parts[i].offset) \o parts[i].value
  BY DEF Grown
<1>2. \A i \in 0..m : h[i] = IF i = 0 THEN v ELSE SubSeq(h[i - 1], 1, others[i].offset) \o others[i].value
  BY DEF Grown
<1>3. 0 \in S
  BY <1>1, <1>2
<1>4. \A i \in 0..n : i < n /\ i \in S => i + 1 \in S
  <2> SUFFICES ASSUME NEW i \in 0..n, i < n, i \in S PROVE i + 1 \in S
    OBVIOUS
  <2>1. i + 1 \in 0..n /\ i + 1 \in 0..m /\ i + 1 # 0 /\ (i + 1) - 1 = i /\ i + 1 \in 1..n
    OBVIOUS
  <2>2. g[i + 1] = SubSeq(g[i], 1, parts[i + 1].offset) \o parts[i + 1].value
    BY <1>1, <2>1
  <2>3. h[i + 1] = SubSeq(h[i], 1, others[i + 1].offset) \o others[i + 1].value
    BY <1>2, <2>1
  <2>4. parts[i + 1] = others[i + 1] /\ g[i] = h[i]
    BY <2>1
  <2> QED
    BY <2>1, <2>2, <2>3, <2>4
<1>5. n \in S
  <2>1. n \in 0..n
    OBVIOUS
  <2> HIDE DEF S
  <2> QED
    BY <1>3, <1>4, <2>1, CountUp
<1> QED
  BY <1>5

\* The value that Assembled computes, part by part.
LEMMA GrownIs ==
  ASSUME NEW v, NEW X, NEW parts \in Seq(X)
  PROVE  \E g : Grown(v, parts, Len(parts), g) /\ Assembled(v, parts) = g[Len(parts)]
<1> DEFINE assembled[k \in 0..Len(parts)] ==
             IF k = 0 THEN v ELSE SubSeq(assembled[k - 1], 1, parts[k].offset) \o parts[k].value
<1>1. Assembled(v, parts) = assembled[Len(parts)]
  BY DEF Assembled
<1>2. PICK g : Grown(v, parts, Len(parts), g)
  <2>1. Len(parts) \in Nat
    OBVIOUS
  <2> QED
    BY <2>1, GrownExists
<1>3. g = [k \in 0..Len(parts) |->
             IF k = 0 THEN v ELSE SubSeq(g[k - 1], 1, parts[k].offset) \o parts[k].value]
  BY <1>2 DEF Grown
<1>4. assembled = [k \in 0..Len(parts) |->
             IF k = 0 THEN v ELSE SubSeq(assembled[k - 1], 1, parts[k].offset) \o parts[k].value]
  BY <1>3
<1> HIDE DEF assembled
<1>5. Grown(v, parts, Len(parts), assembled)
  BY <1>4 DEF Grown
<1> QED
  BY <1>1, <1>5

\* Nothing changes a value, and a part keeps the octets before its offset.
LEMMA AssembledNone ==
  ASSUME NEW v
  PROVE  Assembled(v, <<>>) = v
<1>1. <<>> \in Seq({}) /\ Len(<<>>) = 0
  OBVIOUS
<1>2. PICK g : Grown(v, <<>>, Len(<<>>), g) /\ Assembled(v, <<>>) = g[Len(<<>>)]
  BY <1>1, GrownIs
<1>3. Grown(v, <<>>, 0, g) /\ Assembled(v, <<>>) = g[0]
  BY <1>1, <1>2
<1>4. 0 \in 0..0
  OBVIOUS
<1> QED
  BY <1>3, <1>4 DEF Grown

\* One more part replaces what is behind its offset.
LEMMA AssembledOne ==
  ASSUME NEW v, NEW X, NEW parts \in Seq(X), NEW x \in X
  PROVE  Assembled(v, Append(parts, x)) = SubSeq(Assembled(v, parts), 1, x.offset) \o x.value
<1> DEFINE n == Len(parts)
           more == Append(parts, x)
<1>1. n \in Nat /\ more \in Seq(X) /\ Len(more) = n + 1 /\ more[n + 1] = x /\ \A i \in 1..n : more[i] = parts[i]
  OBVIOUS
<1>2. PICK g : Grown(v, parts, n, g) /\ Assembled(v, parts) = g[n]
  BY GrownIs
<1>3. PICK h : Grown(v, more, Len(more), h) /\ Assembled(v, more) = h[Len(more)]
  BY <1>1, GrownIs
<1> HIDE DEF n, more
<1>4. Grown(v, more, n + 1, h) /\ Assembled(v, more) = h[n + 1]
  BY <1>1, <1>3
<1>5. h[n + 1] = SubSeq(h[n], 1, more[n + 1].offset) \o more[n + 1].value
  <2>1. n + 1 \in 0..(n + 1) /\ n + 1 # 0 /\ (n + 1) - 1 = n
    BY <1>1
  <2> QED
    BY <1>4, <2>1 DEF Grown
<1>6. g[n] = h[n]
  <2>1. n + 1 \in Nat /\ n <= n + 1 /\ \A i \in 1..n : parts[i] = more[i]
    BY <1>1
  <2> QED
    BY <1>1, <1>2, <1>4, <2>1, GrownSame
<1> QED
  BY <1>1, <1>2, <1>4, <1>5, <1>6 DEF more

\* One part at the start is all of the value.
LEMMA AssembledWhole ==
  ASSUME NEW v, NEW w \in Bytes
  PROVE  Assembled(v, OnePart(w)) = w
<1>0. PICK x : x = [offset |-> 0, value |-> w]
  OBVIOUS
<1>1. <<>> \in Seq({x}) /\ x \in {x} /\ <<x>> = Append(<<>>, x)
  OBVIOUS
<1>2. Assembled(v, Append(<<>>, x)) = SubSeq(Assembled(v, <<>>), 1, x.offset) \o x.value
  <2>1. PICK X, e : X = {x} /\ e = <<>>
    OBVIOUS
  <2>2. e \in Seq(X) /\ x \in X
    BY <1>1, <2>1
  <2>3. Assembled(v, Append(e, x)) = SubSeq(Assembled(v, e), 1, x.offset) \o x.value
    BY <2>2, AssembledOne
  <2> QED
    BY <2>1, <2>3
<1>4. x.offset = 0 /\ x.value = w
  BY <1>0
<1>3. SubSeq(v, 1, 0) = <<>>
  BY SubSeqEmpty
<1> QED
  BY <1>0, <1>1, <1>2, <1>3, <1>4, AssembledNone DEF Bytes, OnePart

\* The one member of a set.
LEMMA TheIs ==
  ASSUME NEW x
  PROVE  The({x}) = x
BY DEF The

\* The reply to each request of a discovery.
LEMMA GroupsAsked ==
  ASSUME NEW from \in Word, NEW to \in Word, NEW uuid \in Bytes, Len(uuid) \in {2, 16},
         NEW db, NEW queue, NEW len
  PROVE  LET p == EncReadByGrpReq(from, to, uuid)
             q == Asked(db, [start |-> from, end |-> to, uuid |-> uuid], OfType(db, uuid))
         IN Replies(p, db, queue, len) = {Answering(AnswerGroups(p, q, len), db, queue)}
<1> DEFINE p == EncReadByGrpReq(from, to, uuid)
           r == [start |-> from, end |-> to, uuid |-> uuid]
           q == Asked(db, r, OfType(db, uuid))
<1>1. p[1] = 16 /\ DecReadByGrpReq(p) = {r}
  BY ReadByGrpReqIs
<1>2. r.uuid = uuid
  OBVIOUS
<1> HIDE DEF p, r
<1>3. {Asked(db, y, OfType(db, y.uuid)) : y \in {r}} = {q}
  BY <1>2
<1> HIDE DEF q
<1>4. Discover(p, db, len) = {AnswerGroups(p, q, len)}
  BY <1>1, <1>3 DEF Discover
<1> QED
  BY <1>1, <1>4 DEF Replies, p, q, r

\* What a device makes of a read by type.
LEMMA ValuesAsked ==
  ASSUME NEW from \in Word, NEW to \in Word, NEW uuid \in Bytes, Len(uuid) \in {2, 16},
         NEW db, NEW queue, NEW len
  PROVE  LET p == EncReadByTypeReq(from, to, uuid)
             q == Asked(db, [start |-> from, end |-> to, uuid |-> uuid], OfType(db, uuid))
         IN Replies(p, db, queue, len) = {Answering(AnswerValues(p, q, len), db, queue)}
<1> DEFINE p == EncReadByTypeReq(from, to, uuid)
           r == [start |-> from, end |-> to, uuid |-> uuid]
           q == Asked(db, r, OfType(db, uuid))
<1>1. p[1] = 8 /\ DecReadByTypeReq(p) = {r}
  BY ReadByTypeReqIs
<1>2. r.uuid = uuid
  OBVIOUS
<1> HIDE DEF p, r
<1>3. {Asked(db, y, OfType(db, y.uuid)) : y \in {r}} = {q}
  BY <1>2
<1> HIDE DEF q
<1>4. Discover(p, db, len) = {AnswerValues(p, q, len)}
  BY <1>1, <1>3 DEF Discover
<1> QED
  BY <1>1, <1>4 DEF Replies, p, q, r

\* What a device makes of a find information request.
LEMMA TypesAsked ==
  ASSUME NEW from \in Word, NEW to \in Word, NEW db, NEW queue, NEW len
  PROVE  LET p == EncFindInfoReq(from, to)
             q == Asked(db, [start |-> from, end |-> to], ToSet(db))
         IN Replies(p, db, queue, len) = {Answering(AnswerTypes(p, q, len), db, queue)}
<1> DEFINE p == EncFindInfoReq(from, to)
           r == [start |-> from, end |-> to]
           q == Asked(db, r, ToSet(db))
<1>1. p[1] = 4 /\ DecFindInfoReq(p) = {r}
  BY FindInfoReqIs
<1> HIDE DEF p, r
<1>3. {Asked(db, y, ToSet(db)) : y \in {r}} = {q}
  OBVIOUS
<1> HIDE DEF q
<1>4. Discover(p, db, len) = {AnswerTypes(p, q, len)}
  BY <1>1, <1>3 DEF Discover
<1> QED
  BY <1>1, <1>4 DEF Replies, p, q, r

\* What a device makes of a find by type value request.
LEMMA RangesAsked ==
  ASSUME NEW from \in Word, NEW to \in Word, NEW uuid \in Bytes, Len(uuid) = 2,
         NEW value \in Bytes, Len(value) <= 16, NEW len \in Nat, 23 <= len, NEW db, NEW queue
  PROVE  LET p == EncFindByTypeReq(from, to, uuid, value, len)
             q == Asked(db, [start |-> from, end |-> to, uuid |-> uuid, value |-> value],
                        {a \in OfType(db, uuid) : a.value = value})
         IN /\ p \in Bytes /\ p[1] = 6
            /\ Replies(p, db, queue, len) = {Answering(AnswerRanges(p, q, len), db, queue)}
<1> DEFINE p == EncFindByTypeReq(from, to, uuid, value, len)
           r == [start |-> from, end |-> to, uuid |-> uuid, value |-> value]
           q == Asked(db, r, {a \in OfType(db, uuid) : a.value = value})
<1>1. p \in Bytes /\ p[1] = 6 /\ DecFindByTypeReq(p) = {r}
  <2>1. 7 <= len
    OBVIOUS
  <2>2. Searching(p, from, to, uuid, value, len)
    BY <2>1, FindByTypeReqIs
  <2>3. Upto(value, len - 7) = value
    <3>1. Least(Len(value), len - 7) = Len(value)
      BY LenProperties DEF Least
    <3> QED
      BY <3>1, SubSeqFull DEF Upto, Bytes, Least
  <2> HIDE DEF p
  <2> QED
    BY <2>2, <2>3 DEF Searching
<1>2. r.uuid = uuid /\ r.value = value
  OBVIOUS
<1> HIDE DEF p, r
<1>3. {Asked(db, y, {a \in OfType(db, y.uuid) : a.value = y.value}) : y \in {r}} = {q}
  BY <1>2
<1> HIDE DEF q
<1>4. Discover(p, db, len) = {AnswerRanges(p, q, len)}
  <2>1. p[1] # 16 /\ p[1] = 6
    BY <1>1
  <2>2. Discover(p, db, len) =
          {AnswerRanges(p, x, len) :
             x \in {Asked(db, y, {a \in OfType(db, y.uuid) : a.value = y.value}) : y \in DecFindByTypeReq(p)}}
    BY <2>1 DEF Discover
  <2>3. Discover(p, db, len) = {AnswerRanges(p, x, len) : x \in {q}}
    BY <1>1, <1>3, <2>2, Zenon
  <2> QED
    BY <2>3
<1> QED
  BY <1>1, <1>4 DEF Replies, p, q, r

\* The replies to each request for a value.
LEMMA ReadAsked ==
  ASSUME NEW n \in Word, NEW db, NEW queue, NEW len, At(db, n) # 0
  PROVE  Replies(EncReadReq(n), db, queue, len) =
           {Answering(EncReadResp(db[At(db, n)].value, len), db, queue)}
<1> DEFINE p == EncReadReq(n)
           r == [handle |-> n]
<1>1. p[1] = 10 /\ DecReadReq(p) = {r} /\ r.handle = n
  BY ReadReqIs
<1> HIDE DEF p, r
<1>2. The(DecReadReq(p)) = r
  BY <1>1, TheIs
<1> QED
  BY <1>1, <1>2 DEF Replies, Access, p

\* A read of a handle that is not there.
LEMMA ReadRefused ==
  ASSUME NEW n \in Word, NEW db, NEW queue, NEW len, At(db, n) = 0
  PROVE  Replies(EncReadReq(n), db, queue, len) = {Answering(EncErrorResp(10, n, InvalidHandle), db, queue)}
<1> DEFINE p == EncReadReq(n)
           r == [handle |-> n]
<1>1. p[1] = 10 /\ DecReadReq(p) = {r} /\ r.handle = n
  BY ReadReqIs
<1> HIDE DEF p, r
<1>2. The(DecReadReq(p)) = r
  BY <1>1, TheIs
<1> QED
  BY <1>1, <1>2 DEF Replies, Access, p

\* What a device makes of a read from an offset.
LEMMA BlobAsked ==
  ASSUME NEW n \in Word, NEW m \in Word, NEW db, NEW queue, NEW len, At(db, n) # 0,
         ~(m > Len(db[At(db, n)].value))
  PROVE  LET v == db[At(db, n)].value
         IN Replies(EncReadBlobReq(n, m), db, queue, len) =
              {Answering(EncReadBlobResp(v, m, len), db, queue)}
                \cup (IF Len(v) < len THEN {Answering(EncErrorResp(12, n, NotLong), db, queue)} ELSE {})
<1> DEFINE p == EncReadBlobReq(n, m)
           r == [handle |-> n, offset |-> m]
<1>1. p[1] = 12 /\ DecReadBlobReq(p) = {r} /\ r.handle = n /\ r.offset = m
  BY ReadBlobReqIs
<1> HIDE DEF p, r
<1>2. The(DecReadBlobReq(p)) = r
  BY <1>1, TheIs
<1> QED
  BY <1>1, <1>2 DEF Replies, Access, p

\* What a device makes of a write.
LEMMA WriteAsked ==
  ASSUME NEW n \in Word, NEW value \in Bytes, NEW len \in Nat, 23 <= len, Len(value) <= len - 3,
         NEW db, NEW queue, At(db, n) # 0
  PROVE  Replies(EncWriteReq(n, value, len), db, queue, len) =
           {Answering(EncWriteResp, Overwrite(db, n, OnePart(value)), queue)}
<1> DEFINE p == EncWriteReq(n, value, len)
           r == [handle |-> n, value |-> value]
<1>1. p[1] = 18 /\ DecWriteReq(p) = {r}
  <2>1. 3 <= len
    OBVIOUS
  <2>2. p[1] = 18 /\ DecWriteReq(p) = {[handle |-> n, value |-> Upto(value, len - 3)]}
    BY <2>1, WriteReqIs
  <2>3. Upto(value, len - 3) = value
    <3>1. Least(Len(value), len - 3) = Len(value)
      BY LenProperties DEF Least
    <3> QED
      BY <3>1, SubSeqFull DEF Upto, Bytes, Least
  <2> HIDE DEF p
  <2> QED
    BY <2>2, <2>3
<1>2. r.handle = n /\ r.value = value
  OBVIOUS
<1> HIDE DEF p, r
<1>3. The(DecWriteReq(p)) = r
  BY <1>1, TheIs
<1> QED
  BY <1>1, <1>2, <1>3 DEF Replies, Access, p

\* The prepared write that a request carries.
LEMMA PrepareDecoded ==
  ASSUME NEW n \in Word, NEW m \in Word, NEW value \in Bytes, NEW len \in Nat, 23 <= len,
         NEW x, x = Fitting(value, 5, len), NEW part, part = [handle |-> n, offset |-> m, value |-> x]
  PROVE  LET p == EncPrepWriteReq(n, m, value, len)
         IN p[1] = 22 /\ DecPrepWriteReq(p) = {part} /\ The(DecPrepWriteReq(p)) = part
<1> DEFINE p == EncPrepWriteReq(n, m, value, len)
<1>1. 5 <= len /\ 5 \in Nat
  OBVIOUS
<1>2. p[1] = 22 /\ DecPrepWriteReq(p) = {[handle |-> n, offset |-> m, value |-> Upto(value, len - 5)]}
  BY <1>1, PrepWriteReqIs
<1>3. Upto(value, len - 5) = x
  BY <1>1, FittingIs
<1> HIDE DEF p
<1>4. DecPrepWriteReq(p) = {part}
  BY <1>2, <1>3, Zenon
<1>5. The(DecPrepWriteReq(p)) = part
  BY <1>4, TheIs
<1> QED
  BY <1>2, <1>4, <1>5 DEF p

\* A prepared write of a handle that is there is queued.
LEMMA PrepareTaken ==
  ASSUME NEW n \in Word, NEW m \in Word, NEW value \in Bytes, NEW len \in Nat, 23 <= len,
         NEW db, NEW queue, At(db, n) # 0,
         NEW x, x = Fitting(value, 5, len), NEW part, part = [handle |-> n, offset |-> m, value |-> x]
  PROVE  Replies(EncPrepWriteReq(n, m, value, len), db, queue, len) =
           {Answering(EncPrepWriteResp(n, m, x, len), db, Append(queue, part))}
<1> DEFINE p == EncPrepWriteReq(n, m, value, len)
<1>1. p[1] = 22 /\ The(DecPrepWriteReq(p)) = part
  BY PrepareDecoded
<1>2. part.handle = n /\ part.offset = m /\ part.value = x
  OBVIOUS
<1> HIDE DEF p
<1>3. PICK y : y = part
  OBVIOUS
<1>4. y.handle = n /\ y.offset = m /\ y.value = x /\ The(DecPrepWriteReq(p)) = y
  BY <1>1, <1>2, <1>3
<1>5. Replies(p, db, queue, len) = {Answering(EncPrepWriteResp(n, m, x, len), db, Append(queue, y))}
  BY <1>1, <1>4 DEF Replies, Access
<1> QED
  BY <1>3, <1>5 DEF p

\* One of a handle that is not there is refused.
LEMMA PrepareRefused ==
  ASSUME NEW n \in Word, NEW m \in Word, NEW value \in Bytes, NEW len \in Nat, 23 <= len,
         NEW db, NEW queue, At(db, n) = 0
  PROVE  Replies(EncPrepWriteReq(n, m, value, len), db, queue, len) =
           {Answering(EncErrorResp(22, n, InvalidHandle), db, queue)}
<1> DEFINE p == EncPrepWriteReq(n, m, value, len)
<1>1. PICK x, part : x = Fitting(value, 5, len) /\ part = [handle |-> n, offset |-> m, value |-> x]
  OBVIOUS
<1>2. p[1] = 22 /\ The(DecPrepWriteReq(p)) = part
  BY <1>1, PrepareDecoded
<1>3. part.handle = n
  BY <1>1
<1> HIDE DEF p
<1>4. PICK y : y = part
  OBVIOUS
<1>5. y.handle = n /\ The(DecPrepWriteReq(p)) = y
  BY <1>2, <1>3, <1>4
<1>6. Replies(p, db, queue, len) = {Answering(EncErrorResp(22, n, InvalidHandle), db, queue)}
  BY <1>2, <1>5 DEF Replies, Access
<1> QED
  BY <1>6 DEF p

\* The prepared writes are executed or dropped.
LEMMA ExecuteAsked ==
  ASSUME NEW flags \in {0, 1}, NEW db, NEW queue, NEW len
  PROVE  Replies(EncExecWriteReq(flags), db, queue, len) =
           {Answering(EncExecWriteResp,
                      IF queue = <<>> \/ flags = 0 THEN db ELSE Overwrite(db, queue[1].handle, queue), <<>>)}
<1> DEFINE p == EncExecWriteReq(flags)
           r == [flags |-> flags]
<1>1. p[1] = 24 /\ DecExecWriteReq(p) = {r} /\ r.flags = flags
  <2>1. p = <<24, flags>> /\ DecExecWriteReq(p) = {[flags |-> flags]}
    BY ShortPackets
  <2> HIDE DEF p
  <2> QED
    BY <2>1
<1> HIDE DEF p, r
<1>2. The(DecExecWriteReq(p)) = r
  BY <1>1, TheIs
<1> QED
  BY <1>1, <1>2 DEF Replies, Access, p

\* What a device makes of an exchange of the MTU.
LEMMA MtuAsked ==
  ASSUME NEW n \in Word, NEW db, NEW queue, NEW len
  PROVE  Replies(EncMtuReq(n), db, queue, len) = {Answering(EncMtuResp(len), db, queue)}
<1>1. EncMtuReq(n)[1] = 2
  BY MtuReqIs
<1> QED
  BY <1>1 DEF Replies, Access

\* A list of attributes is answered, or an error.
LEMMA UnlessIs ==
  ASSUME NEW c \in Byte, NEW p, p[1] = c, NEW q, q.range.start \in Word, NEW response
  PROVE  \/ /\ Unless(p, q, response) = response /\ q.list # <<>>
            /\ q.range.start # 0 /\ ~(q.range.start > q.range.end)
         \/ /\ q.list = <<>> \/ q.range.start = 0 \/ q.range.start > q.range.end
            /\ Unless(p, q, response) \in Bytes /\ Len(Unless(p, q, response)) = 5
            /\ Unless(p, q, response)[1] = 1
            /\ Unless(p, q, response)[5] = IF q.range.start = 0 \/ q.range.start > q.range.end
                                           THEN InvalidHandle ELSE NotFound
<1>1. InvalidHandle \in Byte /\ NotFound \in Byte
  BY DEF InvalidHandle, NotFound, Byte
<1> DEFINE e(s) == EncErrorResp(c, q.range.start, s)
<1>2. \A s \in {InvalidHandle, NotFound} : e(s) \in Bytes /\ Len(e(s)) = 5 /\ e(s)[1] = 1 /\ e(s)[5] = s
  BY <1>1, ErrorRespIs
<1>3. CASE q.range.start = 0 \/ q.range.start > q.range.end
  <2>1. Unless(p, q, response) = e(InvalidHandle)
    BY <1>3 DEF Unless
  <2> HIDE DEF e
  <2> QED
    BY <1>2, <1>3, <2>1
<1>4. CASE ~(q.range.start = 0 \/ q.range.start > q.range.end) /\ q.list = <<>>
  <2>1. Unless(p, q, response) = e(NotFound)
    BY <1>4 DEF Unless
  <2> HIDE DEF e
  <2> QED
    BY <1>2, <1>4, <2>1
<1>5. CASE ~(q.range.start = 0 \/ q.range.start > q.range.end) /\ q.list # <<>>
  BY <1>5 DEF Unless
<1> QED
  BY <1>3, <1>4, <1>5

\* The values of the attributes of any type are octets.
LEMMA ValuesBytes ==
  ASSUME NEW list \in Seq(Attribute), list # <<>>, NEW len \in Nat, 23 <= len
  PROVE  EncReadByTypeResp(HandleValues(OfOneValueSize(list)), len) \in Bytes
<1>1. PICK m \in 1..Len(list) : /\ OfOneValueSize(list) = SubSeq(list, 1, m)
                                /\ \A k \in 1..m : Len(list[k].value) = Len(list[1].value)
  BY ValueSizes
<1> DEFINE lead == SubSeq(list, 1, m)
           e == 2 + Len(list[1].value)
           g == HandleValues(lead)
           l == Least(len - 2, e)
<1>2. lead \in Seq(Attribute) /\ Len(lead) = m /\ \A k \in 1..m : lead[k] = list[k] /\ k \in 1..Len(list)
  BY FirstOnes
<1>3. m \in Nat /\ m >= 1 /\ 1 \in 1..Len(list) /\ Len(list) \in Nat
  BY LenProperties
<1>4. e \in Nat /\ e >= 2
  <2>1. list[1].value \in Bytes
    BY <1>3, ElementOfSeq, AttributeIs
  <2> QED
    BY <2>1, LenProperties DEF Bytes
<1>6. \A k \in 1..Len(lead) : 2 + Len(lead[k].value) = e
  BY <1>1, <1>2
<1> HIDE DEF lead, e
<1>7. Uniform(g, e) /\ Len(g) = m
  BY <1>2, <1>4, <1>6, ValueEntries
<1>8. g[1] \in Bytes /\ Len(g[1]) = e
  BY <1>3, <1>7 DEF Uniform
<1> HIDE DEF g
<1>9. l \in Nat /\ l > 0 /\ l <= e /\ l + 2 <= len
  BY <1>4 DEF Least
<1>10. Uniform(Cut(g, l), l) /\ Len(Cut(g, l)) = m
  <2> HIDE DEF l
  <2> QED
    BY <1>4, <1>7, <1>9, CutUniform
<1>11. CASE e > Longest
  <2>1. EncReadByTypeResp(g, len) = Nothing
    BY <1>8, <1>11 DEF EncReadByTypeResp
  <2>2. Nothing \in Bytes
    BY DEF Nothing, Bytes
  <2> QED
    BY <1>1, <2>1, <2>2 DEF g, lead
<1>12. CASE ~(e > Longest)
  <2>1. EncReadByTypeResp(g, len) = <<9, l>> \o Entries(Cut(g, l), l, len)
    BY <1>8, <1>12 DEF EncReadByTypeResp
  <2>2. l \in Byte /\ 9 \in Byte
    <3> HIDE DEF l
    <3> QED
      BY <1>9, <1>12, <1>4 DEF Longest, Byte
  <2>3. Cut(g, l) # <<>>
    BY <1>3, <1>10
  <2> HIDE DEF l
  <2>4. <<9, l>> \o Entries(Cut(g, l), l, len) \in Bytes
    BY <1>9, <1>10, <2>2, <2>3, ListPacket
  <2> QED
    BY <1>1, <2>1, <2>4 DEF g, lead
<1> QED
  BY <1>11, <1>12

\* The requests of a procedure, and the prepared writes of a device.
Cbs == {"primary_all", "primary_by_uuid", "included", "resolve", "char", "desc", "read", "blob", "prepare",
        "caller"}
Req == [cb : Cbs, pdu : Bytes, arg : {0} \cup Bytes]
Part == [handle : Word, offset : Word, value : Bytes]

\* The value that a procedure is about, and the part of it that the next prepared write carries.
Held == attrs[At(attrs, call.handle)].value
Piece == Fitting(Octets(call.value, offset + 1), 5, mtu)

\* The first n octets are written, as prepared writes.
WrittenUpTo(n) ==
  /\ n \in 0..Len(call.value)
  /\ IF prepared = <<>> THEN n = 0
     ELSE prepared[1].handle = call.handle /\ Assembled(Held, prepared) = SubSeq(call.value, 1, n)

\* What a procedure is started with, and what the device keeps.
Fixed ==
  /\ mtu \in Word /\ mtu >= 23
  /\ attrs \in Seq(Attribute) /\ prepared \in Seq(Part)
  /\ Arguable(attrs, call)
  /\ call.proc # "write" => Device(attrs)
  /\ call.proc \notin {"write", "reliable"} => prepared = <<>>

\* Types of the fields of a procedure.
Fields ==
  /\ honest \in BOOLEAN /\ up \in BOOLEAN /\ (honest => up)
  /\ line \in Seq(Req) /\ reply \in Bytes
  /\ start \in Word /\ offset \in Word /\ err \in Byte /\ buffer \in Bytes

\* The caller is told once, when nothing is under way.
Once == outcome = <<>> \/ (line = <<>> /\ reply = <<>> /\ \E o : outcome = <<o>>)

\* Before the first request.
Fresh ==
  line = <<>> /\ outcome = <<>> =>
    reply = <<>> /\ found = {} /\ buffer = <<>> /\ offset = 0 /\ err = 0 /\ prepared = <<>>

\* Which request each callback waits for.
AsksCaller(r) ==
  \/ call.proc = "read_by_uuid" /\ r.pdu = EncReadByTypeReq(call.start, call.end, call.uuid)
  \/ /\ call.proc = "write" /\ Len(call.value) <= mtu - 3
     /\ r.pdu = EncWriteReq(call.handle, call.value, mtu)
     /\ reply = <<>> => prepared = <<>>
  \/ /\ call.proc = "write" /\ Len(call.value) > mtu - 3
     /\ r.pdu = EncExecWriteReq(1)
     /\ reply = <<>> => WrittenUpTo(Len(call.value))
  \/ call.proc = "reliable" /\ r.pdu = EncPrepWriteReq(call.handle, 0, call.value, mtu)
  \/ call.proc = "execute" /\ r.pdu = EncExecWriteReq(call.start)
  \/ call.proc = "mtu" /\ r.pdu = EncMtuReq(mtu)

\* A request for the rest of a value comes with the start of it in the buffer.
AsksBlob(r) ==
  /\ call.proc = "read" /\ r.pdu = EncReadBlobReq(call.handle, Len(buffer))
  /\ mtu - 1 <= Len(buffer) /\ Len(buffer) <= Len(Held) /\ buffer = SubSeq(Held, 1, Len(buffer))

\* A prepared write follows those that have written the value up to its offset.
AsksPrepare(r) ==
  /\ call.proc = "write" /\ Len(call.value) > mtu - 3 /\ offset < Len(call.value)
  /\ r.pdu = EncPrepWriteReq(call.handle, offset, Octets(call.value, offset + 1), mtu)
  /\ reply = <<>> => WrittenUpTo(offset)

\* Every other request is made of the arguments and of the handle to go on with.
Asks(r) ==
  /\ r.cb = "primary_all" =>
       call.proc = "primary" /\ call.uuid = <<>> /\ r.pdu = EncReadByGrpReq(start, Highest, PrimSvc)
  /\ r.cb = "primary_by_uuid" =>
       /\ call.proc = "primary" /\ call.uuid # <<>>
       /\ r.pdu = EncFindByTypeReq(start, Highest, PrimSvc, PutUuidLe(call.uuid), mtu)
  /\ r.cb = "included" => call.proc = "included" /\ r.pdu = EncReadByTypeReq(start, call.end, Include)
  /\ r.cb = "resolve" =>
       /\ call.proc = "included"
       /\ r.arg \in Bytes /\ Len(r.arg) = 6 /\ r.pdu = EncReadReq(At16(r.arg, 3))
  /\ r.cb = "char" => call.proc = "char" /\ r.pdu = EncReadByTypeReq(start, call.end, Charac)
  /\ r.cb = "desc" => call.proc = "desc" /\ r.pdu = EncFindInfoReq(start, call.end)
  /\ r.cb = "read" => call.proc = "read" /\ r.pdu = EncReadReq(call.handle)
  /\ r.cb = "blob" => AsksBlob(r)
  /\ r.cb = "prepare" => AsksPrepare(r)
  /\ r.cb = "caller" => AsksCaller(r)

\* The UUIDs of included services are read before the next ones are looked for.
Asking ==
  /\ \A i \in 1..Len(line) : Asks(line[i])
  /\ \A i \in 1..Len(line) : i < Len(line) => line[i].cb = "resolve"

\* What a device that follows the protocol finds, and its response to a request.
Listed(type) == Asked(attrs, [start |-> start, end |-> call.end, uuid |-> type], OfType(attrs, type))
ListedServices == Asked(attrs, [start |-> start, end |-> Highest, uuid |-> PrimSvc], OfType(attrs, PrimSvc))
ListedByUuid ==
  Asked(attrs, [start |-> start, end |-> Highest, uuid |-> PrimSvc, value |-> PutUuidLe(call.uuid)],
        {a \in OfType(attrs, PrimSvc) : a.value = PutUuidLe(call.uuid)})
ListedAll == Asked(attrs, [start |-> start, end |-> call.end], ToSet(attrs))

\* A part is echoed, and queued.
AnswerToPrepare ==
  reply = EncPrepWriteResp(call.handle, offset, Piece, mtu) /\ WrittenUpTo(offset + Len(Piece))

\* The response of the device to a request.
Answered(r) ==
  /\ r.cb = "primary_all" => reply = AnswerGroups(r.pdu, ListedServices, mtu)
  /\ r.cb = "primary_by_uuid" => reply = AnswerRanges(r.pdu, ListedByUuid, mtu)
  /\ r.cb = "included" => reply = AnswerValues(r.pdu, Listed(Include), mtu)
  /\ r.cb = "char" => reply = AnswerValues(r.pdu, Listed(Charac), mtu)
  /\ r.cb = "desc" => reply = AnswerTypes(r.pdu, ListedAll, mtu)
  /\ r.cb = "resolve" =>
       reply = IF At(attrs, At16(r.arg, 3)) = 0 THEN EncErrorResp(10, At16(r.arg, 3), InvalidHandle)
               ELSE EncReadResp(attrs[At(attrs, At16(r.arg, 3))].value, mtu)
  /\ r.cb = "read" => reply = EncReadResp(Held, mtu)
  /\ r.cb = "blob" => \/ Len(Held) < mtu /\ reply = EncErrorResp(12, call.handle, NotLong)
                      \/ reply = EncReadBlobResp(Held, Len(buffer), mtu)
  /\ r.cb = "prepare" => AnswerToPrepare
  /\ r.cb = "caller" /\ call.proc = "write" =>
       reply \in {EncWriteResp, EncExecWriteResp} /\ Held = call.value /\ prepared = <<>>

\* The response is an error, or one that is not of the protocol, or that of the device.
Heard ==
  reply # <<>> =>
    /\ line # <<>>
    /\ \/ ~honest /\ reply[1] = 1 /\ Status \in Byte \ {0}
       \/ \E r \in {line[1]} : (~honest /\ reply \in Odd /\ reply[1] = r.pdu[1] + 1) \/ Answered(r)

\* A value is read and written whole.
Complete(o) ==
  honest /\ call.proc \in {"read", "write"} =>
    /\ o.err = 0 /\ prepared = <<>>
    /\ Held = IF call.proc = "read" THEN o.buffer ELSE call.value

\* What the caller has been told is complete.
Whole == outcome # <<>> => Complete(outcome[1])

\* The invariant of the procedures.
ProcInv == Fixed /\ Fields /\ Once /\ Fresh /\ Asking /\ Heard /\ Whole

----------------------------------------------------------------------------

\* A request that is under way.
LEMMA UnderWay ==
  ASSUME ProcInv, line # <<>>
  PROVE  /\ outcome = <<>> /\ line \in Seq(Req) /\ Len(line) \in Nat /\ Len(line) >= 1
         /\ line[1] \in Req /\ Head(line) = line[1] /\ Asks(line[1])
         /\ line[1].cb \in Cbs /\ line[1].pdu \in Bytes
         /\ line[1].cb # "resolve" => Len(line) = 1 /\ Tail(line) = <<>>
<1>1. line \in Seq(Req)
  BY DEF ProcInv, Fields
<1>2. Len(line) \in Nat /\ Len(line) >= 1 /\ line[1] \in Req /\ Head(line) = line[1] /\ 1 \in 1..Len(line)
  BY <1>1
<1>3. outcome = <<>>
  BY DEF ProcInv, Once
<1>4. Asks(line[1]) /\ (1 < Len(line) => line[1].cb = "resolve")
  BY <1>2 DEF ProcInv, Asking
<1>5. Len(line) = 1 => Tail(line) = <<>>
  <2> SUFFICES ASSUME Len(line) = 1 PROVE Tail(line) = <<>>
    OBVIOUS
  <2>1. Tail(line) \in Seq(Req) /\ Len(Tail(line)) = 0
    BY <1>1
  <2> QED
    BY <2>1, EmptySeq
<1>6. line[1].cb \in Cbs /\ line[1].pdu \in Bytes
  BY <1>2 DEF Req
<1>7. line[1].cb # "resolve" => Len(line) = 1
  <2>1. ~(1 < Len(line)) => Len(line) = 1
    BY <1>2
  <2> QED
    BY <1>4, <2>1, Zenon
<1> QED
  BY <1>1, <1>2, <1>3, <1>4, <1>5, <1>6, <1>7

\* The device and the arguments stay.
LEMMA StaysFixed ==
  ASSUME ProcInv, UNCHANGED <<attrs, prepared, mtu, call>>
  PROVE  Fixed'
BY DEF ProcInv, Fixed

\* The procedure ends.
LEMMA EndNow ==
  ASSUME ProcInv, UNCHANGED <<device, mtu, call>>,
         line' = <<>>, reply' = <<>>, NEW o, outcome' = <<o>>,
         start' \in Word, offset' \in Word, err' \in Byte, buffer' \in Bytes, Complete(o)
  PROVE  ProcInv'
<1>1. UNCHANGED <<attrs, prepared, honest, up, mtu, call>>
  BY DEF device
<1>2. Fixed'
  BY <1>1, StaysFixed
<1>3. Fields'
  <2>1. <<>> \in Seq(Req) /\ <<>> \in Bytes
    BY DEF Bytes
  <2> QED
    BY <1>1, <2>1 DEF ProcInv, Fields
<1>4. outcome' # <<>> /\ outcome'[1] = o
  OBVIOUS
<1>5. Once' /\ Fresh'
  BY <1>4 DEF Once, Fresh
<1>6. Asking'
  BY DEF Asking
<1>7. Heard'
  BY DEF Heard
<1>8. Complete(o)'
  BY <1>1 DEF Complete, Held
<1>9. Whole'
  BY <1>4, <1>8 DEF Whole
<1> QED
  BY <1>2, <1>3, <1>5, <1>6, <1>7, <1>9 DEF ProcInv

\* The procedure goes on with one request.
LEMMA SendOne ==
  ASSUME ProcInv, UNCHANGED <<device, mtu, call>>, NEW r \in Req, outcome = <<>>,
         line' = <<r>>, reply' = <<>>, outcome' = outcome,
         start' \in Word, offset' \in Word, err' \in Byte, buffer' \in Bytes, Asks(r)'
  PROVE  ProcInv'
<1>1. UNCHANGED <<attrs, prepared, honest, up, mtu, call>>
  BY DEF device
<1>2. Fixed'
  BY <1>1, StaysFixed
<1>3. Fields'
  <2>1. <<r>> \in Seq(Req) /\ <<>> \in Bytes
    BY DEF Bytes
  <2> QED
    BY <1>1, <2>1 DEF ProcInv, Fields
<1>4. line' # <<>>
  OBVIOUS
<1>5. Once' /\ Fresh' /\ Whole'
  BY <1>4 DEF Once, Fresh, Whole
<1>6. Asking'
  <2>1. Len(line') = 1 /\ line'[1] = r
    OBVIOUS
  <2>2. \A i \in 1..Len(line') : i = 1
    BY <2>1
  <2> QED
    BY <2>1, <2>2 DEF Asking
<1>7. Heard'
  BY DEF Heard
<1> QED
  BY <1>2, <1>3, <1>5, <1>6, <1>7 DEF ProcInv

\* What is known of the arguments and of the device.
LEMMA ArgumentsAre ==
  ASSUME ProcInv
  PROVE  /\ mtu \in Word /\ mtu \in Nat /\ mtu >= 23
         /\ call.proc \in Procs /\ call.start \in Word /\ call.end \in Word /\ call.handle \in Word
         /\ call.uuid \in Bytes /\ Len(call.uuid) \in {0, 2, 16}
         /\ call.value \in Bytes /\ Len(call.value) \in Nat /\ Len(call.value) <= Highest
         /\ attrs \in Seq(Attribute) /\ prepared \in Seq(Part)
         /\ call.proc \in {"read", "write"} => At(attrs, call.handle) # 0
         /\ call.proc # "write" => Device(attrs)
         /\ start \in Word /\ offset \in Word /\ err \in Byte /\ buffer \in Bytes /\ reply \in Bytes
         /\ call.proc = "read_by_uuid" => call.uuid # <<>>
         /\ call.proc = "execute" => call.start \in {0, 1}
<1>1. Arguable(attrs, call)
  BY DEF ProcInv, Fixed
<1>2. mtu \in Nat
  BY WordIs DEF ProcInv, Fixed
<1>3. call.value \in Bytes /\ Len(call.value) \in Nat
  BY <1>1 DEF Arguable, Bytes
<1>4. mtu \in Word /\ mtu >= 23 /\ attrs \in Seq(Attribute) /\ prepared \in Seq(Part)
      /\ (call.proc # "write" => Device(attrs))
  BY DEF ProcInv, Fixed
<1>5. start \in Word /\ offset \in Word /\ err \in Byte /\ buffer \in Bytes /\ reply \in Bytes
  BY DEF ProcInv, Fields
<1>6. /\ call.proc \in Procs /\ call.start \in Word /\ call.end \in Word /\ call.handle \in Word
      /\ call.uuid \in Bytes /\ Len(call.uuid) \in {0, 2, 16} /\ Len(call.value) <= Highest
      /\ call.proc \in {"read", "write"} => At(attrs, call.handle) # 0
      /\ call.proc = "read_by_uuid" => call.uuid # <<>>
      /\ call.proc = "execute" => call.start \in {0, 1}
  BY <1>1 DEF Arguable
<1> QED
  BY <1>2, <1>3, <1>4, <1>5, <1>6

\* The value that is read or written.
LEMMA HeldIs ==
  ASSUME ProcInv, call.proc \in {"read", "write"}
  PROVE  /\ At(attrs, call.handle) \in 1..Len(attrs)
         /\ attrs[At(attrs, call.handle)] \in Attribute
         /\ Held \in Bytes /\ Len(Held) \in Nat
         /\ call.proc = "read" => Len(Held) <= Highest
<1>1. attrs \in Seq(Attribute) /\ At(attrs, call.handle) # 0 /\ (call.proc # "write" => Device(attrs))
  BY ArgumentsAre
<1> DEFINE i == At(attrs, call.handle)
<1>2. i \in 1..Len(attrs) /\ attrs[i] \in Attribute
  BY <1>1, AtIs
<1> HIDE DEF i
<1>3. attrs[i].value \in Bytes
  BY <1>2, AttributeIs
<1>4. Len(attrs[i].value) \in Nat
  BY <1>3 DEF Bytes
<1>5. attrs[i] \in ToSet(attrs)
  BY <1>1, <1>2, ToSetIs
<1>6. call.proc = "read" => Len(attrs[i].value) <= Highest
  BY <1>1, <1>5 DEF Device
<1> QED
  BY <1>2, <1>3, <1>4, <1>6 DEF Held, i

\* 255 and 0 are the octets of the types.
LEMMA TypesAre ==
  /\ PrimSvc \in Bytes /\ Len(PrimSvc) = 2 /\ Include \in Bytes /\ Len(Include) = 2
  /\ Charac \in Bytes /\ Len(Charac) = 2 /\ Highest \in Word /\ Highest = 65535
<1>1. \A n \in {0, 2, 3, 40} : n \in Byte
  BY DEF Byte
<1>2. <<40, 0>> \in Seq(Byte) /\ <<40, 2>> \in Seq(Byte) /\ <<40, 3>> \in Seq(Byte)
  BY <1>1
<1>3. Highest \in Word
  BY IsWord DEF Highest
<1> QED
  BY <1>2, <1>3 DEF PrimSvc, Include, Charac, Bytes, Highest

----------------------------------------------------------------------------
(* The beginning of a procedure *)

\* The procedure is begun with one request.
LEMMA SendFirst ==
  ASSUME ProcInv, NEW r \in Req, line = <<>>, outcome = <<>>, line' = <<r>>,
         UNCHANGED <<device, mtu, call, reply, found, buffer, offset, err, outcome>>,
         start' \in Word, reply = <<>> /\ Asks(r)'
  PROVE  ProcInv'
<1>1. reply' = <<>> /\ offset' \in Word /\ err' \in Byte /\ buffer' \in Bytes
  BY ArgumentsAre
<1> QED
  BY <1>1, SendOne

\* A request with no argument.
LEMMA RequestIs ==
  ASSUME NEW cb \in Cbs, NEW p \in Bytes
  PROVE  \E r \in Req : r = Request(cb, p, 0) /\ r.cb = cb /\ r.pdu = p
<1> DEFINE r == [cb |-> cb, pdu |-> p, arg |-> 0]
<1>1. r \in Req /\ r.cb = cb /\ r.pdu = p
  BY DEF Req
<1>2. r = Request(cb, p, 0)
  BY DEF Request
<1> QED
  BY <1>1, <1>2, Zenon

\* The first request of a procedure.
LEMMA BeginIs ==
  ASSUME ProcInv, NEW proc, NEW p \in Bytes, NEW cb \in Cbs, Begin(proc, p, cb), start' \in Word
  PROVE  /\ \E r \in Req : r.cb = cb /\ r.pdu = p /\ (Asks(r)' => ProcInv')
         /\ call' = call /\ mtu' = mtu /\ attrs' = attrs /\ prepared' = prepared
         /\ call.proc = proc /\ offset = 0 /\ offset' = 0 /\ prepared = <<>> /\ reply' = reply /\ reply = <<>>
<1>1. /\ call.proc = proc /\ line = <<>> /\ outcome = <<>> /\ line' = <<Request(cb, p, 0)>>
      /\ UNCHANGED <<device, mtu, call, reply, found, buffer, offset, err, outcome>>
  BY DEF Begin
<1>2. PICK r \in Req : r = Request(cb, p, 0) /\ r.cb = cb /\ r.pdu = p
  BY RequestIs
<1>3. line' = <<r>>
  BY <1>1, <1>2
<1>4. offset = 0 /\ prepared = <<>> /\ reply = <<>>
  BY <1>1 DEF ProcInv, Fresh
<1>5. Asks(r)' => ProcInv'
  BY <1>1, <1>3, <1>4, SendFirst
<1> QED
  BY <1>1, <1>2, <1>4, <1>5 DEF device

\* The discovery of primary services begins.
LEMMA BeginPrimary ==
  ASSUME ProcInv, GattDiscoverPrimary
  PROVE  ProcInv'
<1>0. 1 \in Word /\ Highest \in Word /\ PrimSvc \in Bytes /\ Len(PrimSvc) = 2
  BY IsWord, TypesAre
<1>1. start' = 1 /\ start' \in Word
  BY <1>0 DEF GattDiscoverPrimary
<1>2. CASE call.uuid = <<>>
  <2> DEFINE p == EncReadByGrpReq(1, Highest, PrimSvc)
  <2>1. Begin("primary", p, "primary_all")
    BY <1>2 DEF GattDiscoverPrimary, EncodeDiscoverPrimary
  <2>2. p \in Bytes
    BY <1>0, ReadByGrpReqIs
  <2> HIDE DEF p
  <2>3. PICK r \in Req : r.cb = "primary_all" /\ r.pdu = p /\ (Asks(r)' => ProcInv')
    BY <1>1, <2>1, <2>2, BeginIs DEF Cbs
  <2>4. call' = call /\ mtu' = mtu /\ call.proc = "primary"
    BY <1>1, <2>1, <2>2, BeginIs DEF Cbs
  <2>5. Asks(r)'
    BY <1>1, <1>2, <2>3, <2>4 DEF Asks, p
  <2> QED
    BY <2>3, <2>5
<1>3. CASE call.uuid # <<>>
  <2> DEFINE p == EncFindByTypeReq(1, Highest, PrimSvc, PutUuidLe(call.uuid), mtu)
  <2>1. Begin("primary", p, "primary_by_uuid")
    BY <1>3 DEF GattDiscoverPrimary, EncodeDiscoverPrimary
  <2>2. p \in Bytes
    <3>1. call.uuid \in Bytes /\ mtu \in Nat /\ 7 <= mtu
      BY ArgumentsAre
    <3>2. PutUuidLe(call.uuid) \in Bytes
      BY <3>1, ReverseTwice DEF PutUuidLe
    <3> QED
      BY <1>0, <3>1, <3>2, FindByTypeReqIs DEF Searching
  <2> HIDE DEF p
  <2>3. PICK r \in Req : r.cb = "primary_by_uuid" /\ r.pdu = p /\ (Asks(r)' => ProcInv')
    BY <1>1, <2>1, <2>2, BeginIs DEF Cbs
  <2>4. call' = call /\ mtu' = mtu /\ call.proc = "primary"
    BY <1>1, <2>1, <2>2, BeginIs DEF Cbs
  <2>5. Asks(r)'
    BY <1>1, <1>3, <2>3, <2>4 DEF Asks, p
  <2> QED
    BY <2>3, <2>5
<1> QED
  BY <1>2, <1>3

\* The search for included services begins.
LEMMA BeginIncluded ==
  ASSUME ProcInv, GattFindIncluded
  PROVE  ProcInv'
<1> DEFINE p == EncReadByTypeReq(call.start, call.end, Include)
<1>1. start' = call.start /\ start' \in Word /\ Begin("included", p, "included")
  BY ArgumentsAre DEF GattFindIncluded
<1>2. p \in Bytes
  BY ArgumentsAre, TypesAre, ReadByTypeReqIs
<1> HIDE DEF p
<1>3. PICK r \in Req : r.cb = "included" /\ r.pdu = p /\ (Asks(r)' => ProcInv')
  BY <1>1, <1>2, BeginIs DEF Cbs
<1>4. call' = call /\ call.proc = "included"
  BY <1>1, <1>2, BeginIs DEF Cbs
<1>5. Asks(r)'
  BY <1>1, <1>3, <1>4 DEF Asks, p
<1> QED
  BY <1>3, <1>5

\* The discovery of characteristics begins.
LEMMA BeginChar ==
  ASSUME ProcInv, GattDiscoverChar
  PROVE  ProcInv'
<1> DEFINE p == EncReadByTypeReq(call.start, call.end, Charac)
<1>1. start' = call.start /\ start' \in Word /\ Begin("char", p, "char")
  BY ArgumentsAre DEF GattDiscoverChar
<1>2. p \in Bytes
  BY ArgumentsAre, TypesAre, ReadByTypeReqIs
<1> HIDE DEF p
<1>3. PICK r \in Req : r.cb = "char" /\ r.pdu = p /\ (Asks(r)' => ProcInv')
  BY <1>1, <1>2, BeginIs DEF Cbs
<1>4. call' = call /\ call.proc = "char"
  BY <1>1, <1>2, BeginIs DEF Cbs
<1>5. Asks(r)'
  BY <1>1, <1>3, <1>4 DEF Asks, p
<1> QED
  BY <1>3, <1>5

\* The discovery of descriptors begins.
LEMMA BeginDesc ==
  ASSUME ProcInv, GattDiscoverDesc
  PROVE  ProcInv'
<1> DEFINE p == EncFindInfoReq(call.start, call.end)
<1>1. start' = call.start /\ start' \in Word /\ Begin("desc", p, "desc")
  BY ArgumentsAre DEF GattDiscoverDesc
<1>2. p \in Bytes
  BY ArgumentsAre, FindInfoReqIs
<1> HIDE DEF p
<1>3. PICK r \in Req : r.cb = "desc" /\ r.pdu = p /\ (Asks(r)' => ProcInv')
  BY <1>1, <1>2, BeginIs DEF Cbs
<1>4. call' = call /\ call.proc = "desc"
  BY <1>1, <1>2, BeginIs DEF Cbs
<1>5. Asks(r)'
  BY <1>1, <1>3, <1>4 DEF Asks, p
<1> QED
  BY <1>3, <1>5

\* A read begins.
LEMMA BeginRead ==
  ASSUME ProcInv, GattReadChar
  PROVE  ProcInv'
<1> DEFINE p == EncReadReq(call.handle)
<1>1. start' \in Word /\ Begin("read", p, "read")
  BY ArgumentsAre DEF GattReadChar
<1>2. p \in Bytes
  BY ArgumentsAre, ReadReqIs
<1> HIDE DEF p
<1>3. PICK r \in Req : r.cb = "read" /\ r.pdu = p /\ (Asks(r)' => ProcInv')
  BY <1>1, <1>2, BeginIs DEF Cbs
<1>4. call' = call /\ call.proc = "read"
  BY <1>1, <1>2, BeginIs DEF Cbs
<1>5. Asks(r)'
  BY <1>1, <1>3, <1>4 DEF Asks, p
<1> QED
  BY <1>3, <1>5

\* A read by UUID begins.
LEMMA BeginReadByUuid ==
  ASSUME ProcInv, GattReadCharByUuid
  PROVE  ProcInv'
<1> DEFINE p == EncReadByTypeReq(call.start, call.end, call.uuid)
<1>1. start' \in Word /\ Begin("read_by_uuid", p, "caller") /\ call.proc = "read_by_uuid"
  BY ArgumentsAre DEF GattReadCharByUuid, Begin
<1>2. p \in Bytes
  <2>1. call.uuid \in Bytes /\ Len(call.uuid) \in {2, 16}
    <3>1. call.uuid \in Seq(Byte) /\ call.uuid # <<>> /\ Len(call.uuid) \in {0, 2, 16}
      BY <1>1, ArgumentsAre DEF Bytes
    <3>2. Len(call.uuid) # 0
      BY <3>1, EmptySeq
    <3> QED
      BY <3>1, <3>2 DEF Bytes
  <2> QED
    BY <2>1, ArgumentsAre, ReadByTypeReqIs
<1> HIDE DEF p
<1>3. PICK r \in Req : r.cb = "caller" /\ r.pdu = p /\ (Asks(r)' => ProcInv')
  BY <1>1, <1>2, BeginIs DEF Cbs
<1>4. call' = call /\ call.proc = "read_by_uuid"
  BY <1>1, <1>2, BeginIs DEF Cbs
<1>5. Asks(r)'
  BY <1>1, <1>3, <1>4 DEF Asks, AsksCaller, p
<1> QED
  BY <1>3, <1>5

\* A reliable write begins.
LEMMA BeginReliable ==
  ASSUME ProcInv, GattReliableWriteChar
  PROVE  ProcInv'
<1> DEFINE p == EncPrepWriteReq(call.handle, 0, call.value, mtu)
<1>1. start' \in Word /\ Begin("reliable", p, "caller")
  BY ArgumentsAre DEF GattReliableWriteChar
<1>2. p \in Bytes
  <2>1. 0 \in Word /\ 5 <= mtu
    BY IsWord, ArgumentsAre
  <2> QED
    BY <2>1, ArgumentsAre, PrepWriteReqIs
<1> HIDE DEF p
<1>3. PICK r \in Req : r.cb = "caller" /\ r.pdu = p /\ (Asks(r)' => ProcInv')
  BY <1>1, <1>2, BeginIs DEF Cbs
<1>4. call' = call /\ mtu' = mtu /\ call.proc = "reliable"
  BY <1>1, <1>2, BeginIs DEF Cbs
<1>5. Asks(r)'
  BY <1>1, <1>3, <1>4 DEF Asks, AsksCaller, p
<1> QED
  BY <1>3, <1>5

\* An execution of prepared writes begins.
LEMMA BeginExecute ==
  ASSUME ProcInv, GattExecuteWrite
  PROVE  ProcInv'
<1> DEFINE p == EncExecWriteReq(call.start)
<1>1. start' \in Word /\ Begin("execute", p, "caller") /\ call.proc = "execute"
  BY ArgumentsAre DEF GattExecuteWrite, Begin
<1>2. p \in Bytes
  BY <1>1, ArgumentsAre, ShortPackets
<1> HIDE DEF p
<1>3. PICK r \in Req : r.cb = "caller" /\ r.pdu = p /\ (Asks(r)' => ProcInv')
  BY <1>1, <1>2, BeginIs DEF Cbs
<1>4. call' = call /\ mtu' = mtu /\ call.proc = "execute"
  BY <1>1, <1>2, BeginIs DEF Cbs
<1>5. Asks(r)'
  BY <1>1, <1>3, <1>4 DEF Asks, AsksCaller, p
<1> QED
  BY <1>3, <1>5

\* An exchange of the MTU begins.
LEMMA BeginMtu ==
  ASSUME ProcInv, GattExchangeMtu
  PROVE  ProcInv'
<1> DEFINE p == EncMtuReq(mtu)
<1>1. start' \in Word /\ Begin("mtu", p, "caller")
  BY ArgumentsAre DEF GattExchangeMtu
<1>2. p \in Bytes
  BY ArgumentsAre, MtuReqIs
<1> HIDE DEF p
<1>3. PICK r \in Req : r.cb = "caller" /\ r.pdu = p /\ (Asks(r)' => ProcInv')
  BY <1>1, <1>2, BeginIs DEF Cbs
<1>4. call' = call /\ mtu' = mtu /\ call.proc = "mtu"
  BY <1>1, <1>2, BeginIs DEF Cbs
<1>5. Asks(r)'
  BY <1>1, <1>3, <1>4 DEF Asks, AsksCaller, p
<1> QED
  BY <1>3, <1>5

\* A write begins, in one request or in prepared ones.
LEMMA BeginWrite ==
  ASSUME ProcInv, GattWriteChar
  PROVE  ProcInv'
<1>1. start' \in Word /\ mtu \in Nat /\ mtu >= 23 /\ Len(call.value) \in Nat
  BY ArgumentsAre DEF GattWriteChar
<1>2. CASE Len(call.value) <= mtu - 3
  <2> DEFINE p == EncWriteReq(call.handle, call.value, mtu)
  <2>1. Begin("write", p, "caller")
    BY <1>2 DEF GattWriteChar
  <2>2. p \in Bytes
    <3>1. 3 <= mtu
      BY <1>1
    <3> QED
      BY <3>1, ArgumentsAre, WriteReqIs
  <2> HIDE DEF p
  <2>3. PICK r \in Req : r.cb = "caller" /\ r.pdu = p /\ (Asks(r)' => ProcInv')
    BY <1>1, <2>1, <2>2, BeginIs DEF Cbs
  <2>4. call' = call /\ mtu' = mtu /\ prepared' = prepared /\ prepared = <<>> /\ call.proc = "write"
    BY <1>1, <2>1, <2>2, BeginIs DEF Cbs
  <2>5. Asks(r)'
    BY <1>1, <1>2, <2>3, <2>4 DEF Asks, AsksCaller, p
  <2> QED
    BY <2>3, <2>5
<1>3. CASE ~(Len(call.value) <= mtu - 3)
  <2> DEFINE p == EncPrepWriteReq(call.handle, 0, Octets(call.value, 0 + 1), mtu)
  <2>1. Begin("write", p, "prepare")
    <3>1. Begin("write", PrepareWrite(0).pdu, "prepare")
      BY <1>3 DEF GattWriteChar
    <3>2. PrepareWrite(0).pdu = p
      BY DEF PrepareWrite, Request
    <3> HIDE DEF p
    <3> QED
      BY <3>1, <3>2
  <2>2. p \in Bytes
    <3>1. 0 \in Word /\ 5 <= mtu
      BY <1>1, IsWord
    <3>2. Octets(call.value, 0 + 1) \in Bytes
      <4>1. call.value \in Bytes /\ 0 + 1 \in 1..(Len(call.value) + 1)
        BY <1>1, ArgumentsAre
      <4> QED
        BY <4>1, OctetsIs
    <3> QED
      BY <1>1, <3>1, <3>2, ArgumentsAre, PrepWriteReqIs
  <2> HIDE DEF p
  <2>3. PICK r \in Req : r.cb = "prepare" /\ r.pdu = p /\ (Asks(r)' => ProcInv')
    BY <1>1, <2>1, <2>2, BeginIs DEF Cbs
  <2>4. /\ call' = call /\ mtu' = mtu /\ prepared' = <<>> /\ call.proc = "write" /\ offset' = 0
    BY <1>1, <2>1, <2>2, BeginIs DEF Cbs
  <2>5. Len(call.value) > mtu - 3 /\ 0 < Len(call.value) /\ 0 \in 0..Len(call.value)
    BY <1>1, <1>3
  <2>6. WrittenUpTo(0)'
    BY <2>4, <2>5 DEF WrittenUpTo
  <2>7. AsksPrepare(r)'
    BY <2>3, <2>4, <2>5, <2>6 DEF AsksPrepare, p
  <2>8. Asks(r)'
    BY <2>3, <2>7 DEF Asks
  <2> QED
    BY <2>3, <2>8
<1> QED
  BY <1>2, <1>3

\* Every procedure begins with a request that its callback waits for.
LEMMA StartStep ==
  ASSUME ProcInv, Start
  PROVE  ProcInv'
BY BeginPrimary, BeginIncluded, BeginChar, BeginDesc, BeginRead, BeginReadByUuid, BeginWrite, BeginReliable,
   BeginExecute, BeginMtu DEF Start

\* The attributes of a device that a request asks for.
LEMMA ListedIs ==
  ASSUME NEW db, Device(db), NEW r, NEW wanted
  PROVE  LET q == Asked(db, r, wanted)
         IN /\ q.range = r /\ q.list \in Seq(Attribute) /\ Sorted(q.list)
            /\ ToSet(q.list) = {a \in ToSet(db) : a \in wanted /\ a.handle \in r.start..r.end}
            /\ \A k \in 1..Len(q.list) :
                 /\ q.list[k] \in Attribute /\ q.list[k] \in ToSet(db) /\ q.list[k] \in wanted
                 /\ q.list[k].handle \in r.start..r.end
<1> DEFINE q == Asked(db, r, wanted)
<1>1. db \in Seq(Attribute) /\ Sorted(db)
  BY DEF Device, Sorted
<1>2. /\ q.range = r /\ q.list \in Seq(Attribute) /\ Sorted(q.list)
      /\ ToSet(q.list) = {a \in ToSet(db) : a \in wanted /\ a.handle \in r.start..r.end}
  BY <1>1, AskedIs
<1> HIDE DEF q
<1>3. ToSet(q.list) = {q.list[k] : k \in 1..Len(q.list)} /\ ToSet(q.list) \subseteq Attribute
  BY <1>2, ToSetIs
<1>4. ASSUME NEW k \in 1..Len(q.list)
      PROVE  /\ q.list[k] \in Attribute /\ q.list[k] \in ToSet(db) /\ q.list[k] \in wanted
             /\ q.list[k].handle \in r.start..r.end
  <2>1. q.list[k] \in ToSet(q.list)
    BY <1>3
  <2>2. q.list[k] \in {a \in ToSet(db) : a \in wanted /\ a.handle \in r.start..r.end}
    BY <1>2, <2>1, Zenon
  <2>3. q.list[k] \in Attribute
    BY <1>3, <2>1, Zenon
  <2> QED
    BY <2>2, <2>3, Zenon
<1> QED
  BY <1>2, <1>4 DEF q

\* An error in the place of a list.
Refused(x, q) ==
  /\ x[1] = 1 /\ Len(x) = 5
  /\ q.list = <<>> \/ q.range.start = 0 \/ q.range.start > q.range.end
  /\ x[5] = IF q.range.start = 0 \/ q.range.start > q.range.end THEN InvalidHandle ELSE NotFound

\* The responses of a device to a discovery, and what gatt.c reads from them.
LEMMA AnswerGroupsIs ==
  ASSUME NEW db, Device(db), NEW from \in Word, NEW to, NEW p, p[1] = 16, NEW len \in Nat, 23 <= len
  PROVE  LET q == Asked(db, [start |-> from, end |-> to, uuid |-> PrimSvc], OfType(db, PrimSvc))
             x == AnswerGroups(p, q, len)
         IN /\ x \in Bytes
            /\ \/ Refused(x, q)
               \/ /\ x[1] = 17 /\ q.list # <<>> /\ from # 0 /\ ~(from > to)
                  /\ \E w : DecReadByGrpResp(x) = {w} /\ GroupsOf(w, q.list) /\ Len(w[1]) \in {6, 20}
<1> DEFINE r == [start |-> from, end |-> to, uuid |-> PrimSvc]
           q == Asked(db, r, OfType(db, PrimSvc))
           response == EncReadByGrpResp(Groups(OfOneValueSize(q.list)), len)
           x == AnswerGroups(p, q, len)
<1>1. r.start = from /\ r.end = to
  OBVIOUS
<1> HIDE DEF r
<1>2. /\ q.range = r /\ q.list \in Seq(Attribute)
      /\ \A k \in 1..Len(q.list) : q.list[k] \in ToSet(db) /\ q.list[k] \in OfType(db, PrimSvc)
  BY ListedIs
<1>3. \A k \in 1..Len(q.list) : Len(q.list[k].value) \in {2, 16}
  BY <1>2 DEF OfType, Device
<1> HIDE DEF q
<1>4. 16 \in Byte /\ p[1] = 16
  BY DEF Byte
<1>5. x = Unless(p, q, response)
  BY DEF AnswerGroups
<1> HIDE DEF response, x
<1>6. \/ x = response /\ q.list # <<>> /\ from # 0 /\ ~(from > to)
      \/ x \in Bytes /\ Refused(x, q)
  BY <1>1, <1>2, <1>4, <1>5, UnlessIs DEF Refused
<1>7. q.list # <<>> =>
        /\ response \in Bytes /\ response[1] = 17
        /\ \E w : DecReadByGrpResp(response) = {w} /\ GroupsOf(w, q.list) /\ Len(w[1]) \in {6, 20}
  BY <1>2, <1>3, GroupsRead DEF response
<1> QED
  BY <1>6, <1>7 DEF x, q, r

\* The declarations of included services and of characteristics.
LEMMA DeclarationsAre ==
  ASSUME NEW db, Device(db)
  PROVE  /\ \A a \in ToSet(db) : a.type = Include => Len(a.value) \in {4, 6}
         /\ \A a \in ToSet(db) : a.type = Charac => Len(a.value) \in {5, 19}
         /\ {4, 6} \in SUBSET (1..19) /\ {5, 19} \in SUBSET (1..19)
BY DEF Device

\* x lists values of the handles of q.
ValuesHeard(x, q) == \E w : DecReadByTypeResp(x) = {w} /\ ValuesOf(w, q.list)

\* A response of declarations is refused, or read as its first entries.
LEMMA AnswerValuesIs ==
  ASSUME NEW db, Device(db), NEW from \in Word, NEW to, NEW type, type = Include \/ type = Charac,
         NEW p, p[1] = 8, NEW len \in Nat, 23 <= len
  PROVE  LET q == Asked(db, [start |-> from, end |-> to, uuid |-> type], OfType(db, type))
             x == AnswerValues(p, q, len)
         IN /\ x \in Bytes
            /\ \/ Refused(x, q)
               \/ x[1] = 9 /\ q.list # <<>> /\ from # 0 /\ ~(from > to) /\ ValuesHeard(x, q)
<1> DEFINE r == [start |-> from, end |-> to, uuid |-> type]
           q == Asked(db, r, OfType(db, type))
           response == EncReadByTypeResp(HandleValues(OfOneValueSize(q.list)), len)
           x == AnswerValues(p, q, len)
<1>1. r.start = from /\ r.end = to
  OBVIOUS
<1> HIDE DEF r
<1>2. /\ q.range = r /\ q.list \in Seq(Attribute)
      /\ \A k \in 1..Len(q.list) : q.list[k] \in ToSet(db) /\ q.list[k] \in OfType(db, type)
  BY ListedIs
<1>3. PICK L \in SUBSET (1..19) : \A k \in 1..Len(q.list) : Len(q.list[k].value) \in L
  BY <1>2, DeclarationsAre DEF OfType
<1> HIDE DEF q
<1>4. 8 \in Byte /\ p[1] = 8
  BY DEF Byte
<1>5. x = Unless(p, q, response)
  BY DEF AnswerValues
<1> HIDE DEF response, x
<1>6. \/ x = response /\ q.list # <<>> /\ from # 0 /\ ~(from > to)
      \/ x \in Bytes /\ Refused(x, q)
  BY <1>1, <1>2, <1>4, <1>5, UnlessIs DEF Refused
<1>7. q.list # <<>> =>
        response \in Bytes /\ response[1] = 9 /\ ValuesHeard(response, q)
  <2> SUFFICES ASSUME q.list # <<>>
               PROVE  response \in Bytes /\ response[1] = 9 /\ ValuesHeard(response, q)
    OBVIOUS
  <2>1. /\ response \in Bytes /\ response[1] = 9
        /\ \E w : /\ DecReadByTypeResp(response) = {w} /\ ValuesOf(w, q.list)
                  /\ \E n \in L : Len(w[1]) = 2 + n
    BY <1>2, <1>3, ValuesRead DEF response
  <2> QED
    BY <2>1, Zenon DEF ValuesHeard
<1> QED
  BY <1>6, <1>7 DEF x, q, r

\* What AnswerTypesIs says of a response.
TypesHeard(x, q) == \E w, f : DecFindInfoResp(x) = {[format |-> f, list |-> w]} /\ TypesOf(w, q.list)

\* A response of types is refused, or read as its first entries.
LEMMA AnswerTypesIs ==
  ASSUME NEW db, Device(db), NEW from \in Word, NEW to, NEW p, p[1] = 4, NEW len \in Nat, 23 <= len
  PROVE  LET q == Asked(db, [start |-> from, end |-> to], ToSet(db))
             x == AnswerTypes(p, q, len)
         IN /\ x \in Bytes
            /\ \/ Refused(x, q)
               \/ x[1] = 5 /\ q.list # <<>> /\ from # 0 /\ ~(from > to) /\ TypesHeard(x, q)
<1> DEFINE r == [start |-> from, end |-> to]
           q == Asked(db, r, ToSet(db))
           response == EncFindInfoResp(IF Len(q.list[1].type) = 2 THEN 1 ELSE 2,
                                       HandleTypes(OfOneTypeSize(q.list)), len)
           x == AnswerTypes(p, q, len)
<1>1. r.start = from /\ r.end = to
  OBVIOUS
<1> HIDE DEF r
<1>2. /\ q.range = r /\ q.list \in Seq(Attribute)
      /\ \A k \in 1..Len(q.list) : q.list[k] \in ToSet(db)
  BY ListedIs
<1>3. \A k \in 1..Len(q.list) : Len(q.list[k].type) \in {2, 16}
  BY <1>2 DEF Device
<1> HIDE DEF q
<1>4. 4 \in Byte /\ p[1] = 4
  BY DEF Byte
<1>5. x = Unless(p, q, response)
  BY DEF AnswerTypes
<1> HIDE DEF response, x
<1>6. \/ x = response /\ q.list # <<>> /\ from # 0 /\ ~(from > to)
      \/ x \in Bytes /\ Refused(x, q)
  BY <1>1, <1>2, <1>4, <1>5, UnlessIs DEF Refused
<1>7. q.list # <<>> =>
        response \in Bytes /\ response[1] = 5 /\ TypesHeard(response, q)
  BY <1>2, <1>3, TypesRead DEF response, TypesHeard
<1> QED
  BY <1>6, <1>7 DEF x, q, r

\* A response of ranges is refused, or read as its first ranges.
LEMMA AnswerRangesIs ==
  ASSUME NEW db, Device(db), NEW from \in Word, NEW to, NEW uuid, NEW value, NEW wanted,
         NEW p, p[1] = 6, NEW len \in Nat, 23 <= len
  PROVE  LET q == Asked(db, [start |-> from, end |-> to, uuid |-> uuid, value |-> value], wanted)
             x == AnswerRanges(p, q, len)
         IN /\ x \in Bytes
            /\ \/ Refused(x, q)
               \/ /\ x[1] = 7 /\ q.list # <<>> /\ from # 0 /\ ~(from > to)
                  /\ \E w : DecFindByTypeResp(x) = {w} /\ RangesOf(w, q.list)
<1> DEFINE r == [start |-> from, end |-> to, uuid |-> uuid, value |-> value]
           q == Asked(db, r, wanted)
           response == EncFindByTypeResp(HandleRanges(q.list), len)
           x == AnswerRanges(p, q, len)
<1>1. r.start = from /\ r.end = to
  OBVIOUS
<1> HIDE DEF r
<1>2. q.range = r /\ q.list \in Seq(Attribute)
  BY ListedIs
<1> HIDE DEF q
<1>4. 6 \in Byte /\ p[1] = 6
  BY DEF Byte
<1>5. x = Unless(p, q, response)
  BY DEF AnswerRanges
<1> HIDE DEF response, x
<1>6. \/ x = response /\ q.list # <<>> /\ from # 0 /\ ~(from > to)
      \/ x \in Bytes /\ Refused(x, q)
  BY <1>1, <1>2, <1>4, <1>5, UnlessIs DEF Refused
<1>7. q.list # <<>> =>
        /\ response \in Bytes /\ response[1] = 7
        /\ \E w : DecFindByTypeResp(response) = {w} /\ RangesOf(w, q.list)
  BY <1>2, RangesRead DEF response
<1> QED
  BY <1>6, <1>7 DEF x, q, r

\* A response that changes nothing on the device.
Quiet(rep, x) == rep.pdu = x /\ rep.pdu \in Bytes /\ rep.attrs = attrs /\ rep.prepared = prepared

\* The only answer that there is.
LEMMA QuietIs ==
  ASSUME NEW x \in Bytes, NEW rep \in {Answering(x, attrs, prepared)}
  PROVE  Quiet(rep, x)
BY DEF Quiet, Answering

\* The replies to a request for all services.
LEMMA RepliesPrimaryAll ==
  ASSUME ProcInv, NEW r \in Req, Asks(r), r.cb = "primary_all",
         NEW rep \in Replies(r.pdu, attrs, prepared, mtu)
  PROVE  r.pdu[1] = 16 /\ Quiet(rep, AnswerGroups(r.pdu, ListedServices, mtu))
<1> DEFINE x == AnswerGroups(r.pdu, ListedServices, mtu)
<1>1. call.proc = "primary" /\ r.pdu = EncReadByGrpReq(start, Highest, PrimSvc)
  BY DEF Asks
<1>2. Device(attrs) /\ start \in Word /\ mtu \in Nat /\ 23 <= mtu
  BY <1>1, ArgumentsAre
<1>3. r.pdu[1] = 16
  BY <1>1, <1>2, TypesAre, ReadByGrpReqIs
<1>4. Replies(r.pdu, attrs, prepared, mtu) = {Answering(x, attrs, prepared)}
  BY <1>1, <1>2, TypesAre, GroupsAsked DEF ListedServices
<1>5. x \in Bytes
  BY <1>2, <1>3, AnswerGroupsIs DEF ListedServices
<1> HIDE DEF x
<1>6. Quiet(rep, x)
  BY <1>4, <1>5, QuietIs
<1> QED
  BY <1>3, <1>6 DEF x

\* The replies to a request for services by UUID.
LEMMA RepliesByUuid ==
  ASSUME ProcInv, NEW r \in Req, Asks(r), r.cb = "primary_by_uuid",
         NEW rep \in Replies(r.pdu, attrs, prepared, mtu)
  PROVE  r.pdu[1] = 6 /\ Quiet(rep, AnswerRanges(r.pdu, ListedByUuid, mtu))
<1> DEFINE v == PutUuidLe(call.uuid)
           x == AnswerRanges(r.pdu, ListedByUuid, mtu)
<1>1. call.proc = "primary" /\ r.pdu = EncFindByTypeReq(start, Highest, PrimSvc, v, mtu)
  BY DEF Asks
<1>2. Device(attrs) /\ start \in Word /\ mtu \in Nat /\ 23 <= mtu
  BY <1>1, ArgumentsAre
<1>3. v \in Bytes /\ Len(v) <= 16
  <2>1. call.uuid \in Bytes /\ Len(call.uuid) \in {0, 2, 16}
    BY ArgumentsAre
  <2>2. v \in Bytes /\ Len(v) = Len(call.uuid)
    BY <2>1, ReverseTwice DEF PutUuidLe
  <2>3. \A n \in {0, 2, 16} : n <= 16
    OBVIOUS
  <2>4. Len(call.uuid) <= 16
    BY <2>1, <2>3, Zenon
  <2> HIDE DEF v
  <2> QED
    BY <2>2, <2>4
<1> HIDE DEF v
<1>4. /\ r.pdu[1] = 6
      /\ Replies(r.pdu, attrs, prepared, mtu) = {Answering(x, attrs, prepared)}
  BY <1>1, <1>2, <1>3, TypesAre, RangesAsked DEF ListedByUuid, v
<1>5. x \in Bytes
  BY <1>2, <1>4, AnswerRangesIs DEF ListedByUuid
<1> HIDE DEF x
<1>6. Quiet(rep, x)
  BY <1>4, <1>5, QuietIs
<1> QED
  BY <1>4, <1>6 DEF x

\* The replies to a request for included services.
LEMMA RepliesIncluded ==
  ASSUME ProcInv, NEW r \in Req, Asks(r), r.cb = "included",
         NEW rep \in Replies(r.pdu, attrs, prepared, mtu)
  PROVE  r.pdu[1] = 8 /\ Quiet(rep, AnswerValues(r.pdu, Listed(Include), mtu))
<1> DEFINE x == AnswerValues(r.pdu, Listed(Include), mtu)
<1>1. call.proc = "included" /\ r.pdu = EncReadByTypeReq(start, call.end, Include)
  BY DEF Asks
<1>2. Device(attrs) /\ start \in Word /\ call.end \in Word /\ mtu \in Nat /\ 23 <= mtu
  BY <1>1, ArgumentsAre
<1>3. r.pdu[1] = 8
  BY <1>1, <1>2, TypesAre, ReadByTypeReqIs
<1>4. Replies(r.pdu, attrs, prepared, mtu) = {Answering(x, attrs, prepared)}
  BY <1>1, <1>2, TypesAre, ValuesAsked DEF Listed
<1>5. x \in Bytes
  BY <1>2, <1>3, AnswerValuesIs DEF Listed
<1> HIDE DEF x
<1>6. Quiet(rep, x)
  BY <1>4, <1>5, QuietIs
<1> QED
  BY <1>3, <1>6 DEF x

\* The replies to a request for characteristics.
LEMMA RepliesChar ==
  ASSUME ProcInv, NEW r \in Req, Asks(r), r.cb = "char",
         NEW rep \in Replies(r.pdu, attrs, prepared, mtu)
  PROVE  r.pdu[1] = 8 /\ Quiet(rep, AnswerValues(r.pdu, Listed(Charac), mtu))
<1> DEFINE x == AnswerValues(r.pdu, Listed(Charac), mtu)
<1>1. call.proc = "char" /\ r.pdu = EncReadByTypeReq(start, call.end, Charac)
  BY DEF Asks
<1>2. Device(attrs) /\ start \in Word /\ call.end \in Word /\ mtu \in Nat /\ 23 <= mtu
  BY <1>1, ArgumentsAre
<1>3. r.pdu[1] = 8
  BY <1>1, <1>2, TypesAre, ReadByTypeReqIs
<1>4. Replies(r.pdu, attrs, prepared, mtu) = {Answering(x, attrs, prepared)}
  BY <1>1, <1>2, TypesAre, ValuesAsked DEF Listed
<1>5. x \in Bytes
  BY <1>2, <1>3, AnswerValuesIs DEF Listed
<1> HIDE DEF x
<1>6. Quiet(rep, x)
  BY <1>4, <1>5, QuietIs
<1> QED
  BY <1>3, <1>6 DEF x

\* The replies to a request for descriptors.
LEMMA RepliesDesc ==
  ASSUME ProcInv, NEW r \in Req, Asks(r), r.cb = "desc",
         NEW rep \in Replies(r.pdu, attrs, prepared, mtu)
  PROVE  r.pdu[1] = 4 /\ Quiet(rep, AnswerTypes(r.pdu, ListedAll, mtu))
<1> DEFINE x == AnswerTypes(r.pdu, ListedAll, mtu)
<1>1. call.proc = "desc" /\ r.pdu = EncFindInfoReq(start, call.end)
  BY DEF Asks
<1>2. Device(attrs) /\ start \in Word /\ call.end \in Word /\ mtu \in Nat /\ 23 <= mtu
  BY <1>1, ArgumentsAre
<1>3. r.pdu[1] = 4
  BY <1>1, <1>2, FindInfoReqIs
<1>4. Replies(r.pdu, attrs, prepared, mtu) = {Answering(x, attrs, prepared)}
  BY <1>1, <1>2, TypesAsked DEF ListedAll
<1>5. x \in Bytes
  BY <1>2, <1>3, AnswerTypesIs DEF ListedAll
<1> HIDE DEF x
<1>6. Quiet(rep, x)
  BY <1>4, <1>5, QuietIs
<1> QED
  BY <1>3, <1>6 DEF x

\* The replies to a request for the UUID of an included service.
LEMMA RepliesResolve ==
  ASSUME ProcInv, NEW r \in Req, Asks(r), r.cb = "resolve",
         NEW rep \in Replies(r.pdu, attrs, prepared, mtu)
  PROVE  /\ r.pdu[1] = 10
         /\ Quiet(rep, IF At(attrs, At16(r.arg, 3)) = 0 THEN EncErrorResp(10, At16(r.arg, 3), InvalidHandle)
                       ELSE EncReadResp(attrs[At(attrs, At16(r.arg, 3))].value, mtu))
<1> DEFINE h == At16(r.arg, 3)
<1>1. r.arg \in Bytes /\ Len(r.arg) = 6 /\ r.pdu = EncReadReq(h)
  BY DEF Asks
<1>2. attrs \in Seq(Attribute) /\ mtu \in Nat /\ 1 <= mtu
  BY ArgumentsAre
<1>3. h \in Word
  <2>1. 3 \in 1..Len(r.arg) /\ 3 < Len(r.arg)
    BY <1>1
  <2> QED
    BY <1>1, <2>1, NumberIs
<1> HIDE DEF h
<1>4. r.pdu[1] = 10
  BY <1>1, <1>3, ReadReqIs
<1>5. CASE At(attrs, h) = 0
  <2>1. Replies(r.pdu, attrs, prepared, mtu) = {Answering(EncErrorResp(10, h, InvalidHandle), attrs, prepared)}
    BY <1>1, <1>3, <1>5, ReadRefused
  <2>2. 10 \in Byte /\ InvalidHandle \in Byte
    BY DEF Byte, InvalidHandle
  <2>3. EncErrorResp(10, h, InvalidHandle) \in Bytes
    BY <1>3, <2>2, ErrorRespIs
  <2>4. Quiet(rep, EncErrorResp(10, h, InvalidHandle))
    BY <2>1, <2>3, QuietIs
  <2> QED
    BY <1>4, <1>5, <2>4 DEF h
<1>6. CASE At(attrs, h) # 0
  <2> DEFINE x == EncReadResp(attrs[At(attrs, h)].value, mtu)
  <2>1. Replies(r.pdu, attrs, prepared, mtu) = {Answering(x, attrs, prepared)}
    BY <1>1, <1>3, <1>6, ReadAsked
  <2>2. attrs[At(attrs, h)] \in Attribute
    BY <1>2, <1>6, AtIs
  <2>3. x \in Bytes
    BY <1>2, <2>2, AttributeIs, ReadRespIs
  <2> HIDE DEF x
  <2>4. Quiet(rep, x)
    BY <2>1, <2>3, QuietIs
  <2> QED
    BY <1>4, <1>6, <2>4 DEF h, x
<1> QED
  BY <1>5, <1>6

\* The replies to a request for a value.
LEMMA RepliesRead ==
  ASSUME ProcInv, NEW r \in Req, Asks(r), r.cb = "read",
         NEW rep \in Replies(r.pdu, attrs, prepared, mtu)
  PROVE  r.pdu[1] = 10 /\ Quiet(rep, EncReadResp(Held, mtu))
<1>1. call.proc = "read" /\ r.pdu = EncReadReq(call.handle)
  BY DEF Asks
<1>2. call.handle \in Word /\ mtu \in Nat /\ 1 <= mtu /\ At(attrs, call.handle) # 0
  BY <1>1, ArgumentsAre
<1>3. r.pdu[1] = 10
  BY <1>1, <1>2, ReadReqIs
<1>4. Replies(r.pdu, attrs, prepared, mtu) = {Answering(EncReadResp(Held, mtu), attrs, prepared)}
  BY <1>1, <1>2, ReadAsked DEF Held
<1>5. EncReadResp(Held, mtu) \in Bytes
  BY <1>1, <1>2, HeldIs, ReadRespIs
<1> QED
  BY <1>3, <1>4, <1>5, QuietIs

\* The rest of a value, from a place in it on, as much as a packet holds.
LEMMA BlobRespIs ==
  ASSUME NEW v \in Bytes, NEW m \in Nat, m <= Len(v), NEW len \in Nat, 1 <= len
  PROVE  LET p == EncReadBlobResp(v, m, len)
         IN /\ p \in Bytes /\ Len(p) = 1 + Least(Len(v) - m, len - 1) /\ p[1] = 13
            /\ Octets(p, 2) = Upto(Octets(v, m + 1), len - 1)
<1> DEFINE o == Octets(v, m + 1)
           f == Fitting(o, 1, len)
           p == <<13>> \o f
<1>1. Len(v) \in Nat /\ m + 1 \in 1..(Len(v) + 1)
  BY LenProperties DEF Bytes
<1>2. o \in Bytes /\ Len(o) = Len(v) - m
  <2>1. Octets(v, m + 1) \in Bytes /\ Len(Octets(v, m + 1)) = Len(v) + 1 - (m + 1)
    BY <1>1, OctetsIs
  <2> QED
    BY <1>1, <2>1
<1> HIDE DEF o
<1>3. f \in Bytes /\ Len(f) = Least(Len(o), len - 1) /\ f = Upto(o, len - 1)
  <2>1. 1 \in Nat
    OBVIOUS
  <2> QED
    BY <1>2, <2>1, FittingIs
<1>4. p = EncReadBlobResp(v, m, len)
  BY DEF EncReadBlobResp, o
<1> HIDE DEF f, p
<1>5. p \in Bytes /\ Len(p) = 1 + Len(f) /\ p[1] = 13 /\ Octets(p, 2) = f
  <2>1. 13 \in Byte
    BY DEF Byte
  <2> QED
    BY <1>3, <2>1, OpcodeValue DEF p
<1> QED
  BY <1>2, <1>3, <1>4, <1>5 DEF o

\* The replies to a request for the rest of a value.
LEMMA RepliesBlob ==
  ASSUME ProcInv, NEW r \in Req, Asks(r), r.cb = "blob",
         NEW rep \in Replies(r.pdu, attrs, prepared, mtu)
  PROVE  /\ r.pdu[1] = 12
         /\ \/ Len(Held) < mtu /\ Quiet(rep, EncErrorResp(12, call.handle, NotLong))
            \/ Quiet(rep, EncReadBlobResp(Held, Len(buffer), mtu))
<1>1. /\ call.proc = "read" /\ r.pdu = EncReadBlobReq(call.handle, Len(buffer))
      /\ Len(buffer) <= Len(Held)
  BY DEF Asks, AsksBlob
<1>2. /\ call.handle \in Word /\ mtu \in Nat /\ 1 <= mtu /\ At(attrs, call.handle) # 0
      /\ buffer \in Bytes
  BY <1>1, ArgumentsAre
<1>3. Held \in Bytes /\ Len(Held) \in Nat /\ Len(Held) <= 65535
  BY <1>1, HeldIs DEF Highest
<1>4. Len(buffer) \in Nat /\ Len(buffer) \in Word
  <2>1. Len(buffer) \in Nat /\ Len(buffer) <= 65535
    BY <1>1, <1>2, <1>3 DEF Bytes
  <2> QED
    BY <2>1, IsWord
<1>5. r.pdu[1] = 12
  BY <1>1, <1>2, <1>4, ReadBlobReqIs
<1>6. ~(Len(buffer) > Len(Held))
  BY <1>1, <1>3, <1>4
<1>7. Replies(r.pdu, attrs, prepared, mtu) =
        {Answering(EncReadBlobResp(Held, Len(buffer), mtu), attrs, prepared)}
          \cup (IF Len(Held) < mtu
                THEN {Answering(EncErrorResp(12, call.handle, NotLong), attrs, prepared)} ELSE {})
  BY <1>1, <1>2, <1>4, <1>6, BlobAsked DEF Held
<1>8. EncReadBlobResp(Held, Len(buffer), mtu) \in Bytes
  BY <1>1, <1>2, <1>3, <1>4, BlobRespIs
<1>9. EncErrorResp(12, call.handle, NotLong) \in Bytes
  <2>1. 12 \in Byte /\ NotLong \in Byte
    BY DEF Byte, NotLong
  <2> QED
    BY <1>2, <2>1, ErrorRespIs
<1>10. \/ rep = Answering(EncReadBlobResp(Held, Len(buffer), mtu), attrs, prepared)
       \/ Len(Held) < mtu /\ rep = Answering(EncErrorResp(12, call.handle, NotLong), attrs, prepared)
  BY <1>7
<1> QED
  BY <1>5, <1>8, <1>9, <1>10, QuietIs

\* The part of a value that a prepared write carries follows what is written.
LEMMA PieceIs ==
  ASSUME NEW v \in Bytes, NEW m \in Nat, m <= Len(v), NEW len \in Nat, 5 <= len
  PROVE  LET x == Fitting(Octets(v, m + 1), 5, len)
         IN /\ x \in Bytes /\ Len(x) \in Nat /\ Len(x) = Least(Len(v) - m, len - 5) /\ Len(x) <= len - 5
            /\ m + Len(x) \in 0..Len(v) /\ SubSeq(v, 1, m) \o x = SubSeq(v, 1, m + Len(x))
<1> DEFINE o == Octets(v, m + 1)
           x == Fitting(o, 5, len)
           n == Least(Len(v) - m, len - 5)
<1>1. Len(v) \in Nat /\ m + 1 \in 1..(Len(v) + 1) /\ 5 \in Nat
  BY LenProperties DEF Bytes
<1>2. o \in Bytes /\ Len(o) = Len(v) - m
  <2>1. Octets(v, m + 1) \in Bytes /\ Len(Octets(v, m + 1)) = Len(v) + 1 - (m + 1)
    BY <1>1, OctetsIs
  <2> QED
    BY <1>1, <2>1
<1>3. \A k \in 1..(Len(v) - m) : o[k] = v[m + k]
  <2>1. m + 1 \in Nat /\ m + 1 >= 1 /\ Len(v) <= Len(v) /\ Len(v) - (m + 1) + 1 = Len(v) - m
    BY <1>1
  <2>2. \A k \in 1..(Len(v) - (m + 1) + 1) : SubSeq(v, m + 1, Len(v))[k] = v[m + 1 + k - 1]
    BY <1>1, <2>1, PartIs
  <2> QED
    BY <1>1, <2>1, <2>2 DEF Octets
<1> HIDE DEF o
<1>4. x \in Bytes /\ Len(x) = n /\ \A k \in 1..n : x[k] = o[k]
  <2>1. /\ Fitting(o, 5, len) \in Bytes /\ Len(Fitting(o, 5, len)) = Least(Len(o), len - 5)
        /\ \A k \in 1..Least(Len(o), len - 5) : Fitting(o, 5, len)[k] = o[k]
    BY <1>1, <1>2, FittingIs
  <2>2. Least(Len(o), len - 5) = n
    BY <1>2
  <2> HIDE DEF n
  <2> QED
    BY <2>1, <2>2
<1>5. n \in Nat /\ m + n \in 0..Len(v) /\ n <= Len(v) - m /\ n <= len - 5
  BY <1>1 DEF Least
<1> HIDE DEF x, n
<1>6. \A k \in 1..n : x[k] = v[m + k]
  <2> SUFFICES ASSUME NEW k \in 1..n PROVE x[k] = v[m + k]
    OBVIOUS
  <2>1. k \in 1..(Len(v) - m)
    BY <1>1, <1>5
  <2> QED
    BY <1>3, <1>4, <2>1
<1> DEFINE a == SubSeq(v, 1, m)
           b == SubSeq(v, 1, m + n)
<1>7. a \in Bytes /\ Len(a) = m /\ \A k \in 1..m : a[k] = v[k]
  <2>1. 1 \in Nat /\ m - 1 + 1 = m /\ \A k \in 1..m : 1 + k - 1 = k
    OBVIOUS
  <2>2. /\ SubSeq(v, 1, m) \in Bytes /\ Len(SubSeq(v, 1, m)) = IF 1 <= m THEN m - 1 + 1 ELSE 0
        /\ \A k \in 1..(m - 1 + 1) : SubSeq(v, 1, m)[k] = v[1 + k - 1]
    BY <2>1, PartIs
  <2> QED
    BY <2>1, <2>2
<1>8. b \in Bytes /\ Len(b) = m + n /\ \A k \in 1..(m + n) : b[k] = v[k]
  <2> DEFINE t == m + n
  <2>0. t \in Nat /\ t <= Len(v)
    BY <1>1, <1>5
  <2> HIDE DEF t
  <2>1. 1 \in Nat /\ t - 1 + 1 = t /\ \A k \in 1..t : 1 + k - 1 = k
    BY <2>0
  <2>2. /\ SubSeq(v, 1, t) \in Bytes /\ Len(SubSeq(v, 1, t)) = IF 1 <= t THEN t - 1 + 1 ELSE 0
        /\ \A k \in 1..(t - 1 + 1) : SubSeq(v, 1, t)[k] = v[1 + k - 1]
    BY <2>0, <2>1, PartIs
  <2>3. SubSeq(v, 1, t) \in Bytes /\ Len(SubSeq(v, 1, t)) = t /\ \A k \in 1..t : SubSeq(v, 1, t)[k] = v[k]
    BY <2>0, <2>1, <2>2
  <2> QED
    BY <2>3 DEF t
<1> HIDE DEF a, b
<1>9. /\ a \o x \in Bytes /\ Len(a \o x) = m + n
      /\ \A i \in 1..m : (a \o x)[i] = a[i]
      /\ \A i \in 1..n : (a \o x)[m + i] = x[i]
  BY <1>4, <1>7, HeaderRest
<1>10. \A i \in 1..(m + n) : (a \o x)[i] = b[i]
  <2> SUFFICES ASSUME NEW i \in 1..(m + n) PROVE (a \o x)[i] = b[i]
    OBVIOUS
  <2>1. CASE i <= m
    BY <1>7, <1>8, <1>9, <2>1
  <2>2. CASE ~(i <= m)
    <3>1. i - m \in 1..n /\ m + (i - m) = i
      BY <1>5, <2>2
    <3>2. (a \o x)[m + (i - m)] = x[i - m] /\ x[i - m] = v[m + (i - m)]
      BY <1>6, <1>9, <3>1
    <3> QED
      BY <1>8, <3>1, <3>2
  <2> QED
    BY <2>1, <2>2
<1>11. a \o x = b
  <2>1. a \o x \in Seq(Byte) /\ b \in Seq(Byte) /\ Len(a \o x) = Len(b)
    BY <1>8, <1>9 DEF Bytes
  <2>2. \A i \in 1..Len(b) : (a \o x)[i] = b[i]
    BY <1>8, <1>10
  <2> HIDE DEF a, b
  <2> QED
    BY <2>1, <2>2, SeqEqual
<1> QED
  BY <1>4, <1>5, <1>11 DEF a, b, x, n, o

\* What is written becomes the value of the attribute; the handles stay.
LEMMA OverwriteIs ==
  ASSUME NEW db \in Seq(Attribute), NEW h, At(db, h) # 0, NEW parts,
         NEW v \in Bytes, Assembled(db[At(db, h)].value, parts) = v
  PROVE  LET new == Overwrite(db, h, parts)
         IN new \in Seq(Attribute) /\ At(new, h) = At(db, h) /\ new[At(new, h)].value = v
<1> DEFINE i == At(db, h)
           new == Overwrite(db, h, parts)
<1>1. i \in 1..Len(db) /\ db[i] \in Attribute
  BY AtIs
<1> DEFINE one == [db[i] EXCEPT !.value = v]
<1>2. new = [db EXCEPT ![i] = one]
  BY DEF Overwrite
<1>3. one \in Attribute /\ one.value = v /\ one.handle = db[i].handle
  BY <1>1 DEF Attribute
<1> HIDE DEF i, new, one
<1>4. new \in Seq(Attribute) /\ Len(new) = Len(db)
  BY <1>1, <1>2, <1>3
<1>5. new[i] = one /\ \A k \in 1..Len(db) : k # i => new[k] = db[k]
  BY <1>1, <1>2
<1>6. \A k \in 1..Len(db) : new[k].handle = db[k].handle
  BY <1>3, <1>5
<1>7. At(new, h) = At(db, h)
  BY <1>4, <1>6, AtSame
<1> QED
  BY <1>3, <1>4, <1>5, <1>7 DEF i, new

\* The response to the first request r is there, and the device is as it should be.
Taken(r) ==
  /\ Fixed' /\ reply' \in Bytes /\ Answered(r)'
  /\ reply' # <<>> \/ call.proc # "write"
  /\ attrs' = attrs \/ call.proc = "write"

\* The device responds.
Takes(rep) ==
  /\ reply' = rep.pdu /\ attrs' = rep.attrs /\ prepared' = rep.prepared
  /\ UNCHANGED <<mtu, call, start, offset, buffer>>

\* A response that changes nothing on the device is taken.
LEMMA QuietTaken ==
  ASSUME ProcInv, NEW r, Asks(r), call.proc # "write", NEW x, NEW rep, Quiet(rep, x), Takes(rep),
         reply' = x /\ attrs' = attrs /\ prepared' = prepared /\ mtu' = mtu /\ call' = call /\ start' = start
           /\ buffer' = buffer => Answered(r)'
  PROVE  Taken(r)
<1>1. reply' = x /\ reply' \in Bytes /\ UNCHANGED <<attrs, prepared, mtu, call, start, buffer>>
  BY DEF Quiet, Takes
<1>2. Fixed'
  BY <1>1, StaysFixed
<1> QED
  BY <1>1, <1>2 DEF Taken

\* The response to a list is taken.
LEMMA TakenList ==
  ASSUME ProcInv, NEW r \in Req, Asks(r), NEW rep \in Replies(r.pdu, attrs, prepared, mtu), Takes(rep),
         r.cb \in {"primary_all", "primary_by_uuid", "included", "char", "desc"}
  PROVE  Taken(r)
<1>1. CASE r.cb = "primary_all"
  <2>1. Quiet(rep, AnswerGroups(r.pdu, ListedServices, mtu)) /\ call.proc = "primary"
    BY <1>1, RepliesPrimaryAll DEF Asks
  <2> QED
    BY <1>1, <2>1, QuietTaken DEF Answered, ListedServices
<1>2. CASE r.cb = "primary_by_uuid"
  <2>1. Quiet(rep, AnswerRanges(r.pdu, ListedByUuid, mtu)) /\ call.proc = "primary"
    BY <1>2, RepliesByUuid DEF Asks
  <2> QED
    BY <1>2, <2>1, QuietTaken DEF Answered, ListedByUuid
<1>3. CASE r.cb = "included"
  <2>1. Quiet(rep, AnswerValues(r.pdu, Listed(Include), mtu)) /\ call.proc = "included"
    BY <1>3, RepliesIncluded DEF Asks
  <2> QED
    BY <1>3, <2>1, QuietTaken DEF Answered, Listed
<1>4. CASE r.cb = "char"
  <2>1. Quiet(rep, AnswerValues(r.pdu, Listed(Charac), mtu)) /\ call.proc = "char"
    BY <1>4, RepliesChar DEF Asks
  <2> QED
    BY <1>4, <2>1, QuietTaken DEF Answered, Listed
<1>5. CASE r.cb = "desc"
  <2>1. Quiet(rep, AnswerTypes(r.pdu, ListedAll, mtu)) /\ call.proc = "desc"
    BY <1>5, RepliesDesc DEF Asks
  <2> QED
    BY <1>5, <2>1, QuietTaken DEF Answered, ListedAll
<1> QED
  BY <1>1, <1>2, <1>3, <1>4, <1>5

\* The response to a value is taken.
LEMMA TakenValue ==
  ASSUME ProcInv, NEW r \in Req, Asks(r), NEW rep \in Replies(r.pdu, attrs, prepared, mtu), Takes(rep),
         r.cb \in {"resolve", "read", "blob"}
  PROVE  Taken(r)
<1>1. CASE r.cb = "resolve"
  <2>1. call.proc = "included"
    BY <1>1 DEF Asks
  <2> DEFINE x == IF At(attrs, At16(r.arg, 3)) = 0 THEN EncErrorResp(10, At16(r.arg, 3), InvalidHandle)
                  ELSE EncReadResp(attrs[At(attrs, At16(r.arg, 3))].value, mtu)
  <2>2. Quiet(rep, x)
    BY <1>1, RepliesResolve
  <2>3. reply' = x /\ attrs' = attrs /\ mtu' = mtu => Answered(r)'
    BY <1>1 DEF Answered
  <2> HIDE DEF x
  <2> QED
    BY <2>1, <2>2, <2>3, QuietTaken
<1>2. CASE r.cb = "read"
  <2>1. Quiet(rep, EncReadResp(Held, mtu)) /\ call.proc = "read"
    BY <1>2, RepliesRead DEF Asks
  <2> QED
    BY <1>2, <2>1, QuietTaken DEF Answered, Held
<1>3. CASE r.cb = "blob"
  <2>1. call.proc = "read"
    BY <1>3 DEF Asks, AsksBlob
  <2>2. \/ Len(Held) < mtu /\ Quiet(rep, EncErrorResp(12, call.handle, NotLong))
        \/ Quiet(rep, EncReadBlobResp(Held, Len(buffer), mtu))
    BY <1>3, RepliesBlob
  <2>3. CASE Len(Held) < mtu /\ Quiet(rep, EncErrorResp(12, call.handle, NotLong))
    BY <1>3, <2>1, <2>3, QuietTaken DEF Answered, Held
  <2>4. CASE Quiet(rep, EncReadBlobResp(Held, Len(buffer), mtu))
    BY <1>3, <2>1, <2>4, QuietTaken DEF Answered, Held
  <2> QED
    BY <2>2, <2>3, <2>4
<1> QED
  BY <1>1, <1>2, <1>3

\* A prepared write is queued behind those that are there.
LEMMA QueuedIs ==
  ASSUME NEW q \in Seq(Part), NEW x \in Part
  PROVE  /\ Append(q, x) \in Seq(Part) /\ Append(q, x) # <<>>
         /\ Append(q, x)[1] = IF q = <<>> THEN x ELSE q[1]
<1>1. Append(q, x) \in Seq(Part) /\ Len(Append(q, x)) = Len(q) + 1 /\ Len(q) \in Nat
  OBVIOUS
<1>2. Append(q, x) # <<>>
  BY <1>1, EmptySeq
<1>3. CASE q = <<>>
  <2>1. Append(q, x) = <<x>>
    BY <1>3
  <2> QED
    BY <1>1, <1>2, <1>3, <2>1
<1>4. CASE q # <<>>
  <2>1. Len(q) # 0
    BY <1>4, EmptySeq
  <2>2. 1 \in 1..Len(q)
    BY <1>1, <2>1
  <2>3. Append(q, x)[1] = q[1]
    BY <2>2
  <2> QED
    BY <1>1, <1>2, <1>4, <2>3
<1> QED
  BY <1>3, <1>4

\* The first octets of a string.
LEMMA StartIs ==
  ASSUME NEW v \in Bytes, NEW m \in Nat, m <= Len(v)
  PROVE  /\ SubSeq(v, 1, m) \in Bytes /\ Len(SubSeq(v, 1, m)) = m
         /\ \A k \in 1..m : SubSeq(v, 1, m)[k] = v[k]
<1>1. 1 \in Nat /\ m - 1 + 1 = m /\ \A k \in 1..m : 1 + k - 1 = k
  OBVIOUS
<1>2. /\ SubSeq(v, 1, m) \in Bytes /\ Len(SubSeq(v, 1, m)) = IF 1 <= m THEN m - 1 + 1 ELSE 0
      /\ \A k \in 1..(m - 1 + 1) : SubSeq(v, 1, m)[k] = v[1 + k - 1]
  BY <1>1, PartIs
<1> QED
  BY <1>1, <1>2

\* The response to a prepared write is taken.
LEMMA TakenPrepare ==
  ASSUME ProcInv, NEW r \in Req, Asks(r), reply = <<>>,
         NEW rep \in Replies(r.pdu, attrs, prepared, mtu), Takes(rep), r.cb = "prepare"
  PROVE  Taken(r)
<1>1. /\ call.proc = "write" /\ offset < Len(call.value)
      /\ r.pdu = EncPrepWriteReq(call.handle, offset, Octets(call.value, offset + 1), mtu)
      /\ WrittenUpTo(offset)
  BY DEF Asks, AsksPrepare
<1>2. /\ mtu \in Word /\ mtu \in Nat /\ mtu >= 23 /\ call.handle \in Word /\ offset \in Word
      /\ call.value \in Bytes /\ Len(call.value) \in Nat /\ At(attrs, call.handle) # 0
      /\ attrs \in Seq(Attribute) /\ prepared \in Seq(Part)
  BY <1>1, ArgumentsAre
<1>3. offset \in Nat /\ offset <= Len(call.value) /\ 5 <= mtu
  BY <1>1, <1>2, WordIs
<1>4. Octets(call.value, offset + 1) \in Bytes
  <2>1. offset + 1 \in 1..(Len(call.value) + 1)
    BY <1>2, <1>3
  <2> QED
    BY <1>2, <2>1, OctetsIs
<1> DEFINE part == [handle |-> call.handle, offset |-> offset, value |-> Piece]
           x == EncPrepWriteResp(call.handle, offset, Piece, mtu)
<1>5. Replies(r.pdu, attrs, prepared, mtu) = {Answering(x, attrs, Append(prepared, part))}
  <2> DEFINE o == Octets(call.value, offset + 1)
             y == Fitting(o, 5, mtu)
  <2>1. 23 <= mtu
    BY <1>2
  <2>4. o \in Bytes
    BY <1>4
  <2> HIDE DEF o
  <2>3. y = Piece
    BY DEF Piece, o
  <2>5. Piece = Fitting(o, 5, mtu)
    BY <2>3
  <2>6. Replies(EncPrepWriteReq(call.handle, offset, o, mtu), attrs, prepared, mtu) =
          {Answering(x, attrs, Append(prepared, part))}
    BY <1>2, <2>1, <2>4, <2>5, PrepareTaken
  <2> HIDE DEF y, x, part
  <2> QED
    BY <1>1, <2>6 DEF o
<1>6. /\ Piece \in Bytes /\ Len(Piece) \in Nat
      /\ offset + Len(Piece) \in 0..Len(call.value)
      /\ SubSeq(call.value, 1, offset) \o Piece = SubSeq(call.value, 1, offset + Len(Piece))
  BY <1>2, <1>3, PieceIs DEF Piece
<1>7. x \in Bytes /\ Len(x) >= 5
  <2>1. x \in Bytes /\ Len(x) = 5 + Least(Len(Piece), mtu - 5)
    BY <1>2, <1>3, <1>6, PrepWriteRespIs
  <2>2. Least(Len(Piece), mtu - 5) \in Nat
    BY <1>2, <1>3, <1>6 DEF Least
  <2> HIDE DEF x
  <2> QED
    BY <2>1, <2>2
<1>8. part \in Part /\ part.handle = call.handle /\ part.offset = offset /\ part.value = Piece
  BY <1>2, <1>6 DEF Part
<1> HIDE DEF x, part
<1>9. /\ reply' = x /\ attrs' = attrs /\ prepared' = Append(prepared, part)
      /\ UNCHANGED <<mtu, call, start, offset, buffer>>
  BY <1>5 DEF Takes, Answering
<1>10. /\ prepared' \in Seq(Part) /\ prepared' # <<>>
       /\ prepared'[1] = IF prepared = <<>> THEN part ELSE prepared[1]
  BY <1>2, <1>8, <1>9, QueuedIs
<1>11. prepared'[1].handle = call.handle
  BY <1>1, <1>8, <1>10 DEF WrittenUpTo
<1>12. Assembled(Held, prepared') = SubSeq(Assembled(Held, prepared), 1, offset) \o Piece
  BY <1>2, <1>8, <1>9, AssembledOne
<1>13. SubSeq(Assembled(Held, prepared), 1, offset) = SubSeq(call.value, 1, offset)
  <2>1. CASE prepared = <<>>
    <3>1. offset = 0
      BY <1>1, <2>1 DEF WrittenUpTo
    <3>2. SubSeq(Assembled(Held, prepared), 1, 0) = <<>> /\ SubSeq(call.value, 1, 0) = <<>>
      BY SubSeqEmpty
    <3> QED
      BY <3>1, <3>2
  <2>2. CASE prepared # <<>>
    <3> DEFINE s == SubSeq(call.value, 1, offset)
    <3>1. Assembled(Held, prepared) = s
      BY <1>1, <2>2 DEF WrittenUpTo
    <3>2. s \in Bytes /\ Len(s) = offset
      BY <1>2, <1>3, StartIs
    <3> HIDE DEF s
    <3>3. SubSeq(s, 1, offset) = s
      BY <3>2, SubSeqFull DEF Bytes
    <3> QED
      BY <3>1, <3>3 DEF s
  <2> QED
    BY <2>1, <2>2
<1>14. Held' = Held /\ Piece' = Piece
  BY <1>9 DEF Held, Piece
<1>15. WrittenUpTo(offset + Len(Piece))'
  BY <1>6, <1>9, <1>10, <1>11, <1>12, <1>13, <1>14 DEF WrittenUpTo
<1>16. AnswerToPrepare'
  BY <1>9, <1>14, <1>15 DEF AnswerToPrepare, x
<1>17. Answered(r)'
  BY <1>16 DEF Answered
<1>18. Fixed'
  BY <1>1, <1>9, <1>10 DEF ProcInv, Fixed
<1>19. reply' # <<>> /\ reply' \in Bytes
  BY <1>7, <1>9
<1> QED
  BY <1>9, <1>17, <1>18, <1>19 DEF Taken

\* What is written is the value, and the device stays.
LEMMA WrittenTaken ==
  ASSUME ProcInv, NEW r, r.cb = "caller", call.proc = "write", UNCHANGED <<mtu, call>>,
         NEW parts, Assembled(Held, parts) = call.value,
         attrs' = Overwrite(attrs, call.handle, parts), prepared' = <<>>,
         reply' \in {EncWriteResp, EncExecWriteResp}
  PROVE  Taken(r)
<1>1. /\ attrs \in Seq(Attribute) /\ At(attrs, call.handle) # 0 /\ call.value \in Bytes
  BY ArgumentsAre
<1>2. /\ attrs' \in Seq(Attribute) /\ At(attrs', call.handle) = At(attrs, call.handle)
      /\ attrs'[At(attrs', call.handle)].value = call.value
  BY <1>1, OverwriteIs DEF Held
<1>3. Held' = call.value
  BY <1>2 DEF Held
<1>4. Arguable(attrs', call')
  BY <1>1, <1>2 DEF ProcInv, Fixed, Arguable
<1>5. Fixed'
  BY <1>2, <1>4 DEF ProcInv, Fixed
<1>6. reply' # <<>> /\ reply' \in Bytes
  BY ShortPackets
<1>7. Answered(r)'
  BY <1>3 DEF Answered
<1> QED
  BY <1>5, <1>6, <1>7 DEF Taken

\* The response to a write, or the execution of the prepared ones, is taken.
LEMMA TakenWrite ==
  ASSUME ProcInv, NEW r \in Req, Asks(r), reply = <<>>, call.proc = "write",
         NEW rep \in Replies(r.pdu, attrs, prepared, mtu), Takes(rep), r.cb = "caller"
  PROVE  Taken(r)
<1>1. \/ /\ Len(call.value) <= mtu - 3 /\ r.pdu = EncWriteReq(call.handle, call.value, mtu)
         /\ prepared = <<>>
      \/ /\ Len(call.value) > mtu - 3 /\ r.pdu = EncExecWriteReq(1) /\ WrittenUpTo(Len(call.value))
  BY DEF Asks, AsksCaller
<1>2. /\ mtu \in Nat /\ 23 <= mtu /\ call.handle \in Word /\ At(attrs, call.handle) # 0
      /\ call.value \in Bytes /\ Len(call.value) \in Nat
  BY ArgumentsAre
<1>3. UNCHANGED <<mtu, call>> /\ reply' = rep.pdu /\ attrs' = rep.attrs /\ prepared' = rep.prepared
  BY DEF Takes
<1>4. CASE /\ Len(call.value) <= mtu - 3 /\ r.pdu = EncWriteReq(call.handle, call.value, mtu)
           /\ prepared = <<>>
  <2>1. rep = Answering(EncWriteResp, Overwrite(attrs, call.handle, OnePart(call.value)), prepared)
    BY <1>2, <1>4, WriteAsked
  <2>2. Assembled(Held, OnePart(call.value)) = call.value
    BY <1>2, AssembledWhole
  <2>3. /\ attrs' = Overwrite(attrs, call.handle, OnePart(call.value)) /\ prepared' = <<>>
        /\ reply' = EncWriteResp
    BY <1>3, <1>4, <2>1 DEF Answering
  <2> QED
    BY <1>3, <2>2, <2>3, WrittenTaken
<1>5. CASE Len(call.value) > mtu - 3 /\ r.pdu = EncExecWriteReq(1) /\ WrittenUpTo(Len(call.value))
  <2>1. Len(call.value) # 0
    BY <1>2, <1>5
  <2>2. prepared # <<>> /\ prepared[1].handle = call.handle
    BY <1>5, <2>1 DEF WrittenUpTo
  <2>3. Assembled(Held, prepared) = call.value
    <3>1. Assembled(Held, prepared) = SubSeq(call.value, 1, Len(call.value))
      BY <1>5, <2>2 DEF WrittenUpTo
    <3>2. SubSeq(call.value, 1, Len(call.value)) = call.value
      BY <1>2, SubSeqFull DEF Bytes
    <3> QED
      BY <3>1, <3>2
  <2>4. 1 \in {0, 1} /\ 1 # 0
    OBVIOUS
  <2>5. rep = Answering(EncExecWriteResp, IF prepared = <<>> \/ 1 = 0 THEN attrs
                                          ELSE Overwrite(attrs, prepared[1].handle, prepared), <<>>)
    BY <1>5, <2>4, ExecuteAsked
  <2>6. /\ attrs' = Overwrite(attrs, call.handle, prepared) /\ prepared' = <<>>
        /\ reply' = EncExecWriteResp
    BY <1>3, <2>2, <2>4, <2>5 DEF Answering
  <2> QED
    BY <1>3, <2>3, <2>6, WrittenTaken
<1> QED
  BY <1>1, <1>4, <1>5

\* The response to a read by UUID is taken.
LEMMA TakenUuid ==
  ASSUME ProcInv, NEW r \in Req, r.cb = "caller", call.proc = "read_by_uuid",
         r.pdu = EncReadByTypeReq(call.start, call.end, call.uuid),
         NEW rep \in Replies(r.pdu, attrs, prepared, mtu), Takes(rep)
  PROVE  Taken(r)
<1>1. /\ mtu \in Nat /\ 23 <= mtu /\ call.start \in Word /\ call.end \in Word /\ attrs \in Seq(Attribute)
      /\ call.uuid \in Bytes /\ Len(call.uuid) \in {0, 2, 16} /\ call.uuid # <<>>
  BY ArgumentsAre
<1>2. Len(call.uuid) \in {2, 16}
  <2>1. Len(call.uuid) # 0
    BY <1>1, EmptySeq DEF Bytes
  <2> QED
    BY <1>1, <2>1
<1> DEFINE w == [start |-> call.start, end |-> call.end, uuid |-> call.uuid]
           q == Asked(attrs, w, OfType(attrs, call.uuid))
           x == AnswerValues(r.pdu, q, mtu)
           response == EncReadByTypeResp(HandleValues(OfOneValueSize(q.list)), mtu)
<1>3. Replies(r.pdu, attrs, prepared, mtu) = {Answering(x, attrs, prepared)}
  BY <1>1, <1>2, ValuesAsked
<1>4. q.range = w /\ q.list \in Seq(Attribute)
  BY <1>1, AskedIs
<1>5. w.start = call.start
  OBVIOUS
<1>6. r.pdu[1] = 8 /\ 8 \in Byte
  <2>1. 8 \in Byte
    BY DEF Byte
  <2> QED
    BY <1>1, <1>2, <2>1, ReadByTypeReqIs
<1> HIDE DEF q, w
<1>7. x = Unless(r.pdu, q, response)
  BY DEF AnswerValues
<1>8. q.list # <<>> => response \in Bytes
  BY <1>1, <1>4, ValuesBytes
<1> HIDE DEF response, x
<1>9. x \in Bytes
  BY <1>1, <1>4, <1>5, <1>6, <1>7, <1>8, UnlessIs
<1>10. Quiet(rep, x)
  BY <1>3, <1>9, QuietIs
<1>11. reply' \in Bytes /\ UNCHANGED <<attrs, prepared, mtu, call>>
  BY <1>10 DEF Quiet, Takes
<1>12. Fixed'
  BY <1>11, StaysFixed
<1>13. Answered(r)'
  BY <1>11 DEF Answered
<1> QED
  BY <1>11, <1>12, <1>13 DEF Taken

\* The response to a reliable write is taken.
LEMMA TakenReliable ==
  ASSUME ProcInv, NEW r \in Req, r.cb = "caller", call.proc = "reliable",
         r.pdu = EncPrepWriteReq(call.handle, 0, call.value, mtu),
         NEW rep \in Replies(r.pdu, attrs, prepared, mtu), Takes(rep)
  PROVE  Taken(r)
<1>1. /\ mtu \in Nat /\ 23 <= mtu /\ 5 <= mtu /\ call.handle \in Word /\ call.value \in Bytes
      /\ attrs \in Seq(Attribute) /\ prepared \in Seq(Part) /\ Device(attrs)
  BY ArgumentsAre
<1>2. 0 \in Word
  BY IsWord
<1>3. UNCHANGED <<mtu, call>> /\ reply' = rep.pdu /\ attrs' = rep.attrs /\ prepared' = rep.prepared
  BY DEF Takes
<1>4. rep.pdu \in Bytes /\ rep.attrs = attrs /\ rep.prepared \in Seq(Part)
  <2>1. CASE At(attrs, call.handle) = 0
    <3>1. rep = Answering(EncErrorResp(22, call.handle, InvalidHandle), attrs, prepared)
      BY <1>1, <1>2, <2>1, PrepareRefused
    <3>2. 22 \in Byte /\ InvalidHandle \in Byte
      BY DEF Byte, InvalidHandle
    <3>3. EncErrorResp(22, call.handle, InvalidHandle) \in Bytes
      BY <1>1, <3>2, ErrorRespIs
    <3> QED
      BY <1>1, <3>1, <3>3 DEF Answering
  <2>2. CASE At(attrs, call.handle) # 0
    <3> DEFINE x == Fitting(call.value, 5, mtu)
               part == [handle |-> call.handle, offset |-> 0, value |-> x]
    <3>1. rep = Answering(EncPrepWriteResp(call.handle, 0, x, mtu), attrs, Append(prepared, part))
      BY <1>1, <1>2, <2>2, PrepareTaken
    <3>2. x \in Bytes
      <4>1. 5 \in Nat
        OBVIOUS
      <4> QED
        BY <1>1, <4>1, FittingIs
    <3> HIDE DEF x
    <3>3. EncPrepWriteResp(call.handle, 0, x, mtu) \in Bytes
      BY <1>1, <1>2, <3>2, PrepWriteRespIs
    <3>4. part \in Part
      BY <1>1, <1>2, <3>2 DEF Part
    <3> HIDE DEF part
    <3>5. Append(prepared, part) \in Seq(Part)
      BY <1>1, <3>4
    <3> QED
      BY <3>1, <3>3, <3>5 DEF Answering
  <2> QED
    BY <2>1, <2>2
<1>5. Fixed'
  BY <1>3, <1>4 DEF ProcInv, Fixed
<1>6. Answered(r)'
  BY <1>3 DEF Answered
<1> QED
  BY <1>3, <1>4, <1>5, <1>6 DEF Taken

\* The response to an execution is taken.
LEMMA TakenExecute ==
  ASSUME ProcInv, NEW r \in Req, r.cb = "caller", call.proc = "execute",
         r.pdu = EncExecWriteReq(call.start),
         NEW rep \in Replies(r.pdu, attrs, prepared, mtu), Takes(rep)
  PROVE  Taken(r)
<1>1. prepared = <<>> /\ call.start \in {0, 1}
  BY ArgumentsAre DEF ProcInv, Fixed
<1>2. UNCHANGED <<mtu, call>> /\ reply' = rep.pdu /\ attrs' = rep.attrs /\ prepared' = rep.prepared
  BY DEF Takes
<1>3. rep = Answering(EncExecWriteResp, IF prepared = <<>> \/ call.start = 0 THEN attrs
                                        ELSE Overwrite(attrs, prepared[1].handle, prepared), <<>>)
  BY <1>1, ExecuteAsked
<1>4. attrs' = attrs /\ prepared' = prepared /\ reply' = EncExecWriteResp
  BY <1>1, <1>2, <1>3 DEF Answering
<1>5. Fixed'
  BY <1>2, <1>4, StaysFixed
<1>6. reply' \in Bytes
  BY <1>4, ShortPackets
<1>7. Answered(r)'
  BY <1>2 DEF Answered
<1> QED
  BY <1>4, <1>5, <1>6, <1>7 DEF Taken

\* The response to an exchange of the MTU is taken.
LEMMA TakenMtu ==
  ASSUME ProcInv, NEW r \in Req, r.cb = "caller", call.proc = "mtu", r.pdu = EncMtuReq(mtu),
         NEW rep \in Replies(r.pdu, attrs, prepared, mtu), Takes(rep)
  PROVE  Taken(r)
<1>1. mtu \in Word
  BY ArgumentsAre
<1>2. UNCHANGED <<mtu, call>> /\ reply' = rep.pdu /\ attrs' = rep.attrs /\ prepared' = rep.prepared
  BY DEF Takes
<1>3. rep = Answering(EncMtuResp(mtu), attrs, prepared)
  BY <1>1, MtuAsked
<1>4. attrs' = attrs /\ prepared' = prepared /\ reply' = EncMtuResp(mtu)
  BY <1>2, <1>3 DEF Answering
<1>5. Fixed'
  BY <1>2, <1>4, StaysFixed
<1>6. reply' \in Bytes
  BY <1>1, <1>4, MtuRespIs
<1>7. Answered(r)'
  BY <1>2 DEF Answered
<1> QED
  BY <1>4, <1>5, <1>6, <1>7 DEF Taken

\* Every response of the device is taken for what it is.
LEMMA EveryTaken ==
  ASSUME ProcInv, NEW r \in Req, Asks(r), reply = <<>>,
         NEW rep \in Replies(r.pdu, attrs, prepared, mtu), Takes(rep)
  PROVE  Taken(r)
<1>1. r.cb \in Cbs
  BY DEF Req
<1>2. CASE r.cb \in {"primary_all", "primary_by_uuid", "included", "char", "desc"}
  BY <1>2, TakenList
<1>3. CASE r.cb \in {"resolve", "read", "blob"}
  BY <1>3, TakenValue
<1>4. CASE r.cb = "prepare"
  BY <1>4, TakenPrepare
<1>5. CASE r.cb = "caller"
  <2>1. AsksCaller(r)
    BY <1>5 DEF Asks
  <2>2. CASE call.proc = "write"
    BY <1>5, <2>2, TakenWrite
  <2>3. CASE call.proc = "read_by_uuid" /\ r.pdu = EncReadByTypeReq(call.start, call.end, call.uuid)
    BY <1>5, <2>3, TakenUuid
  <2>4. CASE call.proc = "reliable" /\ r.pdu = EncPrepWriteReq(call.handle, 0, call.value, mtu)
    BY <1>5, <2>4, TakenReliable
  <2>5. CASE call.proc = "execute" /\ r.pdu = EncExecWriteReq(call.start)
    BY <1>5, <2>5, TakenExecute
  <2>6. CASE call.proc = "mtu" /\ r.pdu = EncMtuReq(mtu)
    BY <1>5, <2>6, TakenMtu
  <2> QED
    BY <2>1, <2>2, <2>3, <2>4, <2>5, <2>6 DEF AsksCaller
<1> QED
  BY <1>1, <1>2, <1>3, <1>4, <1>5 DEF Cbs

\* The opcode of a request.
LEMMA OpcodeIs ==
  ASSUME ProcInv, NEW r \in Req, Asks(r)
  PROVE  r.pdu[1] \in {2, 4, 6, 8, 10, 12, 16, 18, 22, 24}
<1>1. r.cb \in Cbs
  BY DEF Req
<1>2. CASE r.cb = "primary_all"
  <2>1. r.pdu = EncReadByGrpReq(start, Highest, PrimSvc)
    BY <1>2 DEF Asks
  <2>2. EncReadByGrpReq(start, Highest, PrimSvc)[1] = 16
    BY ArgumentsAre, TypesAre, ReadByGrpReqIs
  <2> QED
    BY <2>1, <2>2
<1>3. CASE r.cb = "primary_by_uuid"
  <2> DEFINE v == PutUuidLe(call.uuid)
  <2>1. r.pdu = EncFindByTypeReq(start, Highest, PrimSvc, v, mtu)
    BY <1>3 DEF Asks
  <2>2. call.uuid \in Bytes /\ 7 <= mtu /\ mtu \in Nat /\ start \in Word
    BY ArgumentsAre
  <2>3. v \in Bytes
    BY <2>2, ReverseTwice DEF PutUuidLe
  <2> HIDE DEF v
  <2>4. EncFindByTypeReq(start, Highest, PrimSvc, v, mtu)[1] = 6
    BY <2>2, <2>3, TypesAre, FindByTypeReqIs DEF Searching
  <2> QED
    BY <2>1, <2>4
<1>4. CASE r.cb = "included"
  <2>1. r.pdu = EncReadByTypeReq(start, call.end, Include)
    BY <1>4 DEF Asks
  <2>2. EncReadByTypeReq(start, call.end, Include)[1] = 8
    BY ArgumentsAre, TypesAre, ReadByTypeReqIs
  <2> QED
    BY <2>1, <2>2
<1>5. CASE r.cb = "char"
  <2>1. r.pdu = EncReadByTypeReq(start, call.end, Charac)
    BY <1>5 DEF Asks
  <2>2. EncReadByTypeReq(start, call.end, Charac)[1] = 8
    BY ArgumentsAre, TypesAre, ReadByTypeReqIs
  <2> QED
    BY <2>1, <2>2
<1>6. CASE r.cb = "desc"
  <2>1. r.pdu = EncFindInfoReq(start, call.end)
    BY <1>6 DEF Asks
  <2>2. EncFindInfoReq(start, call.end)[1] = 4
    BY ArgumentsAre, FindInfoReqIs
  <2> QED
    BY <2>1, <2>2
<1>7. CASE r.cb = "resolve"
  <2>1. r.arg \in Bytes /\ Len(r.arg) = 6 /\ r.pdu = EncReadReq(At16(r.arg, 3))
    BY <1>7 DEF Asks
  <2>2. 3 \in 1..Len(r.arg) /\ 3 < Len(r.arg)
    BY <2>1
  <2>3. At16(r.arg, 3) \in Word
    BY <2>1, <2>2, NumberIs
  <2>4. EncReadReq(At16(r.arg, 3))[1] = 10
    BY <2>3, ReadReqIs
  <2> QED
    BY <2>1, <2>4
<1>8. CASE r.cb = "read"
  <2>1. r.pdu = EncReadReq(call.handle)
    BY <1>8 DEF Asks
  <2>2. EncReadReq(call.handle)[1] = 10
    BY ArgumentsAre, ReadReqIs
  <2> QED
    BY <2>1, <2>2
<1>9. CASE r.cb = "blob"
  <2>1. /\ call.proc = "read" /\ r.pdu = EncReadBlobReq(call.handle, Len(buffer))
        /\ Len(buffer) <= Len(Held)
    BY <1>9 DEF Asks, AsksBlob
  <2>2. buffer \in Bytes /\ Len(Held) \in Nat /\ Len(Held) <= 65535
    BY <2>1, ArgumentsAre, HeldIs DEF Highest
  <2>3. Len(buffer) \in Nat /\ Len(buffer) <= 65535
    BY <2>1, <2>2 DEF Bytes
  <2>4. Len(buffer) \in Word
    BY <2>3, IsWord
  <2>5. EncReadBlobReq(call.handle, Len(buffer))[1] = 12
    BY <2>4, ArgumentsAre, ReadBlobReqIs
  <2> QED
    BY <2>1, <2>5
<1>10. CASE r.cb = "prepare"
  <2> DEFINE o == Octets(call.value, offset + 1)
  <2>1. offset < Len(call.value) /\ r.pdu = EncPrepWriteReq(call.handle, offset, o, mtu)
    BY <1>10 DEF Asks, AsksPrepare
  <2>2. /\ offset \in Word /\ call.value \in Bytes /\ Len(call.value) \in Nat /\ mtu \in Nat /\ 5 <= mtu
        /\ call.handle \in Word
    BY ArgumentsAre
  <2>3. offset + 1 \in 1..(Len(call.value) + 1)
    BY <2>1, <2>2, WordIs
  <2>4. o \in Bytes
    BY <2>2, <2>3, OctetsIs
  <2> HIDE DEF o
  <2>5. EncPrepWriteReq(call.handle, offset, o, mtu)[1] = 22
    BY <2>2, <2>4, PrepWriteReqIs
  <2> QED
    BY <2>1, <2>5
<1>11. CASE r.cb = "caller"
  <2>1. AsksCaller(r)
    BY <1>11 DEF Asks
  <2>2. /\ mtu \in Word /\ mtu \in Nat /\ 5 <= mtu /\ 3 <= mtu /\ call.handle \in Word /\ call.value \in Bytes
        /\ 0 \in Word /\ 1 \in {0, 1} /\ call.start \in Word /\ call.end \in Word /\ call.uuid \in Bytes
    BY ArgumentsAre, IsWord
  <2>3. EncWriteReq(call.handle, call.value, mtu)[1] = 18
    BY <2>2, WriteReqIs
  <2>4. EncPrepWriteReq(call.handle, 0, call.value, mtu)[1] = 22
    BY <2>2, PrepWriteReqIs
  <2>5. EncMtuReq(mtu)[1] = 2
    BY <2>2, MtuReqIs
  <2>6. \A f \in {0, 1} : EncExecWriteReq(f)[1] = 24
    BY ShortPackets
  <2>7. ASSUME call.proc = "read_by_uuid" PROVE EncReadByTypeReq(call.start, call.end, call.uuid)[1] = 8
    <3>1. call.uuid # <<>> /\ Len(call.uuid) \in {0, 2, 16}
      BY <2>7, ArgumentsAre
    <3>2. Len(call.uuid) # 0
      BY <2>2, <3>1, EmptySeq DEF Bytes
    <3>3. Len(call.uuid) \in {2, 16}
      BY <3>1, <3>2
    <3> QED
      BY <2>2, <3>3, ReadByTypeReqIs
  <2>8. call.proc = "execute" => call.start \in {0, 1}
    BY ArgumentsAre
  <2>9. \/ r.pdu[1] = 18 \/ r.pdu[1] = 22 \/ r.pdu[1] = 2 \/ r.pdu[1] = 24 \/ r.pdu[1] = 8
    BY <2>1, <2>2, <2>3, <2>4, <2>5, <2>6, <2>7, <2>8, Zenon DEF AsksCaller
  <2> QED
    BY <2>9
<1> QED
  BY <1>1, <1>2, <1>3, <1>4, <1>5, <1>6, <1>7, <1>8, <1>9, <1>10, <1>11 DEF Cbs

\* The response to a request is there.
LEMMA Arrived ==
  ASSUME ProcInv, line # <<>>, UNCHANGED <<mtu, call, line, context, outcome>>,
         up' \in BOOLEAN, honest' \in BOOLEAN, honest' => up',
         Fixed', reply' \in Bytes, reply' # <<>> \/ call.proc # "write",
         attrs' = attrs \/ call.proc = "write", Heard'
  PROVE  ProcInv'
<1>1. UNCHANGED <<mtu, call, line, start, found, buffer, offset, err, outcome>> /\ outcome = <<>>
  BY UnderWay DEF context
<1>2. Fields'
  BY <1>1 DEF ProcInv, Fields
<1>3. Once' /\ Fresh' /\ Whole'
  BY <1>1 DEF Once, Fresh, Whole
<1>4. \A r : Asks(r) => Asks(r)'
  <2> SUFFICES ASSUME NEW r, Asks(r) PROVE Asks(r)'
    OBVIOUS
  <2>1. r.cb = "blob" => AsksBlob(r)'
    BY <1>1 DEF Asks, AsksBlob, Held
  <2>2. r.cb = "prepare" => AsksPrepare(r)'
    BY <1>1 DEF Asks, AsksPrepare
  <2>3. r.cb = "caller" => AsksCaller(r)'
    BY <1>1 DEF Asks, AsksCaller
  <2> QED
    BY <1>1, <2>1, <2>2, <2>3 DEF Asks
<1>5. Asking'
  <2>1. \A i \in 1..Len(line) : Asks(line[i])'
    <3> SUFFICES ASSUME NEW i \in 1..Len(line) PROVE Asks(line[i])'
      OBVIOUS
    <3>1. PICK r : r = line[i]
      OBVIOUS
    <3>2. Asks(r)
      BY <3>1 DEF ProcInv, Asking
    <3>3. line'[i] = r /\ Asks(r)'
      BY <1>1, <1>4, <3>1, <3>2
    <3> QED
      BY <3>3
  <2> QED
    BY <1>1, <2>1 DEF ProcInv, Asking
<1> QED
  BY <1>2, <1>3, <1>5 DEF ProcInv

\* A response comes, of the device or of one that does not follow the protocol.
LEMMA ReceiveStep ==
  ASSUME ProcInv, Receive
  PROVE  ProcInv'
<1>1. /\ up /\ line # <<>> /\ reply = <<>>
      /\ UNCHANGED <<up, mtu, call, line, context, outcome>>
  BY DEF Receive
<1>2. PICK r \in Req : r = line[1] /\ r = Head(line) /\ Asks(r)
  BY <1>1, UnderWay
<1>3. UNCHANGED <<start, offset, buffer>> /\ honest \in BOOLEAN /\ up \in BOOLEAN
  BY <1>1 DEF context, ProcInv, Fields
<1>4. CASE /\ \E rep \in Replies(r.pdu, attrs, prepared, mtu) :
                reply' = rep.pdu /\ attrs' = rep.attrs /\ prepared' = rep.prepared
           /\ UNCHANGED honest
  <2>1. PICK rep \in Replies(r.pdu, attrs, prepared, mtu) :
             reply' = rep.pdu /\ attrs' = rep.attrs /\ prepared' = rep.prepared
    BY <1>4
  <2>2. Takes(rep)
    BY <1>1, <1>3, <2>1 DEF Takes
  <2>3. Taken(r)
    BY <1>1, <1>2, <2>2, EveryTaken
  <2>4. Heard'
    <3>1. line' # <<>> /\ r = line'[1] /\ Answered(r)'
      BY <1>1, <1>2, <2>3 DEF Taken
    <3> QED
      BY <3>1 DEF Heard
  <2>5. up' \in BOOLEAN /\ honest' \in BOOLEAN /\ (honest' => up')
    BY <1>1, <1>3, <1>4
  <2> QED
    BY <1>1, <2>3, <2>4, <2>5, Arrived DEF Taken
<1>5. CASE /\ reply' \in {EncErrorResp(r.pdu[1], 0, Unlikely)} \cup {p \in Odd : p[1] = r.pdu[1] + 1}
           /\ honest' = FALSE /\ UNCHANGED <<attrs, prepared>>
  <2>1. Fixed'
    BY <1>1, <1>5, StaysFixed
  <2>2. up' \in BOOLEAN /\ honest' \in BOOLEAN /\ (honest' => up')
    BY <1>1, <1>3, <1>5
  <2>3. CASE reply' = EncErrorResp(r.pdu[1], 0, Unlikely)
    <3>1. r.pdu[1] \in Byte /\ 0 \in Word /\ Unlikely \in Byte
      <4>1. r.pdu[1] \in {2, 4, 6, 8, 10, 12, 16, 18, 22, 24}
        BY <1>2, OpcodeIs
      <4> QED
        BY <4>1, IsWord DEF Byte, Unlikely
    <3>2. reply' \in Bytes /\ Len(reply') = 5 /\ reply'[1] = 1 /\ reply'[5] = Unlikely
      BY <2>3, <3>1, ErrorRespIs
    <3>3. Status' = Unlikely
      BY <3>2 DEF Status
    <3>4. Status' \in Byte \ {0} /\ reply' # <<>>
      <4>1. Unlikely # 0
        BY DEF Unlikely
      <4>2. reply' # <<>>
        <5>1. Len(<<>>) = 0
          OBVIOUS
        <5> HIDE DEF Unlikely
        <5> QED
          BY <3>2, <5>1
      <4> QED
        BY <3>1, <3>3, <4>1, <4>2
    <3>5. line' # <<>>
      BY <1>1
    <3>6. Heard'
      BY <1>5, <3>2, <3>4, <3>5 DEF Heard
    <3> QED
      BY <1>1, <1>5, <2>1, <2>2, <3>2, <3>4, <3>6, Arrived
  <2>4. CASE reply' \in Odd /\ reply'[1] = r.pdu[1] + 1
    <3>1. reply' \in Bytes /\ Len(reply') >= 2
      BY <2>4, OddAssumption
    <3>2. reply' # <<>>
      BY <3>1
    <3>3. line' # <<>> /\ line'[1] = r
      BY <1>1, <1>2
    <3>4. Heard'
      BY <1>5, <2>4, <3>3 DEF Heard
    <3> QED
      BY <1>1, <1>5, <2>1, <2>2, <3>1, <3>2, <3>4, Arrived
  <2> QED
    BY <1>5, <2>3, <2>4
<1> QED
  BY <1>2, <1>4, <1>5 DEF Receive

\* The connection is lost.
LEMMA LostStep ==
  ASSUME ProcInv, Lost
  PROVE  ProcInv'
<1>1. /\ up' = FALSE /\ honest' = FALSE
      /\ UNCHANGED <<attrs, prepared, mtu, call, line, reply, start, found, buffer, offset, err, outcome>>
  BY DEF Lost, context
<1>2. Fixed' /\ Fields' /\ Once' /\ Fresh'
  BY <1>1, StaysFixed DEF ProcInv, Fields, Once, Fresh
<1>3. Whole'
  BY <1>1 DEF Whole, Complete
<1>4. \A r : Asks(r) => Asks(r)'
  BY <1>1 DEF Asks, AsksBlob, AsksPrepare, AsksCaller, Held, WrittenUpTo
<1>5. \A r : Answered(r) => Answered(r)'
  BY <1>1 DEF Answered, AnswerToPrepare, ListedServices, ListedByUuid, Listed, ListedAll, Held, Piece, WrittenUpTo
<1>6. Asking'
  <2>1. \A i \in 1..Len(line) : Asks(line[i])'
    <3> SUFFICES ASSUME NEW i \in 1..Len(line) PROVE Asks(line[i])'
      OBVIOUS
    <3>1. PICK r : r = line[i]
      OBVIOUS
    <3>2. Asks(r)
      BY <3>1 DEF ProcInv, Asking
    <3>3. line'[i] = r /\ Asks(r)'
      BY <1>1, <1>4, <3>1, <3>2
    <3> QED
      BY <3>3
  <2> QED
    BY <1>1, <2>1 DEF ProcInv, Asking
<1>7. Heard'
  <2> SUFFICES ASSUME reply # <<>> PROVE Heard'
    BY <1>1 DEF Heard
  <2>1. Status' = Status
    BY <1>1 DEF Status
  <2>2. PICK r : r = line[1]
    OBVIOUS
  <2>3. /\ line # <<>>
        /\ \/ reply[1] = 1 /\ Status \in Byte \ {0}
           \/ reply \in Odd /\ reply[1] = r.pdu[1] + 1
           \/ Answered(r)
    BY <2>2 DEF ProcInv, Heard
  <2>4. line' # <<>> /\ r = line'[1] /\ reply' = reply /\ (Answered(r) => Answered(r)')
    BY <1>1, <1>5, <2>2, <2>3
  <2>5. \/ ~honest' /\ reply'[1] = 1 /\ Status' \in Byte \ {0}
        \/ ~honest' /\ reply' \in Odd /\ reply'[1] = r.pdu[1] + 1
        \/ Answered(r)'
    BY <1>1, <2>1, <2>3, <2>4
  <2> QED
    BY <2>4, <2>5 DEF Heard
<1> QED
  BY <1>2, <1>3, <1>6, <1>7 DEF ProcInv

\* A request is called back after the connection is lost.
LEMMA DroppedStep ==
  ASSUME ProcInv, Dropped
  PROVE  ProcInv'
<1>1. /\ ~up /\ line # <<>> /\ reply' = <<1>>
      /\ UNCHANGED <<device, mtu, call, line, context, outcome>>
  BY DEF Dropped
<1>2. UNCHANGED <<attrs, prepared, honest, up>> /\ ~honest /\ honest \in BOOLEAN /\ up \in BOOLEAN
  BY <1>1 DEF device, ProcInv, Fields
<1>3. 1 \in Byte
  BY DEF Byte
<1>4. reply' \in Bytes /\ Len(reply') = 1 /\ reply'[1] = 1 /\ reply' # <<>>
  BY <1>1, <1>3, OneOctet
<1>5. Status' = Unlikely
  BY <1>4 DEF Status
<1>6. Status' \in Byte \ {0}
  BY <1>5 DEF Unlikely, Byte
<1>7. Heard'
  BY <1>1, <1>2, <1>4, <1>6 DEF Heard
<1>8. Fixed'
  BY <1>1, <1>2, StaysFixed
<1> QED
  BY <1>1, <1>2, <1>4, <1>7, <1>8, Arrived

\* The last entry of a list that is not empty.
LEMMA LastIs ==
  ASSUME NEW X, NEW list \in Seq(X), Len(list) >= 1
  PROVE  Last(list) = list[Len(list)] /\ Len(list) \in 1..Len(list)
BY DEF Last

\* A list is not empty when its octets are a multiple of the length of its entries.
LEMMA SomeEntry ==
  ASSUME NEW p \in Bytes, NEW e \in Nat, e > 0, Len(p) >= 3, (Len(p) - 2) % e = 0
  PROVE  Len(DataList(p, 3, e)) >= 1
<1> DEFINE n == (Len(p) + 1 - 3) \div e
<1>1. Len(p) \in Nat /\ Len(p) - 2 \in Nat /\ Len(p) - 2 >= 1 /\ Len(p) + 1 - 3 = Len(p) - 2
  BY DEF Bytes
<1>2. \A m \in Nat : m >= 1 /\ m % e = 0 => m \div e \in Nat /\ m \div e >= 1
  OBVIOUS
<1>3. n \in Nat /\ n >= 1
  BY <1>1, <1>2
<1> HIDE DEF n
<1>4. DataList(p, 3, e) = [k \in 1..n |-> SubSeq(p, 3 + (k - 1) * e, 3 + k * e - 1)]
  BY DEF DataList, n
<1>5. DOMAIN DataList(p, 3, e) = 1..n
  BY <1>4
<1>6. Uniform(DataList(p, 3, e), e)
  BY CutOut
<1>7. Len(DataList(p, 3, e)) = n
  BY <1>3, <1>5, <1>6, LenProperties DEF Uniform
<1> QED
  BY <1>3, <1>7

\* What dec_read_by_grp_resp returns has a last entry with a last handle.
LEMMA GroupsDecoded ==
  ASSUME NEW p \in Bytes, NEW list \in DecReadByGrpResp(p)
  PROVE  /\ p[1] = 17 /\ list \in Seq(Bytes) /\ Len(list) \in Nat /\ Len(list) >= 1
         /\ Last(list) = list[Len(list)] /\ At16(Last(list), 3) \in Word
<1> DEFINE e == p[2]
<1>1. p[1] = 17 /\ ~(Len(p) < 7) /\ ~(e < 5) /\ (Len(p) - 2) % e = 0 /\ list = DataList(p, 3, e)
  BY DEF DecReadByGrpResp, Decoded
<1>2. Len(p) \in Nat /\ e \in Nat /\ e >= 5 /\ e > 0 /\ Len(p) >= 7
  <2>1. Len(p) \in Nat /\ Len(p) >= 7
    BY <1>1 DEF Bytes
  <2>2. e \in Byte
    BY <2>1 DEF Bytes
  <2> QED
    BY <1>1, <2>1, <2>2, ByteIs
<1> HIDE DEF e
<1>3. /\ list \in Seq(Bytes) /\ Len(list) \in Nat
      /\ \A k \in 1..Len(list) : list[k] \in Bytes /\ Len(list[k]) = e
  <2>1. Uniform(DataList(p, 3, e), e)
    BY <1>2, CutOut
  <2> QED
    BY <1>1, <2>1 DEF Uniform
<1>4. Len(list) >= 1
  BY <1>1, <1>2, SomeEntry
<1>5. Last(list) = list[Len(list)] /\ Last(list) \in Bytes /\ Len(Last(list)) = e
  BY <1>3, <1>4, LastIs
<1>6. 3 \in 1..Len(Last(list)) /\ 3 < Len(Last(list))
  BY <1>2, <1>5
<1>7. At16(Last(list), 3) \in Word
  BY <1>5, <1>6, NumberIs
<1> QED
  BY <1>1, <1>3, <1>4, <1>5, <1>7

\* What dec_read_by_type_resp returns has entries of one length, and a last handle.
LEMMA ValuesDecoded ==
  ASSUME NEW p \in Bytes, NEW list \in DecReadByTypeResp(p)
  PROVE  /\ p[1] = 9 /\ list \in Seq(Bytes) /\ Len(list) \in Nat /\ Len(list) >= 1
         /\ \A k \in 1..Len(list) : list[k] \in Bytes /\ Len(list[k]) = Len(list[1])
         /\ Last(list) = list[Len(list)] /\ At16(Last(list), 1) \in Word
<1> DEFINE e == p[2]
<1>1. p[1] = 9 /\ ~(Len(p) < 5) /\ ~(e < 3) /\ (Len(p) - 2) % e = 0 /\ list = DataList(p, 3, e)
  BY DEF DecReadByTypeResp, Decoded
<1>2. Len(p) \in Nat /\ e \in Nat /\ e >= 3 /\ e > 0 /\ Len(p) >= 5
  <2>1. Len(p) \in Nat /\ Len(p) >= 5
    BY <1>1 DEF Bytes
  <2>2. e \in Byte
    BY <2>1 DEF Bytes
  <2> QED
    BY <1>1, <2>1, <2>2, ByteIs
<1> HIDE DEF e
<1>3. /\ list \in Seq(Bytes) /\ Len(list) \in Nat
      /\ \A k \in 1..Len(list) : list[k] \in Bytes /\ Len(list[k]) = e
  <2>1. Uniform(DataList(p, 3, e), e)
    BY <1>2, CutOut
  <2> QED
    BY <1>1, <2>1 DEF Uniform
<1>4. Len(list) >= 1
  BY <1>1, <1>2, SomeEntry
<1>5. Last(list) = list[Len(list)] /\ Last(list) \in Bytes /\ Len(Last(list)) = e
  BY <1>3, <1>4, LastIs
<1>6. 1 \in 1..Len(Last(list)) /\ 1 < Len(Last(list))
  BY <1>2, <1>5
<1>7. At16(Last(list), 1) \in Word
  BY <1>5, <1>6, NumberIs
<1>8. Len(list[1]) = e
  BY <1>3, <1>4
<1> QED
  BY <1>1, <1>3, <1>4, <1>5, <1>7, <1>8

\* The first entries of what dec_find_info_resp returns have a last handle.
LEMMA TypesDecoded ==
  ASSUME NEW p \in Bytes, NEW info \in DecFindInfoResp(p), NEW n \in 0..Len(info.list)
  PROVE  /\ p[1] = 5 /\ info.list \in Seq(Bytes) /\ Len(info.list) \in Nat
         /\ SubSeq(info.list, 1, n) \in Seq(Bytes) /\ Len(SubSeq(info.list, 1, n)) = n
         /\ n >= 1 => At16(Last(SubSeq(info.list, 1, n)), 1) \in Word
<1> DEFINE e == 2 + (CASE p[2] = 1 -> 2 [] p[2] = 2 -> 16 [] OTHER -> 0)
           list == info.list
           seen == SubSeq(list, 1, n)
<1>1. e \in Nat /\ e >= 2 /\ e > 0
  <2>1. \A m \in {0, 2, 16} : 2 + m \in Nat /\ 2 + m >= 2 /\ 2 + m > 0
    OBVIOUS
  <2>2. (CASE p[2] = 1 -> 2 [] p[2] = 2 -> 16 [] OTHER -> 0) \in {0, 2, 16}
    OBVIOUS
  <2> QED
    BY <2>1, <2>2
<1> HIDE DEF e
<1>2. p[1] = 5 /\ info = [format |-> p[2], list |-> DataList(p, 3, e)]
  BY DEF DecFindInfoResp, Decoded, e
<1>3. list = DataList(p, 3, e)
  BY <1>2
<1> HIDE DEF list
<1>4. list \in Seq(Bytes) /\ Len(list) \in Nat /\ \A k \in 1..Len(list) : list[k] \in Bytes /\ Len(list[k]) = e
  <2>1. Uniform(DataList(p, 3, e), e)
    BY <1>1, CutOut
  <2> QED
    BY <1>3, <2>1 DEF Uniform
<1>5. n \in 0..Len(list)
  BY DEF list
<1>6. seen \in Seq(Bytes) /\ Len(seen) = n /\ \A k \in 1..n : seen[k] = list[k] /\ k \in 1..Len(list)
  BY <1>4, <1>5
<1> HIDE DEF seen
<1>7. ASSUME n >= 1 PROVE At16(Last(seen), 1) \in Word
  <2>1. n \in 1..n /\ Last(seen) = seen[n]
    BY <1>5, <1>6, <1>7, LastIs
  <2>2. Last(seen) \in Bytes /\ Len(Last(seen)) = e
    BY <1>4, <1>6, <2>1
  <2>3. 1 \in 1..Len(Last(seen)) /\ 1 < Len(Last(seen))
    BY <1>1, <2>2
  <2> QED
    BY <2>2, <2>3, NumberIs
<1> QED
  BY <1>2, <1>4, <1>6, <1>7 DEF list, seen

\* The list that dec_find_info_resp returns.
LEMMA InfoIs ==
  ASSUME NEW p \in Bytes, NEW info \in DecFindInfoResp(p)
  PROVE  info.list \in Seq(Bytes)
<1> DEFINE e == 2 + (CASE p[2] = 1 -> 2 [] p[2] = 2 -> 16 [] OTHER -> 0)
<1>1. e \in Nat /\ e > 0
  <2>1. \A m \in {0, 2, 16} : 2 + m \in Nat /\ 2 + m > 0
    OBVIOUS
  <2>2. (CASE p[2] = 1 -> 2 [] p[2] = 2 -> 16 [] OTHER -> 0) \in {0, 2, 16}
    OBVIOUS
  <2> QED
    BY <2>1, <2>2
<1> HIDE DEF e
<1>2. info.list = DataList(p, 3, e)
  BY DEF DecFindInfoResp, Decoded, e
<1>3. Uniform(DataList(p, 3, e), e)
  BY <1>1, CutOut
<1> QED
  BY <1>2, <1>3 DEF Uniform

\* What dec_find_by_type_resp returns has a last range.
LEMMA RangesDecoded ==
  ASSUME NEW p \in Bytes, NEW list \in DecFindByTypeResp(p)
  PROVE  p[1] = 7 /\ Last(list) = list[Len(list)] /\ Last(list)[2] \in Word
<1> DEFINE n == (Len(p) - 1) \div 4
<1>1. /\ p[1] = 7 /\ ~(Len(p) < 5) /\ (Len(p) - 1) % 4 = 0
      /\ list = [k \in 1..n |-> <<At16(p, 4 * k - 2), At16(p, 4 * k)>>]
  BY DEF DecFindByTypeResp, Decoded
<1>2. Len(p) \in Nat /\ n \in Nat /\ n >= 1 /\ 4 * n = Len(p) - 1
  <2>1. \A m \in Nat : m >= 4 /\ m % 4 = 0 => m \div 4 \in Nat /\ m \div 4 >= 1 /\ 4 * (m \div 4) = m
    OBVIOUS
  <2>2. Len(p) \in Nat /\ Len(p) - 1 \in Nat /\ Len(p) - 1 >= 4
    BY <1>1 DEF Bytes
  <2> QED
    BY <1>1, <2>1, <2>2
<1> HIDE DEF n
<1>3. 4 * n \in 1..Len(p) /\ 4 * n < Len(p) /\ n \in 1..n
  BY <1>2
<1>4. At16(p, 4 * n) \in Word
  BY <1>3, NumberIs
<1>5. Len(list) = n /\ list[n] = <<At16(p, 4 * n - 2), At16(p, 4 * n)>>
  BY <1>1, <1>2, <1>3
<1>6. Last(list) = list[Len(list)]
  BY DEF Last
<1>7. Last(list)[2] = At16(p, 4 * n)
  BY <1>5, <1>6
<1> QED
  BY <1>1, <1>4, <1>6, <1>7

\* The status of a response is an octet.
LEMMA StatusIs ==
  ASSUME reply \in Bytes
  PROVE  Status \in Byte
<1>1. 0 \in Byte /\ Unlikely \in Byte
  BY DEF Byte, Unlikely
<1>2. ASSUME ~(Len(reply) < 5) PROVE reply[5] \in Byte
  BY <1>2 DEF Bytes
<1> QED
  BY <1>1, <1>2, Zenon DEF Status

\* The handle behind one, in sixteen bits.
LEMMA AfterIs ==
  ASSUME NEW n \in Word
  PROVE  /\ After(n) \in Word /\ n + 1 \in Nat
         /\ n # Highest => n + 1 \in Word /\ After(n) = n + 1
<1>1. n \in Nat /\ n <= 65535
  BY WordIs
<1>2. After(n) \in Nat /\ After(n) <= 65535 /\ (n # 65535 => n + 1 <= 65535 /\ After(n) = n + 1)
  BY <1>1 DEF After, Highest
<1> QED
  BY <1>1, <1>2, IsWord DEF Highest

\* What the callback of a response starts from.
LEMMA CalledBack ==
  ASSUME ProcInv, NEW cb, Callback(cb)
  PROVE  /\ \E r \in Req : /\ r = line[1] /\ r = Head(line) /\ r.cb = cb /\ r.pdu \in Bytes /\ Asks(r)
                           /\ \/ ~honest /\ reply[1] = 1 /\ Status \in Byte \ {0}
                              \/ ~honest /\ reply \in Odd /\ reply[1] = r.pdu[1] + 1
                              \/ Answered(r)
         /\ reply \in Bytes /\ Len(reply) >= 1 /\ reply' = <<>> /\ outcome = <<>>
         /\ call' = call /\ mtu' = mtu /\ attrs' = attrs /\ prepared' = prepared /\ honest' = honest
         /\ UNCHANGED <<device, mtu, call>>
         /\ cb # "resolve" => Tail(line) = <<>>
<1>1. line # <<>> /\ reply # <<>> /\ Head(line).cb = cb /\ reply' = <<>> /\ UNCHANGED <<device, mtu, call>>
  BY DEF Callback
<1>2. /\ outcome = <<>> /\ line[1] \in Req /\ Head(line) = line[1] /\ Asks(line[1])
      /\ line[1].pdu \in Bytes /\ (line[1].cb # "resolve" => Tail(line) = <<>>)
  BY <1>1, UnderWay
<1>3. PICK r : r = line[1]
  OBVIOUS
<1>4. \/ ~honest /\ reply[1] = 1 /\ Status \in Byte \ {0}
      \/ ~honest /\ reply \in Odd /\ reply[1] = r.pdu[1] + 1
      \/ Answered(r)
  BY <1>1, <1>3 DEF ProcInv, Heard
<1>5. reply \in Bytes /\ Len(reply) >= 1
  <2>1. reply \in Bytes
    BY ArgumentsAre
  <2>2. Len(reply) # 0
    BY <1>1, <2>1, EmptySeq DEF Bytes
  <2> QED
    BY <2>1, <2>2 DEF Bytes
<1>6. call' = call /\ mtu' = mtu /\ attrs' = attrs /\ prepared' = prepared /\ honest' = honest
  BY <1>1 DEF device
<1> QED
  BY <1>1, <1>2, <1>3, <1>4, <1>5, <1>6

\* The procedure is done.
LEMMA FinishStep ==
  ASSUME ProcInv, NEW cb, Callback(cb), cb # "resolve", NEW e, Finish(e),
         start' \in Word, offset' \in Word, err' \in Byte, buffer' \in Bytes,
         NEW b, buffer' = b, \A o : o.err = e /\ o.buffer = b => Complete(o)
  PROVE  ProcInv'
<1>1. /\ line' = Tail(line) \o <<>>
      /\ outcome' = Append(outcome, [err |-> e, found |-> found', buffer |-> buffer'])
  BY DEF Finish, Then
<1>2. /\ Tail(line) = <<>> /\ outcome = <<>> /\ reply' = <<>> /\ UNCHANGED <<device, mtu, call>>
  BY CalledBack
<1>3. line' = <<>>
  BY <1>1, <1>2
<1>4. PICK o : o = [err |-> e, found |-> found', buffer |-> buffer']
  OBVIOUS
<1>5. outcome' = <<o>>
  BY <1>1, <1>2, <1>4
<1>6. o.err = e /\ o.buffer = b
  BY <1>4
<1>7. Complete(o)
  BY <1>6
<1> QED
  BY <1>2, <1>3, <1>5, <1>7, EndNow

\* A discovery is done.
LEMMA FoundStep ==
  ASSUME ProcInv, NEW cb, Callback(cb), cb # "resolve", call.proc \notin {"read", "write"}, NEW e, Finish(e),
         start' \in Word, UNCHANGED <<buffer, offset, err>>
  PROVE  ProcInv'
<1>1. offset' \in Word /\ err' \in Byte /\ buffer' \in Bytes
  BY ArgumentsAre
<1>2. PICK b : b = buffer'
  OBVIOUS
<1>3. \A o : Complete(o)
  BY DEF Complete
<1> QED
  BY <1>1, <1>2, <1>3, FinishStep

\* The next request is sent.
LEMMA ThenStep ==
  ASSUME ProcInv, NEW cb, Callback(cb), cb # "resolve", NEW c \in Cbs, NEW p \in Bytes,
         Then(<<Request(c, p, 0)>>), UNCHANGED outcome,
         start' \in Word, offset' \in Word, err' \in Byte, buffer' \in Bytes
  PROVE  \E r \in Req : r.cb = c /\ r.pdu = p /\ (Asks(r)' => ProcInv')
<1>1. line' = Tail(line) \o <<Request(c, p, 0)>>
  BY DEF Then
<1>2. /\ Tail(line) = <<>> /\ outcome = <<>> /\ reply' = <<>> /\ UNCHANGED <<device, mtu, call>>
  BY CalledBack
<1>3. PICK r \in Req : r = Request(c, p, 0) /\ r.cb = c /\ r.pdu = p
  BY RequestIs
<1>4. line' = <<r>>
  <2>1. <<>> \o <<r>> = <<r>>
    OBVIOUS
  <2> QED
    BY <1>1, <1>2, <1>3, <2>1, Zenon
<1>5. Asks(r)' => ProcInv'
  BY <1>2, <1>4, SendOne
<1> QED
  BY <1>3, <1>5

----------------------------------------------------------------------------
(* The callbacks of discoveries *)

\* The services behind the last one found are asked for.
LEMMA PrimaryMoreStep ==
  ASSUME ProcInv, NEW cb \in {"primary_all", "primary_by_uuid"}, Callback(cb), NEW end \in Word, end # Highest,
         UNCHANGED <<buffer, offset, err>>, PrimaryMore(cb, end)
  PROVE  ProcInv'
<1>1. PICK q \in Req : q.cb = cb /\ Asks(q)
  BY CalledBack
<1>2. /\ call.proc = "primary" /\ call.proc \notin {"read", "write"}
      /\ cb = "primary_all" => call.uuid = <<>>
      /\ cb = "primary_by_uuid" => call.uuid # <<>>
  BY <1>1 DEF Asks
<1>3. cb # "resolve" /\ cb \in Cbs
  BY DEF Cbs
<1>4. start \in Word /\ offset' \in Word /\ err' \in Byte /\ buffer' \in Bytes
  BY ArgumentsAre
<1>5. CASE end < start
  <2>1. Finish(Unlikely) /\ start' = start
    BY <1>5 DEF PrimaryMore
  <2> QED
    BY <1>2, <1>3, <1>4, <2>1, FoundStep
<1>6. CASE ~(end < start)
  <2> DEFINE p == EncodeDiscoverPrimary(end + 1, Highest, call.uuid)
  <2>1. start' = end + 1 /\ Then(<<Request(cb, p, 0)>>) /\ outcome' = outcome
    BY <1>6 DEF PrimaryMore
  <2>2. end + 1 \in Word
    BY AfterIs
  <2>3. start' \in Word
    BY <2>1, <2>2
  <2>4. p \in Bytes
    <3>1. /\ Highest \in Word /\ PrimSvc \in Bytes /\ Len(PrimSvc) = 2
          /\ call.uuid \in Bytes /\ mtu \in Nat /\ 7 <= mtu
      BY ArgumentsAre, TypesAre
    <3>2. PutUuidLe(call.uuid) \in Bytes
      BY <3>1, ReverseTwice DEF PutUuidLe
    <3>3. EncReadByGrpReq(end + 1, Highest, PrimSvc) \in Bytes
      BY <2>2, <3>1, ReadByGrpReqIs
    <3>4. EncFindByTypeReq(end + 1, Highest, PrimSvc, PutUuidLe(call.uuid), mtu) \in Bytes
      BY <2>2, <3>1, <3>2, FindByTypeReqIs DEF Searching
    <3> QED
      BY <3>3, <3>4 DEF EncodeDiscoverPrimary
  <2>5. cb = "primary_all" => p = EncReadByGrpReq(start', Highest, PrimSvc)
    BY <1>2, <2>1 DEF EncodeDiscoverPrimary
  <2>6. cb = "primary_by_uuid" => p = EncFindByTypeReq(start', Highest, PrimSvc, PutUuidLe(call.uuid), mtu)
    BY <1>2, <2>1 DEF EncodeDiscoverPrimary
  <2> HIDE DEF p
  <2>7. PICK r \in Req : r.cb = cb /\ r.pdu = p /\ (Asks(r)' => ProcInv')
    BY <1>3, <1>4, <2>1, <2>3, <2>4, ThenStep
  <2>8. call' = call /\ mtu' = mtu
    BY CalledBack
  <2>9. Asks(r)'
    BY <1>2, <2>5, <2>6, <2>7, <2>8 DEF Asks
  <2> QED
    BY <2>7, <2>9
<1> QED
  BY <1>5, <1>6

\* primary_all_cb goes on or ends.
LEMMA PrimaryAllStep ==
  ASSUME ProcInv, PrimaryAllCb
  PROVE  ProcInv'
<1>1. Callback("primary_all") /\ UNCHANGED <<buffer, offset, err>> /\ "primary_all" # "resolve"
  BY DEF PrimaryAllCb
<1>2. PICK q \in Req : q.cb = "primary_all" /\ Asks(q)
  BY <1>1, CalledBack
<1>3. call.proc \notin {"read", "write"}
  BY <1>2 DEF Asks
<1>4. start \in Word /\ reply \in Bytes
  BY ArgumentsAre
<1>5. \A e : Finish(e) /\ start' = start => ProcInv'
  BY <1>1, <1>3, <1>4, FoundStep
<1>6. \A e : Failed(e) => ProcInv'
  BY <1>5 DEF Failed
<1>7. \/ \E e : Failed(e)
      \/ \E list \in DecReadByGrpResp(reply) :
           IF At16(Last(list), 3) = Highest THEN Finish(0) /\ UNCHANGED start
           ELSE PrimaryMore("primary_all", At16(Last(list), 3))
  BY Zenon DEF PrimaryAllCb
<1>8. ASSUME NEW list \in DecReadByGrpResp(reply),
             IF At16(Last(list), 3) = Highest THEN Finish(0) /\ UNCHANGED start
             ELSE PrimaryMore("primary_all", At16(Last(list), 3))
      PROVE  ProcInv'
  <2>1. At16(Last(list), 3) \in Word
    BY <1>4, GroupsDecoded
  <2>2. PICK end \in Word : end = At16(Last(list), 3)
    BY <2>1
  <2>3. CASE end = Highest
    BY <1>5, <1>8, <2>2, <2>3
  <2>4. CASE end # Highest
    <3>1. PrimaryMore("primary_all", end)
      BY <1>8, <2>2, <2>4
    <3> QED
      BY <1>1, <2>4, <3>1, PrimaryMoreStep
  <2> QED
    BY <2>3, <2>4
<1> QED
  BY <1>6, <1>7, <1>8

\* primary_by_uuid_cb goes on or ends.
LEMMA PrimaryByUuidStep ==
  ASSUME ProcInv, PrimaryByUuidCb
  PROVE  ProcInv'
<1>1. Callback("primary_by_uuid") /\ UNCHANGED <<buffer, offset, err>> /\ "primary_by_uuid" # "resolve"
  BY DEF PrimaryByUuidCb
<1>2. PICK q \in Req : q.cb = "primary_by_uuid" /\ Asks(q)
  BY <1>1, CalledBack
<1>3. call.proc \notin {"read", "write"}
  BY <1>2 DEF Asks
<1>4. start \in Word /\ reply \in Bytes
  BY ArgumentsAre
<1>5. \A e : Finish(e) /\ start' = start => ProcInv'
  BY <1>1, <1>3, <1>4, FoundStep
<1>6. \A e : Failed(e) => ProcInv'
  BY <1>5 DEF Failed
<1>7. \/ \E e : Failed(e)
      \/ \E list \in DecFindByTypeResp(reply) :
           IF Last(list)[2] = Highest THEN Finish(0) /\ UNCHANGED start
           ELSE PrimaryMore("primary_by_uuid", Last(list)[2])
  BY Zenon DEF PrimaryByUuidCb
<1>8. ASSUME NEW list \in DecFindByTypeResp(reply),
             IF Last(list)[2] = Highest THEN Finish(0) /\ UNCHANGED start
             ELSE PrimaryMore("primary_by_uuid", Last(list)[2])
      PROVE  ProcInv'
  <2>1. Last(list)[2] \in Word
    BY <1>4, RangesDecoded
  <2>2. PICK end \in Word : end = Last(list)[2]
    BY <2>1
  <2>3. CASE end = Highest
    BY <1>5, <1>8, <2>2, <2>3
  <2>4. CASE end # Highest
    <3>1. PrimaryMore("primary_by_uuid", end)
      BY <1>8, <2>2, <2>4
    <3> QED
      BY <1>1, <2>4, <3>1, PrimaryMoreStep
  <2> QED
    BY <2>3, <2>4
<1> QED
  BY <1>6, <1>7, <1>8

\* char_discovered_cb goes on or ends.
LEMMA CharStep ==
  ASSUME ProcInv, CharDiscoveredCb
  PROVE  ProcInv'
<1>1. Callback("char") /\ UNCHANGED <<buffer, offset, err>> /\ "char" # "resolve"
  BY DEF CharDiscoveredCb
<1>2. PICK q \in Req : q.cb = "char" /\ Asks(q)
  BY <1>1, CalledBack
<1>3. call.proc = "char" /\ call.proc \notin {"read", "write"}
  BY <1>2 DEF Asks
<1>4. start \in Word /\ reply \in Bytes /\ call.end \in Word
  BY ArgumentsAre
<1>5. \A e : Finish(e) /\ start' \in Word => ProcInv'
  BY <1>1, <1>3, FoundStep
<1>6. \A e : Failed(e) => ProcInv'
  BY <1>4, <1>5 DEF Failed
<1>7. \/ \E e : Failed(e)
      \/ \E list \in DecReadByTypeResp(reply) :
           \/ Finish(Unlikely) /\ UNCHANGED start
           \/ start' = After(At16(Last(list), 1)) /\ Finish(0)
           \/ /\ start' = After(At16(Last(list), 1))
              /\ Then(<<Request("char", EncReadByTypeReq(start', call.end, Charac), 0)>>)
              /\ UNCHANGED outcome
  BY Zenon DEF CharDiscoveredCb, NothingMore
<1>8. ASSUME NEW list \in DecReadByTypeResp(reply)
      PROVE  After(At16(Last(list), 1)) \in Word
  BY <1>4, ValuesDecoded, AfterIs
<1>9. ASSUME NEW s \in Word, start' = s, UNCHANGED outcome,
             Then(<<Request("char", EncReadByTypeReq(start', call.end, Charac), 0)>>)
      PROVE  ProcInv'
  <2> DEFINE p == EncReadByTypeReq(s, call.end, Charac)
  <2>1. p \in Bytes
    <3>1. Charac \in Bytes /\ Len(Charac) \in {2, 16}
      BY TypesAre
    <3> QED
      BY <1>4, <3>1, ReadByTypeReqIs
  <2>2. Then(<<Request("char", p, 0)>>)
    BY <1>9
  <2> HIDE DEF p
  <2>3. offset' \in Word /\ err' \in Byte /\ buffer' \in Bytes
    BY <1>1, ArgumentsAre
  <2>4. PICK r \in Req : r.cb = "char" /\ r.pdu = p /\ (Asks(r)' => ProcInv')
    BY <1>1, <1>9, <2>1, <2>2, <2>3, ThenStep DEF Cbs
  <2>5. call' = call
    BY <1>1, CalledBack
  <2>6. Asks(r)'
    BY <1>3, <1>9, <2>4, <2>5 DEF Asks, p
  <2> QED
    BY <2>4, <2>6
<1>10. ASSUME NEW list \in DecReadByTypeResp(reply),
              \/ Finish(Unlikely) /\ UNCHANGED start
              \/ start' = After(At16(Last(list), 1)) /\ Finish(0)
              \/ /\ start' = After(At16(Last(list), 1))
                 /\ Then(<<Request("char", EncReadByTypeReq(start', call.end, Charac), 0)>>)
                 /\ UNCHANGED outcome
       PROVE  ProcInv'
  <2>1. PICK s \in Word : s = After(At16(Last(list), 1))
    BY <1>8
  <2>2. CASE Finish(Unlikely) /\ UNCHANGED start
    BY <1>4, <1>5, <2>2
  <2>3. CASE start' = s /\ Finish(0)
    BY <1>5, <2>3
  <2>4. CASE /\ start' = s /\ UNCHANGED outcome
             /\ Then(<<Request("char", EncReadByTypeReq(start', call.end, Charac), 0)>>)
    BY <1>9, <2>4
  <2> QED
    BY <1>10, <2>1, <2>2, <2>3, <2>4
<1> QED
  BY <1>6, <1>7, <1>10

\* desc_discovered_cb goes on or ends.
LEMMA DescStep ==
  ASSUME ProcInv, DescDiscoveredCb
  PROVE  ProcInv'
<1>1. Callback("desc") /\ UNCHANGED <<buffer, offset, err>> /\ "desc" # "resolve"
  BY DEF DescDiscoveredCb
<1>2. PICK q \in Req : q.cb = "desc" /\ Asks(q)
  BY <1>1, CalledBack
<1>3. call.proc = "desc" /\ call.proc \notin {"read", "write"}
  BY <1>2 DEF Asks
<1>4. start \in Word /\ reply \in Bytes /\ call.end \in Word
  BY ArgumentsAre
<1>5. \A e : Finish(e) /\ start' \in Word => ProcInv'
  BY <1>1, <1>3, FoundStep
<1>6. \A e : Failed(e) => ProcInv'
  BY <1>4, <1>5 DEF Failed
<1> DEFINE Hit(info) == IF call.uuid = <<>> THEN 0
                        ELSE FirstMatch(info.list, {e \in ToSet(info.list) : Wanted(Descriptor(e).uuid)})
           Seen(info) == IF Hit(info) = 0 THEN info.list ELSE SubSeq(info.list, 1, Hit(info))
           Final(info) == IF Seen(info) = <<>> THEN Highest ELSE At16(Last(Seen(info)), 1)
<1>7. \/ \E e : Failed(e)
      \/ \E info \in DecFindInfoResp(reply) :
           \/ Finish(Unlikely) /\ UNCHANGED start
           \/ start' = After(Final(info)) /\ Finish(0)
           \/ /\ start' = After(Final(info))
              /\ Then(<<Request("desc", EncFindInfoReq(start', call.end), 0)>>)
              /\ UNCHANGED outcome
  BY Zenon DEF DescDiscoveredCb, NothingMore
<1>8. ASSUME NEW info \in DecFindInfoResp(reply)
      PROVE  Final(info) \in Word
  <2>1. info.list \in Seq(Bytes) /\ Len(info.list) \in Nat /\ SubSeq(info.list, 1, Len(info.list)) = info.list
    <3>1. \E list : list = info.list
      OBVIOUS
    <3>2. info.list \in Seq(Bytes)
      BY <1>4, InfoIs
    <3> QED
      BY <3>2
  <2>2. PICK n \in 0..Len(info.list) : Seen(info) = SubSeq(info.list, 1, n)
    <3>1. CASE Hit(info) = 0
      BY <2>1, <3>1
    <3>2. CASE Hit(info) # 0
      <4>1. Hit(info) \in 0..Len(info.list)
        BY <2>1, <3>2, FirstMatchQueue
      <4> QED
        BY <3>2, <4>1
    <3> QED
      BY <3>1, <3>2
  <2> HIDE DEF Seen
  <2>3. Len(Seen(info)) = n /\ (n >= 1 => At16(Last(Seen(info)), 1) \in Word)
    BY <1>4, <2>2, TypesDecoded
  <2>4. Highest \in Word
    BY TypesAre
  <2>5. Seen(info) # <<>> => n >= 1
    BY <2>1, <2>2, <2>3
  <2> QED
    BY <2>3, <2>4, <2>5
<1> HIDE DEF Hit, Seen, Final
<1>9. ASSUME NEW s \in Word, start' = s, UNCHANGED outcome,
             Then(<<Request("desc", EncFindInfoReq(start', call.end), 0)>>)
      PROVE  ProcInv'
  <2> DEFINE p == EncFindInfoReq(s, call.end)
  <2>1. p \in Bytes
    BY <1>4, FindInfoReqIs
  <2>2. Then(<<Request("desc", p, 0)>>)
    BY <1>9
  <2> HIDE DEF p
  <2>3. offset' \in Word /\ err' \in Byte /\ buffer' \in Bytes
    BY <1>1, ArgumentsAre
  <2>4. PICK r \in Req : r.cb = "desc" /\ r.pdu = p /\ (Asks(r)' => ProcInv')
    BY <1>1, <1>9, <2>1, <2>2, <2>3, ThenStep DEF Cbs
  <2>5. call' = call
    BY <1>1, CalledBack
  <2>6. Asks(r)'
    BY <1>3, <1>9, <2>4, <2>5 DEF Asks, p
  <2> QED
    BY <2>4, <2>6
<1>10. ASSUME NEW info \in DecFindInfoResp(reply),
              \/ Finish(Unlikely) /\ UNCHANGED start
              \/ start' = After(Final(info)) /\ Finish(0)
              \/ /\ start' = After(Final(info))
                 /\ Then(<<Request("desc", EncFindInfoReq(start', call.end), 0)>>)
                 /\ UNCHANGED outcome
       PROVE  ProcInv'
  <2>1. PICK s \in Word : s = After(Final(info))
    BY <1>8, AfterIs
  <2>2. CASE Finish(Unlikely) /\ UNCHANGED start
    BY <1>4, <1>5, <2>2
  <2>3. CASE start' = s /\ Finish(0)
    BY <1>5, <2>3
  <2>4. CASE /\ start' = s /\ UNCHANGED outcome
             /\ Then(<<Request("desc", EncFindInfoReq(start', call.end), 0)>>)
    BY <1>9, <2>4
  <2> QED
    BY <1>10, <2>1, <2>2, <2>3, <2>4
<1> QED
  BY <1>6, <1>7, <1>10

\* What a status says of the response.
LEMMA StatusOf ==
  /\ reply[1] # 1 => Status = 0
  /\ Status # 0 => reply[1] = 1
BY DEF Status

\* A response that is not of the protocol has an opcode that the callbacks of values do not look for.
LEMMA OddIs ==
  ASSUME NEW x, reply \in Odd, reply[1] = x + 1, x \in {10, 12, 18, 22, 24, 2}
  PROVE  FALSE
BY OddAssumption

\* The callback of the caller ends the procedure.
LEMMA CallerStep ==
  ASSUME ProcInv, CallerCb
  PROVE  ProcInv'
<1>1. /\ Callback("caller") /\ UNCHANGED <<start, found, offset, err>> /\ "caller" # "resolve"
      /\ buffer' = Octets(reply, 2) /\ Finish(Status)
  BY DEF CallerCb
<1>2. PICK q \in Req :
        /\ q.cb = "caller" /\ Asks(q)
        /\ \/ ~honest
           \/ Answered(q)
  BY <1>1, CalledBack
<1>3. reply \in Bytes /\ Len(reply) \in Nat /\ Len(reply) >= 1
  BY <1>1, CalledBack DEF Bytes
<1>4. 2 \in 1..(Len(reply) + 1)
  BY <1>3
<1>5. buffer' \in Bytes
  BY <1>1, <1>3, <1>4, OctetsIs
<1>6. start' \in Word /\ offset' \in Word /\ err' \in Byte
  BY <1>1, ArgumentsAre
<1>7. call.proc # "read"
  BY <1>2 DEF Asks, AsksCaller
<1>8. ASSUME honest, call.proc = "write"
      PROVE  Status = 0 /\ Held = call.value /\ prepared = <<>>
  <2>1. reply \in {EncWriteResp, EncExecWriteResp} /\ Held = call.value /\ prepared = <<>>
    BY <1>2, <1>8 DEF Answered
  <2>2. reply[1] # 1
    BY <2>1, ShortPackets
  <2> QED
    BY <2>1, <2>2, StatusOf
<1>9. PICK b : b = buffer'
  OBVIOUS
<1>10. \A o : o.err = Status => Complete(o)
  BY <1>7, <1>8 DEF Complete
<1> QED
  BY <1>1, <1>5, <1>6, <1>9, <1>10, FinishStep

\* A first part of a value that has been read.
LEMMA ReadStep ==
  ASSUME ProcInv, ReadCharHelper
  PROVE  ProcInv'
<1>1. /\ Callback("read") /\ UNCHANGED <<start, found, offset, err>> /\ "read" # "resolve"
      /\ buffer' = Octets(reply, 2)
      /\ IF Status # 0 \/ ReadAll(reply) THEN Finish(Status) ELSE Blob(Len(reply) - 1) /\ UNCHANGED outcome
  BY DEF ReadCharHelper
<1>2. PICK q \in Req :
        /\ q.cb = "read" /\ Asks(q)
        /\ \/ ~honest /\ reply[1] = 1 /\ Status \in Byte \ {0}
           \/ ~honest /\ reply \in Odd /\ reply[1] = q.pdu[1] + 1
           \/ Answered(q)
  BY <1>1, CalledBack
<1>3. reply \in Bytes /\ Len(reply) \in Nat /\ Len(reply) >= 1
  BY <1>1, CalledBack DEF Bytes
<1>4. 2 \in 1..(Len(reply) + 1)
  BY <1>3
<1>5. buffer' \in Bytes /\ Len(buffer') = Len(reply) - 1
  <2>1. Octets(reply, 2) \in Bytes /\ Len(Octets(reply, 2)) = Len(reply) + 1 - 2
    BY <1>3, <1>4, OctetsIs
  <2> QED
    BY <1>1, <1>3, <2>1
<1>6. start' \in Word /\ offset' \in Word /\ err' \in Byte
  BY <1>1, ArgumentsAre
<1>7. call.proc = "read" /\ q.pdu[1] = 10
  <2>1. call.proc = "read" /\ q.pdu = EncReadReq(call.handle)
    BY <1>2 DEF Asks
  <2> QED
    BY <2>1, ArgumentsAre, ReadReqIs
<1>8. /\ Held \in Bytes /\ Len(Held) \in Nat /\ Len(Held) <= Highest
      /\ mtu \in Nat /\ 23 <= mtu /\ mtu - 1 \in Nat
  BY <1>7, ArgumentsAre, HeldIs
<1>9. CASE Answered(q)
  <2>1. reply = EncReadResp(Held, mtu)
    BY <1>2, <1>9 DEF Answered
  <2>2. Len(reply) = 1 + Least(Len(Held), mtu - 1) /\ reply[1] = 11 /\ Octets(reply, 2) = Upto(Held, mtu - 1)
    BY <1>8, <2>1, ReadRespIs
  <2>3. Status = 0
    BY <2>2, StatusOf
  <2>4. CASE ReadAll(reply)
    <3>1. Len(Held) < mtu - 1
      BY <1>8, <2>2, <2>4 DEF ReadAll, Least
    <3>2. buffer' = Held
      <4>1. Len(Held) <= mtu - 1
        BY <1>8, <3>1
      <4> QED
        BY <1>1, <2>2, <4>1 DEF Upto
    <3>3. PICK b : b = buffer'
      OBVIOUS
    <3>4. ASSUME NEW o, o.err = 0, o.buffer = b PROVE Complete(o)
      <4>1. prepared = <<>>
        BY <1>7 DEF ProcInv, Fixed
      <4> QED
        BY <1>7, <3>2, <3>3, <3>4, <4>1 DEF Complete
    <3>5. Finish(0)
      BY <1>1, <2>3, <2>4
    <3> QED
      BY <1>1, <1>5, <1>6, <3>3, <3>4, <3>5, FinishStep
  <2>5. CASE ~ReadAll(reply)
    <3>1. mtu - 1 <= Len(Held) /\ Len(reply) = mtu
      BY <1>8, <2>2, <2>5 DEF ReadAll, Least
    <3>2. buffer' = SubSeq(Held, 1, mtu - 1) /\ Len(buffer') = mtu - 1
      <4>1. SubSeq(Held, 1, Len(Held)) = Held
        <5>1. Held \in Seq(Byte)
          BY <1>8 DEF Bytes
        <5> QED
          BY <5>1
      <4>2. Upto(Held, mtu - 1) = SubSeq(Held, 1, mtu - 1)
        <5>1. Len(Held) <= mtu - 1 => Len(Held) = mtu - 1
          BY <1>8, <3>1
        <5> QED
          BY <4>1, <5>1 DEF Upto
      <4> QED
        BY <1>1, <1>5, <2>2, <3>1, <4>2
    <3>3. PICK m \in Word : m = mtu - 1
      <4>1. mtu - 1 <= 65535
        BY <1>8, ArgumentsAre, WordIs
      <4> QED
        BY <1>8, <4>1, IsWord
    <3> DEFINE p == EncReadBlobReq(call.handle, m)
    <3>4. p \in Bytes
      BY <3>3, ArgumentsAre, ReadBlobReqIs
    <3>5. Then(<<Request("blob", p, 0)>>) /\ outcome' = outcome
      BY <1>1, <2>3, <2>5, <3>1, <3>3 DEF Blob
    <3> HIDE DEF p
    <3>6. PICK r \in Req : r.cb = "blob" /\ r.pdu = p /\ (Asks(r)' => ProcInv')
      BY <1>1, <1>5, <1>6, <3>4, <3>5, ThenStep DEF Cbs
    <3>7. call' = call /\ attrs' = attrs /\ mtu' = mtu
      BY <1>1, CalledBack
    <3>8. Held' = Held
      BY <3>7 DEF Held
    <3>9. AsksBlob(r)'
      <4>1. Len(buffer') = m /\ buffer' = SubSeq(Held, 1, Len(buffer')) /\ mtu - 1 <= Len(buffer')
            /\ Len(buffer') <= Len(Held)
        BY <1>8, <3>1, <3>2, <3>3
      <4> QED
        BY <1>7, <3>6, <3>7, <3>8, <4>1 DEF AsksBlob, p
    <3>10. Asks(r)'
      BY <3>6, <3>9 DEF Asks
    <3> QED
      BY <3>6, <3>10
  <2> QED
    BY <2>4, <2>5
<1>10. CASE ~honest /\ reply[1] = 1 /\ Status \in Byte \ {0}
  <2>1. Finish(Status)
    BY <1>1, <1>10
  <2>2. PICK b : b = buffer'
    OBVIOUS
  <2>3. \A o : Complete(o)
    BY <1>10 DEF Complete
  <2> QED
    BY <1>1, <1>5, <1>6, <2>1, <2>2, <2>3, FinishStep
<1>11. CASE ~honest /\ reply \in Odd /\ reply[1] = q.pdu[1] + 1
  BY <1>7, <1>11, OddIs
<1> QED
  BY <1>2, <1>9, <1>10, <1>11

\* The value read so far, with the part that a response carries.
LEMMA BlobPart ==
  ASSUME NEW v \in Bytes, NEW m \in Nat, m <= Len(v), NEW len \in Nat, 1 <= len
  PROVE  LET p == EncReadBlobResp(v, m, len)
             x == Octets(p, 2)
         IN /\ p[1] = 13 /\ x \in Bytes /\ Len(x) \in Nat /\ Len(p) = 1 + Len(x)
            /\ Len(x) = Least(Len(v) - m, len - 1) /\ m + Len(x) \in 0..Len(v)
            /\ SubSeq(v, 1, m) \o x = SubSeq(v, 1, m + Len(x))
<1> DEFINE p == EncReadBlobResp(v, m, len)
           x == Octets(p, 2)
<1>1. Len(v) \in Nat /\ m + 1 \in 1..(Len(v) + 1) /\ 5 \in Nat
  BY DEF Bytes
<1>a. PICK l \in Nat : 5 <= l /\ l - 5 = len - 1
  <2>1. len + 4 \in Nat /\ 5 <= len + 4 /\ (len + 4) - 5 = len - 1
    OBVIOUS
  <2> QED
    BY <2>1
<1> DEFINE y == Fitting(Octets(v, m + 1), 5, l)
<1>2. p[1] = 13 /\ x = Upto(Octets(v, m + 1), len - 1) /\ Len(p) = 1 + Least(Len(v) - m, len - 1)
  BY BlobRespIs
<1>3. /\ y \in Bytes /\ Len(y) \in Nat /\ Len(y) = Least(Len(v) - m, len - 1)
      /\ m + Len(y) \in 0..Len(v) /\ SubSeq(v, 1, m) \o y = SubSeq(v, 1, m + Len(y))
  <2>1. /\ y \in Bytes /\ Len(y) \in Nat /\ Len(y) = Least(Len(v) - m, l - 5)
        /\ m + Len(y) \in 0..Len(v) /\ SubSeq(v, 1, m) \o y = SubSeq(v, 1, m + Len(y))
    BY <1>a, PieceIs
  <2> HIDE DEF y
  <2> QED
    BY <1>a, <2>1, Zenon
<1>4. Octets(v, m + 1) \in Bytes
  BY <1>1, OctetsIs
<1>5. y = Upto(Octets(v, m + 1), len - 1)
  <2>1. y = Upto(Octets(v, m + 1), l - 5)
    BY <1>1, <1>a, <1>4, FittingIs
  <2> QED
    BY <1>a, <2>1, Zenon
<1> HIDE DEF p, x, y
<1>6. x = y
  BY <1>2, <1>5
<1> QED
  BY <1>2, <1>3, <1>6 DEF p, x

\* What a request for the rest of a value starts from.
BlobState(v, m, h, u) ==
  /\ v = Held /\ v \in Bytes /\ Len(v) = h /\ SubSeq(v, 1, h) = v
  /\ m = Len(buffer) /\ buffer = SubSeq(v, 1, m) /\ u = mtu

\* A request for the rest of a value is sent in such a state.
LEMMA BlobFrom ==
  ASSUME ProcInv, NEW q \in Req, q.cb = "blob", Asks(q)
  PROVE  /\ call.proc = "read" /\ q.pdu = EncReadBlobReq(call.handle, Len(buffer)) /\ q.pdu[1] = 12
         /\ \E v \in Bytes, m, h, u \in Nat :
              /\ BlobState(v, m, h, u)
              /\ 23 <= u /\ u - 1 <= m /\ m <= h /\ h <= 65535
<1>1. /\ call.proc = "read" /\ q.pdu = EncReadBlobReq(call.handle, Len(buffer))
      /\ mtu - 1 <= Len(buffer) /\ Len(buffer) <= Len(Held) /\ buffer = SubSeq(Held, 1, Len(buffer))
  BY DEF Asks, AsksBlob
<1>2. Held \in Bytes /\ Len(Held) \in Nat /\ Len(Held) <= 65535
  BY <1>1, HeldIs DEF Highest
<1>3. SubSeq(Held, 1, Len(Held)) = Held
  <2>1. Held \in Seq(Byte)
    BY <1>2 DEF Bytes
  <2> QED
    BY <2>1
<1>4. mtu \in Nat /\ 23 <= mtu /\ buffer \in Bytes /\ call.handle \in Word
  BY ArgumentsAre
<1>5. Len(buffer) \in Nat
  BY <1>4 DEF Bytes
<1>6. Len(buffer) <= Len(Held) /\ mtu - 1 <= Len(buffer)
  BY <1>1
<1>7. Len(buffer) <= 65535
  BY <1>2, <1>5, <1>6
<1>8. Len(buffer) \in Word
  BY <1>5, <1>7, IsWord
<1>9. EncReadBlobReq(call.handle, Len(buffer))[1] = 12
  BY <1>4, <1>8, ReadBlobReqIs
<1>10. BlobState(Held, Len(buffer), Len(Held), mtu)
  BY <1>1, <1>2, <1>3 DEF BlobState
<1>11. \E v \in Bytes, m, h, u \in Nat :
         /\ BlobState(v, m, h, u)
         /\ 23 <= u /\ u - 1 <= m /\ m <= h /\ h <= 65535
  BY <1>2, <1>4, <1>5, <1>6, <1>10
<1> QED
  BY <1>1, <1>9, <1>11

\* The value is read to its end.
LEMMA BlobDone ==
  ASSUME ProcInv, Callback("blob"), UNCHANGED <<start, found, offset, err>>, Finish(0),
         buffer' = Held, call.proc = "read"
  PROVE  ProcInv'
<1>1. PICK b : b = buffer'
  OBVIOUS
<1>2. prepared = <<>>
  BY DEF ProcInv, Fixed
<1>3. ASSUME NEW o, o.err = 0, o.buffer = b PROVE Complete(o)
  BY <1>1, <1>2, <1>3 DEF Complete
<1>4. Held \in Bytes
  BY HeldIs
<1>5. start' \in Word /\ offset' \in Word /\ err' \in Byte /\ buffer' \in Bytes
  BY <1>4, ArgumentsAre
<1> QED
  BY <1>1, <1>3, <1>5, FinishStep

\* There is more of it.
LEMMA BlobMore ==
  ASSUME ProcInv, Callback("blob"), UNCHANGED <<start, found, offset, err>>, call.proc = "read",
         NEW k \in Nat, k <= Len(Held), mtu - 1 <= k, k <= 65535,
         buffer' = SubSeq(Held, 1, k), Blob(Len(buffer')), UNCHANGED outcome
  PROVE  ProcInv'
<1>1. Held \in Bytes
  BY HeldIs
<1>2. SubSeq(Held, 1, k) \in Bytes /\ Len(SubSeq(Held, 1, k)) = k
  BY <1>1, StartIs
<1>3. buffer' \in Bytes /\ Len(buffer') = k
  BY <1>2
<1>4. PICK w \in Word : w = k
  BY IsWord
<1> DEFINE p == EncReadBlobReq(call.handle, w)
<1>5. p \in Bytes
  BY ArgumentsAre, ReadBlobReqIs
<1>6. Then(<<Request("blob", p, 0)>>)
  BY <1>3, <1>4 DEF Blob
<1> HIDE DEF p
<1>7. start' \in Word /\ offset' \in Word /\ err' \in Byte /\ call' = call /\ attrs' = attrs /\ mtu' = mtu
  BY ArgumentsAre, CalledBack
<1>8. PICK r \in Req : r.cb = "blob" /\ r.pdu = p /\ (Asks(r)' => ProcInv')
  BY <1>3, <1>5, <1>6, <1>7, ThenStep DEF Cbs
<1>9. Held' = Held
  BY <1>7 DEF Held
<1>10. buffer' = SubSeq(Held, 1, Len(buffer'))
  BY <1>3
<1>11. AsksBlob(r)'
  BY <1>3, <1>4, <1>7, <1>8, <1>9, <1>10 DEF AsksBlob, p
<1>12. Asks(r)'
  BY <1>8, <1>11 DEF Asks
<1> QED
  BY <1>8, <1>12

\* read_blob_helper goes on or ends.
LEMMA BlobStep ==
  ASSUME ProcInv, ReadBlobHelper
  PROVE  ProcInv'
<1>1. /\ Callback("blob") /\ UNCHANGED <<start, found, offset, err>> /\ "blob" # "resolve"
      /\ Status # 0 \/ Len(reply) = 1 => buffer' = buffer /\ Finish(0)
      /\ ~(Status # 0 \/ Len(reply) = 1) =>
           /\ buffer' = buffer \o Octets(reply, 2)
           /\ IF ReadAll(reply) THEN Finish(0) ELSE Blob(Len(buffer')) /\ UNCHANGED outcome
  BY DEF ReadBlobHelper
<1>2. PICK q \in Req :
        /\ q.cb = "blob" /\ Asks(q)
        /\ \/ ~honest /\ reply[1] = 1 /\ Status \in Byte \ {0}
           \/ ~honest /\ reply \in Odd /\ reply[1] = q.pdu[1] + 1
           \/ Answered(q)
  BY <1>1, CalledBack
<1>3. call.proc = "read" /\ q.pdu[1] = 12
  BY <1>2, BlobFrom
<1>4. PICK v \in Bytes, m, h, u \in Nat :
        /\ BlobState(v, m, h, u)
        /\ 23 <= u /\ u - 1 <= m /\ m <= h /\ h <= 65535
  BY <1>2, BlobFrom
<1>5. /\ v = Held /\ Len(v) = h /\ SubSeq(v, 1, h) = v
      /\ m = Len(buffer) /\ buffer = SubSeq(v, 1, m) /\ u = mtu
  BY <1>4 DEF BlobState
<1>6. ASSUME buffer' = v, Finish(0) PROVE ProcInv'
  BY <1>1, <1>3, <1>5, <1>6, BlobDone
<1>7. m = h => buffer = v
  BY <1>5
<1>8. CASE Answered(q)
  <2>1. \/ Len(Held) < mtu /\ reply = EncErrorResp(12, call.handle, NotLong)
        \/ reply = EncReadBlobResp(Held, Len(buffer), mtu)
    BY <1>2, <1>8 DEF Answered
  <2>2. CASE Len(Held) < mtu /\ reply = EncErrorResp(12, call.handle, NotLong)
    <3>1. h < u
      BY <1>5, <2>2
    <3>2. h = m
      BY <1>4, <3>1
    <3>3. 12 \in Byte /\ NotLong \in Byte /\ NotLong # 0
      BY DEF Byte, NotLong
    <3>4. call.handle \in Word
      BY ArgumentsAre
    <3>5. reply[1] = 1 /\ reply[5] = NotLong /\ Len(reply) = 5
      BY <2>2, <3>3, <3>4, ErrorRespIs
    <3>6. Status # 0
      BY <3>3, <3>5 DEF Status
    <3> QED
      BY <1>1, <1>6, <1>7, <3>2, <3>6
  <2>3. CASE reply = EncReadBlobResp(Held, Len(buffer), mtu)
    <3> DEFINE x == Octets(reply, 2)
    <3>1. reply = EncReadBlobResp(v, m, u)
      BY <1>5, <2>3
    <3>2. m <= Len(v) /\ 1 <= u
      BY <1>4, <1>5
    <3>3. /\ reply[1] = 13 /\ x \in Bytes /\ Len(x) \in Nat /\ Len(reply) = 1 + Len(x)
          /\ Len(x) = Least(Len(v) - m, u - 1) /\ m + Len(x) \in 0..Len(v)
          /\ SubSeq(v, 1, m) \o x = SubSeq(v, 1, m + Len(x))
      BY <3>1, <3>2, BlobPart
    <3> HIDE DEF x
    <3>4. PICK n \in Nat : n = Len(x)
      BY <3>3
    <3>5. Len(reply) = 1 + n /\ n = Least(h - m, u - 1) /\ m + n <= h
      BY <1>5, <3>3, <3>4
    <3>6. buffer \o x = SubSeq(v, 1, m + n)
      BY <1>5, <3>3, <3>4
    <3>7. Status = 0
      BY <3>3, StatusOf
    <3>8. CASE Len(reply) = 1
      <4>1. m = h
        <5>1. n = 0
          <6>1. 1 + n = 1
            BY <3>5, <3>8, Zenon
          <6> QED
            BY <6>1
        <5>2. u - 1 > 0 /\ h - m \in Nat
          BY <1>4
        <5>3. h - m = 0
          BY <3>5, <5>1, <5>2 DEF Least
        <5> QED
          BY <5>3
      <4> QED
        BY <1>1, <1>6, <1>7, <3>8, <4>1
    <3>9. CASE Len(reply) # 1 /\ ReadAll(reply)
      <4>1. 1 + n < u
        BY <1>5, <3>5, <3>9 DEF ReadAll
      <4>2. m + n = h
        BY <1>4, <3>5, <4>1 DEF Least
      <4>3. buffer' = buffer \o x /\ Finish(0)
        BY <1>1, <3>7, <3>9 DEF x
      <4> QED
        BY <1>5, <1>6, <3>6, <4>2, <4>3
    <3>10. CASE Len(reply) # 1 /\ ~ReadAll(reply)
      <4>1. PICK k \in Nat : k = m + n /\ k <= h /\ u - 1 <= k /\ k <= 65535
        BY <1>4, <3>4, <3>5
      <4>2. buffer' = buffer \o x /\ Blob(Len(buffer')) /\ outcome' = outcome
        BY <1>1, <3>7, <3>10 DEF x
      <4>3. buffer' = SubSeq(Held, 1, k)
        BY <1>5, <3>6, <4>1, <4>2
      <4>4. k <= Len(Held) /\ mtu - 1 <= k
        BY <1>5, <4>1
      <4> QED
        BY <1>1, <1>3, <4>1, <4>2, <4>3, <4>4, BlobMore
    <3> QED
      BY <3>8, <3>9, <3>10
  <2> QED
    BY <2>1, <2>2, <2>3
<1>9. CASE ~honest /\ reply[1] = 1 /\ Status \in Byte \ {0}
  <2>1. Finish(0) /\ buffer' = buffer
    BY <1>1, <1>9
  <2>2. start' \in Word /\ offset' \in Word /\ err' \in Byte /\ buffer' \in Bytes
    BY <1>1, <2>1, ArgumentsAre
  <2>3. PICK b : b = buffer'
    OBVIOUS
  <2>4. \A o : Complete(o)
    BY <1>9 DEF Complete
  <2> QED
    BY <1>1, <2>1, <2>2, <2>3, <2>4, FinishStep
<1>10. CASE ~honest /\ reply \in Odd /\ reply[1] = q.pdu[1] + 1
  BY <1>3, <1>10, OddIs
<1> QED
  BY <1>2, <1>8, <1>9, <1>10

\* prepare_write_cb goes on or ends.
LEMMA PrepareStep ==
  ASSUME ProcInv, PrepareWriteCb
  PROVE  ProcInv'
<1>1. /\ Callback("prepare") /\ UNCHANGED <<start, found, buffer, err>> /\ "prepare" # "resolve"
      /\ Status # 0 => Finish(Status) /\ offset' = offset
      /\ Status = 0 =>
           /\ offset' = offset + Len(reply) - 5 /\ outcome' = outcome
           /\ Then(<<IF offset' = Len(call.value) THEN Request("caller", EncExecWriteReq(1), 0)
                     ELSE PrepareWrite(offset')>>)
  BY DEF PrepareWriteCb
<1>2. PICK q \in Req :
        /\ q.cb = "prepare" /\ Asks(q)
        /\ \/ ~honest /\ reply[1] = 1 /\ Status \in Byte \ {0}
           \/ ~honest /\ reply \in Odd /\ reply[1] = q.pdu[1] + 1
           \/ Answered(q)
  BY <1>1, CalledBack
<1> DEFINE o == Octets(call.value, offset + 1)
<1>3. /\ call.proc = "write" /\ Len(call.value) > mtu - 3 /\ offset < Len(call.value)
      /\ q.pdu = EncPrepWriteReq(call.handle, offset, o, mtu)
  BY <1>2 DEF Asks, AsksPrepare
<1>4. /\ offset \in Word /\ offset \in Nat /\ call.value \in Bytes /\ Len(call.value) \in Nat
      /\ mtu \in Nat /\ 5 <= mtu /\ call.handle \in Word
  BY ArgumentsAre, WordIs
<1>a. Len(call.value) <= 65535
  BY ArgumentsAre DEF Highest
<1>5. offset + 1 \in 1..(Len(call.value) + 1) /\ offset <= Len(call.value)
  BY <1>3, <1>4
<1>6. o \in Bytes
  BY <1>4, <1>5, OctetsIs
<1> HIDE DEF o
<1>7. q.pdu[1] = 22
  <2>1. EncPrepWriteReq(call.handle, offset, o, mtu)[1] = 22
    BY <1>4, <1>6, PrepWriteReqIs
  <2> QED
    BY <1>3, <2>1, Zenon
<1>8. /\ start' \in Word /\ buffer' \in Bytes /\ err' \in Byte
      /\ call' = call /\ attrs' = attrs /\ mtu' = mtu /\ prepared' = prepared
  BY <1>1, ArgumentsAre, CalledBack
<1>9. CASE Answered(q)
  <2>1. reply = EncPrepWriteResp(call.handle, offset, Piece, mtu) /\ WrittenUpTo(offset + Len(Piece))
    BY <1>2, <1>9 DEF Answered, AnswerToPrepare
  <2>2. Piece \in Bytes /\ Len(Piece) \in Nat /\ Len(Piece) <= mtu - 5 /\ offset + Len(Piece) \in 0..Len(call.value)
    <3> DEFINE x == Fitting(Octets(call.value, offset + 1), 5, mtu)
    <3>1. x \in Bytes /\ Len(x) \in Nat /\ Len(x) <= mtu - 5 /\ offset + Len(x) \in 0..Len(call.value)
      BY <1>4, <1>5, PieceIs
    <3>2. Piece = x
      BY DEF Piece
    <3> HIDE DEF x
    <3> QED
      BY <3>1, <3>2, Zenon
  <2>3. reply[1] = 23 /\ Len(reply) = 5 + Least(Len(Piece), mtu - 5)
    <3> DEFINE p == EncPrepWriteResp(call.handle, offset, Piece, mtu)
    <3>1. p[1] = 23 /\ Len(p) = 5 + Least(Len(Piece), mtu - 5)
      BY <1>4, <2>2, PrepWriteRespIs
    <3>2. reply = p
      BY <2>1
    <3> HIDE DEF p
    <3> QED
      BY <3>1, <3>2, Zenon
  <2>4. Len(reply) = 5 + Len(Piece)
    BY <1>4, <2>2, <2>3 DEF Least
  <2>5. Status = 0
    BY <2>3, StatusOf
  <2>6. PICK n \in Nat : n = offset + Len(Piece) /\ n <= Len(call.value) /\ n <= 65535 /\ WrittenUpTo(n)
    BY <1>4, <1>a, <2>1, <2>2
  <2>7. offset' = n /\ outcome' = outcome /\ n \in Word
    <3>1. offset + (5 + Len(Piece)) - 5 = offset + Len(Piece)
      BY <1>4, <2>2
    <3>2. offset' = offset + (5 + Len(Piece)) - 5 /\ outcome' = outcome
      BY <1>1, <2>4, <2>5
    <3> QED
      BY <2>6, <3>1, <3>2, IsWord
  <2>8. WrittenUpTo(n)'
    BY <1>8, <2>6 DEF WrittenUpTo, Held
  <2>9. CASE n = Len(call.value)
    <3> DEFINE p == EncExecWriteReq(1)
    <3>1. p \in Bytes
      BY ShortPackets
    <3>2. Then(<<Request("caller", p, 0)>>)
      BY <1>1, <2>5, <2>7, <2>9
    <3> HIDE DEF p
    <3>3. PICK r \in Req : r.cb = "caller" /\ r.pdu = p /\ (Asks(r)' => ProcInv')
      BY <1>1, <1>8, <2>7, <3>1, <3>2, ThenStep DEF Cbs
    <3>4. AsksCaller(r)'
      BY <1>3, <1>8, <2>8, <2>9, <3>3 DEF AsksCaller, p
    <3>5. Asks(r)'
      BY <3>3, <3>4 DEF Asks
    <3> QED
      BY <3>3, <3>5
  <2>10. CASE n # Len(call.value)
    <3> DEFINE rest == Octets(call.value, n + 1)
               p == EncPrepWriteReq(call.handle, n, rest, mtu)
    <3>1. n < Len(call.value) /\ n + 1 \in 1..(Len(call.value) + 1)
      BY <1>4, <2>6, <2>10
    <3>2. rest \in Bytes
      BY <1>4, <3>1, OctetsIs
    <3> HIDE DEF rest
    <3>3. p \in Bytes
      BY <1>4, <2>7, <3>2, PrepWriteReqIs
    <3> HIDE DEF p
    <3>4. PrepareWrite(n) = Request("prepare", p, 0)
      BY DEF PrepareWrite, p, rest
    <3>5. Then(<<PrepareWrite(n)>>)
      BY <1>1, <2>5, <2>7, <2>10
    <3>6. Then(<<Request("prepare", p, 0)>>)
      BY <3>4, <3>5
    <3>7. PICK r \in Req : r.cb = "prepare" /\ r.pdu = p /\ (Asks(r)' => ProcInv')
      BY <1>1, <1>8, <2>7, <3>3, <3>6, ThenStep DEF Cbs
    <3>8. AsksPrepare(r)'
      BY <1>3, <1>8, <2>7, <2>8, <3>1, <3>7 DEF AsksPrepare, p, rest
    <3>9. Asks(r)'
      BY <3>7, <3>8 DEF Asks
    <3> QED
      BY <3>7, <3>9
  <2> QED
    BY <2>9, <2>10
<1>10. CASE ~honest /\ reply[1] = 1 /\ Status \in Byte \ {0}
  <2>1. Finish(Status) /\ offset' \in Word
    BY <1>1, <1>4, <1>10
  <2>2. PICK b : b = buffer'
    OBVIOUS
  <2>3. \A x : Complete(x)
    BY <1>10 DEF Complete
  <2> QED
    BY <1>1, <1>8, <2>1, <2>2, <2>3, FinishStep
<1>11. CASE ~honest /\ reply \in Odd /\ reply[1] = q.pdu[1] + 1
  BY <1>7, <1>11, OddIs
<1> QED
  BY <1>2, <1>9, <1>10, <1>11

\* The procedure goes on with the requests of a queue, or ends when there is none.
LEMMA QueueStep ==
  ASSUME ProcInv, UNCHANGED <<device, mtu, call>>, outcome = <<>>, reply' = <<>>,
         NEW rs \in Seq(Req), line' = rs,
         NEW o, rs = <<>> => outcome' = <<o>>, rs # <<>> => outcome' = outcome, Complete(o),
         \A i \in 1..Len(rs) : Asks(rs[i])',
         \A i \in 1..Len(rs) : i < Len(rs) => rs[i].cb = "resolve",
         start' \in Word, offset' \in Word, err' \in Byte, buffer' \in Bytes
  PROVE  ProcInv'
<1>1. CASE rs = <<>>
  BY <1>1, EndNow
<1>2. CASE rs # <<>>
  <2>1. UNCHANGED <<attrs, prepared, honest, up, mtu, call>>
    BY DEF device
  <2>2. Fixed'
    BY <2>1, StaysFixed
  <2>3. Fields'
    <3>1. <<>> \in Bytes
      BY DEF Bytes
    <3> QED
      BY <2>1, <3>1 DEF ProcInv, Fields
  <2>4. line' # <<>> /\ outcome' = <<>>
    BY <1>2
  <2>5. Once' /\ Fresh' /\ Whole'
    BY <2>4 DEF Once, Fresh, Whole
  <2>6. Asking'
    BY DEF Asking
  <2>7. Heard'
    BY DEF Heard
  <2> QED
    BY <2>2, <2>3, <2>5, <2>6, <2>7 DEF ProcInv
<1> QED
  BY <1>1, <1>2

\* The requests behind the first.
LEMMA TailIs ==
  ASSUME NEW X, NEW q \in Seq(X), q # <<>>
  PROVE  /\ Tail(q) \in Seq(X) /\ Len(q) \in Nat /\ Len(Tail(q)) = Len(q) - 1
         /\ \A i \in 1..Len(Tail(q)) : i + 1 \in 1..Len(q) /\ Tail(q)[i] = q[i + 1]
OBVIOUS

\* A request of a search for included services is the same one when others are done.
LEMMA StillAsked ==
  ASSUME call.proc = "included", call' = call, start' = start, NEW r, Asks(r)
  PROVE  Asks(r)'
BY DEF Asks, AsksBlob, AsksPrepare, AsksCaller

\* A request of a search for included services is done.
LEMMA IsdEndStep ==
  ASSUME ProcInv, NEW cb \in {"included", "resolve"}, Callback(cb), call.proc = "included",
         NEW e \in Byte, NEW rs \in Seq(Req), IsdEnds(e, rs), start' \in Word, UNCHANGED <<buffer, offset>>,
         \A i \in 1..Len(rs) : Asks(rs[i])',
         \A i \in 1..Len(rs) : i < Len(rs) => rs[i].cb = "resolve",
         cb = "resolve" => rs = <<>> /\ start' = start
  PROVE  ProcInv'
<1>1. /\ err' = e
      /\ line' = Tail(line) \o rs
      /\ outcome' = IF line' = <<>>
                    THEN Append(outcome, [err |-> err', found |-> IF err' = 0 THEN found' ELSE {}, buffer |-> buffer])
                    ELSE outcome
  BY DEF IsdEnds, Then
<1>2. /\ UNCHANGED <<device, mtu, call>> /\ outcome = <<>> /\ reply' = <<>> /\ call' = call
      /\ cb # "resolve" => Tail(line) = <<>>
  BY CalledBack
<1>3. offset' \in Word /\ buffer' \in Bytes /\ err' \in Byte
  BY <1>1, ArgumentsAre
<1>4. PICK o : o = [err |-> err', found |-> IF err' = 0 THEN found' ELSE {}, buffer |-> buffer]
  OBVIOUS
<1>5. Complete(o)
  BY DEF Complete
<1>6. line # <<>> /\ line \in Seq(Req)
  BY DEF Callback, ProcInv, Fields
<1>7. \A q : line' = q => (q = <<>> => outcome' = <<o>>) /\ (q # <<>> => outcome' = outcome)
  <2>1. Append(outcome, o) = <<o>>
    BY <1>2
  <2>2. outcome' = IF line' = <<>> THEN Append(outcome, o) ELSE outcome
    BY <1>1, <1>4, Zenon
  <2> QED
    BY <2>1, <2>2, Zenon
<1>8. CASE cb = "included"
  <2>1. line' = rs
    <3>1. Tail(line) = <<>>
      BY <1>2, <1>8
    <3>2. <<>> \o rs = rs
      OBVIOUS
    <3> QED
      BY <1>1, <3>1, <3>2, Zenon
  <2>2. (rs = <<>> => outcome' = <<o>>) /\ (rs # <<>> => outcome' = outcome)
    BY <1>7, <2>1
  <2> QED
    BY <1>2, <1>3, <1>5, <2>1, <2>2, QueueStep
<1>9. CASE cb = "resolve"
  <2>1. /\ Tail(line) \in Seq(Req) /\ Len(line) \in Nat /\ Len(Tail(line)) = Len(line) - 1
        /\ \A i \in 1..Len(Tail(line)) : i + 1 \in 1..Len(line) /\ Tail(line)[i] = line[i + 1]
    BY <1>6, TailIs
  <2>2. PICK q \in Seq(Req) : q = Tail(line)
    BY <2>1
  <2>3. line' = q
    <3>1. q \o <<>> = q
      OBVIOUS
    <3> QED
      BY <1>1, <1>9, <2>2, <3>1, Zenon
  <2>4. (q = <<>> => outcome' = <<o>>) /\ (q # <<>> => outcome' = outcome)
    BY <1>7, <2>3
  <2>5. \A i \in 1..Len(line) : Asks(line[i]) /\ (i < Len(line) => line[i].cb = "resolve")
    BY DEF ProcInv, Asking
  <2>6. ASSUME NEW i \in 1..Len(q) PROVE Asks(q[i]) /\ (i < Len(q) => q[i].cb = "resolve")
    <3>1. i + 1 \in 1..Len(line) /\ q[i] = line[i + 1] /\ (i < Len(q) => i + 1 < Len(line))
      BY <2>1, <2>2
    <3> QED
      BY <2>5, <3>1
  <2>7. \A i \in 1..Len(q) : Asks(q[i])'
    <3> SUFFICES ASSUME NEW i \in 1..Len(q) PROVE Asks(q[i])'
      OBVIOUS
    <3> QED
      BY <1>2, <1>9, <2>6, StillAsked
  <2>8. \A i \in 1..Len(q) : i < Len(q) => q[i].cb = "resolve"
    BY <2>6
  <2> QED
    BY <1>2, <1>3, <1>5, <2>3, <2>4, <2>7, <2>8, QueueStep
<1> QED
  BY <1>8, <1>9

\* So it is when the first error is kept.
LEMMA IsdStep ==
  ASSUME ProcInv, NEW cb \in {"included", "resolve"}, Callback(cb), call.proc = "included",
         NEW e \in Byte, NEW rs \in Seq(Req), IsdDone(e, rs), start' \in Word, UNCHANGED <<buffer, offset>>,
         \A i \in 1..Len(rs) : Asks(rs[i])',
         \A i \in 1..Len(rs) : i < Len(rs) => rs[i].cb = "resolve",
         cb = "resolve" => rs = <<>> /\ start' = start
  PROVE  ProcInv'
<1>1. PICK d \in Byte : d = IF err = 0 THEN e ELSE err
  BY ArgumentsAre
<1>2. IsdEnds(d, rs)
  BY <1>1 DEF IsdDone
<1> QED
  BY <1>2, IsdEndStep

\* The UUID of an included service is asked for.
LEMMA ResolveIs ==
  ASSUME NEW e \in Bytes, Len(e) = 6
  PROVE  \E r \in Req : r = Resolve(e) /\ r.cb = "resolve" /\ r.arg = e /\ r.pdu = EncReadReq(At16(e, 3))
<1> DEFINE p == EncReadReq(At16(e, 3))
           r == [cb |-> "resolve", pdu |-> p, arg |-> e]
<1>1. 3 \in 1..Len(e) /\ 3 < Len(e)
  OBVIOUS
<1>2. p \in Bytes
  BY <1>1, NumberIs, ReadReqIs
<1> HIDE DEF p
<1>3. r \in Req /\ r.cb = "resolve" /\ r.arg = e /\ r.pdu = p
  BY <1>2 DEF Req, Cbs
<1>4. r = Resolve(e)
  BY DEF Resolve, Request, p
<1> HIDE DEF r
<1> QED
  BY <1>3, <1>4 DEF p

\* One request for each UUID.
LEMMA ResolvedIs ==
  ASSUME NEW list \in Seq(Bytes), \A k \in 1..Len(list) : Len(list[k]) = 6
  PROVE  LET rs == [k \in DOMAIN list |-> Resolve(list[k])]
         IN /\ rs \in Seq(Req)
            /\ \A k \in 1..Len(rs) : /\ rs[k].cb = "resolve" /\ rs[k].arg \in Bytes /\ Len(rs[k].arg) = 6
                                     /\ rs[k].pdu = EncReadReq(At16(rs[k].arg, 3))
<1> DEFINE rs == [k \in DOMAIN list |-> Resolve(list[k])]
<1>1. DOMAIN list = 1..Len(list) /\ Len(list) \in Nat /\ \A k \in 1..Len(list) : list[k] \in Bytes
  BY LenProperties, ElementOfSeq
<1>2. ASSUME NEW k \in 1..Len(list)
      PROVE  LET r == Resolve(list[k])
             IN r \in Req /\ r.cb = "resolve" /\ r.arg = list[k] /\ r.pdu = EncReadReq(At16(list[k], 3))
  BY <1>1, ResolveIs
<1>3. rs = [k \in 1..Len(list) |-> Resolve(list[k])]
  BY <1>1
<1>4. rs \in [1..Len(list) -> Req]
  BY <1>2, <1>3
<1>5. rs \in Seq(Req) /\ Len(rs) = Len(list) /\ \A k \in 1..Len(list) : rs[k] = Resolve(list[k])
  BY <1>1, <1>3, <1>4
<1> HIDE DEF rs
<1>6. ASSUME NEW k \in 1..Len(rs)
      PROVE  /\ rs[k].cb = "resolve" /\ rs[k].arg \in Bytes /\ Len(rs[k].arg) = 6
             /\ rs[k].pdu = EncReadReq(At16(rs[k].arg, 3))
  BY <1>1, <1>2, <1>5
<1> QED
  BY <1>5, <1>6 DEF rs

\* A search for included services goes on without new requests.
LEMMA IsdAlone ==
  ASSUME ProcInv, NEW cb \in {"included", "resolve"}, Callback(cb), call.proc = "included",
         NEW e \in Byte, IsdDone(e, <<>>), start' = start, UNCHANGED <<buffer, offset>>
  PROVE  ProcInv'
<1>1. PICK rs \in Seq(Req) : rs = <<>> /\ Len(rs) = 0
  <2>1. <<>> \in Seq(Req)
    OBVIOUS
  <2> QED
    BY <2>1
<1>2. IsdDone(e, rs) /\ \A i \in 1..Len(rs) : FALSE
  BY <1>1
<1>3. start' \in Word
  BY ArgumentsAre
<1> QED
  BY <1>1, <1>2, <1>3, IsdStep

\* resolve_included_uuid_cb goes on or ends.
LEMMA ResolveStep ==
  ASSUME ProcInv, ResolveIncludedUuidCb
  PROVE  ProcInv'
<1>1. Callback("resolve") /\ UNCHANGED <<start, buffer, offset>>
  BY DEF ResolveIncludedUuidCb
<1>2. PICK q \in Req : q.cb = "resolve" /\ Asks(q)
  BY <1>1, CalledBack
<1>3. call.proc = "included"
  BY <1>2 DEF Asks
<1>4. Status \in Byte /\ Io \in Byte /\ 0 \in Byte
  BY ArgumentsAre, StatusIs DEF Byte, Io
<1>5. IsdDone(Status, <<>>) \/ IsdDone(Io, <<>>) \/ IsdDone(0, <<>>)
  BY Zenon DEF ResolveIncludedUuidCb
<1> QED
  BY <1>1, <1>3, <1>4, <1>5, IsdAlone

\* The UUIDs of what has been found are asked for, and then more.
LEMMA MoreStep ==
  ASSUME ProcInv, Callback("included"), call.proc = "included", NEW e \in Byte,
         start' \in Word, UNCHANGED <<buffer, offset>>,
         NEW rs \in Seq(Req), \A k \in 1..Len(rs) : rs[k].cb = "resolve",
         \A k \in 1..Len(rs) : Asks(rs[k])',
         NEW more \in Req, Asks(more)', IsdDone(e, Append(rs, more))
  PROVE  ProcInv'
<1> DEFINE ts == Append(rs, more)
<1>1. /\ ts \in Seq(Req) /\ Len(ts) = Len(rs) + 1 /\ Len(rs) \in Nat
      /\ \A k \in 1..Len(rs) : ts[k] = rs[k]
      /\ ts[Len(rs) + 1] = more
  OBVIOUS
<1>2. IsdDone(e, ts)
  OBVIOUS
<1> HIDE DEF ts
<1>3. \A k \in 1..Len(ts) : k = Len(rs) + 1 \/ (k \in 1..Len(rs) /\ ts[k] = rs[k])
  BY <1>1
<1>4. \A k \in 1..Len(ts) : Asks(ts[k])'
  <2> SUFFICES ASSUME NEW k \in 1..Len(ts) PROVE Asks(ts[k])'
    OBVIOUS
  <2>1. CASE k = Len(rs) + 1
    BY <1>1, <2>1
  <2>2. CASE k \in 1..Len(rs) /\ ts[k] = rs[k]
    BY <2>2
  <2> QED
    BY <1>3, <2>1, <2>2
<1>5. \A k \in 1..Len(ts) : k < Len(ts) => ts[k].cb = "resolve"
  <2> SUFFICES ASSUME NEW k \in 1..Len(ts), k < Len(ts) PROVE ts[k].cb = "resolve"
    OBVIOUS
  <2>1. k \in 1..Len(rs)
    BY <1>1
  <2> QED
    BY <1>1, <2>1
<1> QED
  BY <1>1, <1>2, <1>4, <1>5, IsdStep

\* find_included_cb goes on or ends.
LEMMA IncludedStep ==
  ASSUME ProcInv, FindIncludedCb
  PROVE  ProcInv'
<1>1. Callback("included") /\ UNCHANGED <<buffer, offset>>
  BY DEF FindIncludedCb
<1>2. PICK q \in Req : q.cb = "included" /\ Asks(q)
  BY <1>1, CalledBack
<1>3. call.proc = "included"
  BY <1>2 DEF Asks
<1>4. /\ Status \in Byte /\ Io \in Byte /\ 0 \in Byte /\ Unlikely \in Byte
      /\ start \in Word /\ call.end \in Word /\ reply \in Bytes
  BY ArgumentsAre, StatusIs DEF Byte, Io, Unlikely
<1>5. CASE IsdDone(IF Status = NotFound THEN 0 ELSE Status, <<>>) /\ start' = start
  <2>1. PICK e \in Byte : e = IF Status = NotFound THEN 0 ELSE Status
    BY <1>4
  <2> QED
    BY <1>1, <1>3, <1>5, <2>1, IsdAlone
<1>6. CASE IsdDone(Io, <<>>) /\ start' = start
  BY <1>1, <1>3, <1>4, <1>6, IsdAlone
<1> DEFINE Final(list) == At16(Last(list), 1)
           Resolved(list) == IF Len(list[1]) = 6 THEN [k \in DOMAIN list |-> Resolve(list[k])] ELSE <<>>
           More(list) == Request("included", EncReadByTypeReq(After(Final(list)), call.end, Include), 0)
           Goes(list) == IF Final(list) < start
                         THEN IsdEnds(Unlikely, Resolved(list)) /\ UNCHANGED start
                         ELSE /\ start' = After(Final(list))
                              /\ IsdDone(0, IF Final(list) < call.end THEN Append(Resolved(list), More(list))
                                            ELSE Resolved(list))
<1>7. ASSUME NEW list \in DecReadByTypeResp(reply), Goes(list)
      PROVE  ProcInv'
  <2>1. /\ list \in Seq(Bytes) /\ Len(list) >= 1
        /\ \A k \in 1..Len(list) : list[k] \in Bytes /\ Len(list[k]) = Len(list[1])
        /\ Final(list) \in Word
    BY <1>4, ValuesDecoded
  <2>2. PICK n \in Word : n = Final(list)
    BY <2>1
  <2>3. After(n) \in Word
    BY AfterIs
  <2> DEFINE p == EncReadByTypeReq(After(n), call.end, Include)
  <2>4. p \in Bytes
    <3>1. Include \in Bytes /\ Len(Include) \in {2, 16}
      BY TypesAre
    <3> QED
      BY <1>4, <2>3, <3>1, ReadByTypeReqIs
  <2> HIDE DEF p
  <2>5. PICK more \in Req : more = Request("included", p, 0) /\ more.cb = "included" /\ more.pdu = p
    BY <2>4, RequestIs DEF Cbs
  <2>6. call' = call
    BY <1>1, CalledBack
  <2>7. start' = After(n) => Asks(more)'
    BY <1>3, <2>5, <2>6 DEF Asks, p
  <2>8. PICK rs : rs = Resolved(list)
    OBVIOUS
  <2>9. \/ IsdEnds(Unlikely, rs) /\ start' = start
        \/ IsdDone(0, rs) /\ start' = After(n)
        \/ IsdDone(0, Append(rs, more)) /\ start' = After(n)
    BY <1>7, <2>2, <2>5, <2>8, Zenon DEF p
  <2>10. start' \in Word
    BY <1>4, <2>3, <2>9
  <2> HIDE DEF Final, Resolved, More, Goes
  <2>11. rs \in Seq(Req) /\ \A k \in 1..Len(rs) : rs[k].cb = "resolve" /\ Asks(rs[k])'
    <3>1. CASE Len(list[1]) = 6
      <4>1. rs = [k \in DOMAIN list |-> Resolve(list[k])] /\ \A k \in 1..Len(list) : Len(list[k]) = 6
        BY <2>1, <2>8, <3>1 DEF Resolved
      <4>2. /\ rs \in Seq(Req)
            /\ \A k \in 1..Len(rs) : /\ rs[k].cb = "resolve" /\ rs[k].arg \in Bytes /\ Len(rs[k].arg) = 6
                                     /\ rs[k].pdu = EncReadReq(At16(rs[k].arg, 3))
        BY <2>1, <4>1, ResolvedIs
      <4>3. ASSUME NEW k \in 1..Len(rs) PROVE rs[k].cb = "resolve" /\ Asks(rs[k])'
        BY <1>3, <2>6, <4>2 DEF Asks
      <4> QED
        BY <4>2, <4>3
    <3>2. CASE Len(list[1]) # 6
      <4>1. rs = <<>>
        BY <2>8, <3>2 DEF Resolved
      <4> QED
        BY <4>1
    <3> QED
      BY <3>1, <3>2
  <2>12. CASE IsdEnds(Unlikely, rs)
    BY <1>1, <1>3, <1>4, <2>10, <2>11, <2>12, IsdEndStep
  <2>13. CASE IsdDone(0, rs)
    BY <1>1, <1>3, <1>4, <2>10, <2>11, <2>13, IsdStep
  <2>14. CASE IsdDone(0, Append(rs, more)) /\ start' = After(n)
    BY <1>1, <1>3, <1>4, <2>7, <2>10, <2>11, <2>14, MoreStep
  <2> QED
    BY <2>9, <2>12, <2>13, <2>14
<1>8. \/ IsdDone(IF Status = NotFound THEN 0 ELSE Status, <<>>) /\ start' = start
      \/ IsdDone(Io, <<>>) /\ start' = start
      \/ \E list \in DecReadByTypeResp(reply) : Goes(list)
  BY Zenon DEF FindIncludedCb
<1> QED
  BY <1>5, <1>6, <1>7, <1>8

\* Every callback keeps the invariant.
LEMMA CallbackStep ==
  ASSUME ProcInv, Callbacks
  PROVE  ProcInv'
BY PrimaryByUuidStep, PrimaryAllStep, IncludedStep, ResolveStep, CharStep, DescStep, ReadStep, BlobStep,
   PrepareStep, CallerStep DEF Callbacks

\* A procedure that has not begun is in order.
LEMMA ProcInit == Init => ProcInv
<1> SUFFICES ASSUME Init PROVE ProcInv
  OBVIOUS
<1>1. PICK c \in Cases : attrs = c.attrs /\ call = c.call /\ mtu = c.mtu
  BY DEF Init
<1>2. /\ prepared = <<>> /\ honest = TRUE /\ up = TRUE /\ line = <<>> /\ reply = <<>>
      /\ start = 0 /\ found = {} /\ buffer = <<>> /\ offset = 0 /\ err = 0 /\ outcome = <<>>
  BY DEF Init
<1>3. Device(attrs) /\ Arguable(attrs, call) /\ mtu \in Word /\ mtu >= 23
  BY <1>1, CasesAssumption
<1>4. attrs \in Seq(Attribute)
  BY <1>3 DEF Device
<1>5. <<>> \in Seq(Part) /\ <<>> \in Seq(Req) /\ <<>> \in Bytes
  BY DEF Bytes
<1>6. 0 \in Word /\ 0 \in Byte
  BY IsWord DEF Byte
<1>7. Fixed
  BY <1>2, <1>3, <1>4, <1>5 DEF Fixed
<1>8. Fields
  BY <1>2, <1>5, <1>6 DEF Fields
<1>9. Once /\ Fresh /\ Whole
  BY <1>2 DEF Once, Fresh, Whole
<1>10. Asking
  BY <1>2 DEF Asking
<1>11. Heard
  BY <1>2 DEF Heard
<1> QED
  BY <1>7, <1>8, <1>9, <1>10, <1>11 DEF ProcInv

\* Nothing changes.
LEMMA ProcStays ==
  ASSUME ProcInv, UNCHANGED vars
  PROVE  ProcInv'
<1>1. UNCHANGED <<attrs, prepared, honest, up, mtu, call, line, reply, start, found, buffer, offset, err, outcome>>
  BY DEF vars, device, context
<1>2. Fixed' /\ Fields' /\ Once' /\ Fresh'
  BY <1>1, StaysFixed DEF ProcInv, Fields, Once, Fresh
<1>3. Whole'
  BY <1>1 DEF ProcInv, Whole, Complete, Held
<1>4. \A r : Asks(r) => Asks(r)'
  BY <1>1 DEF Asks, AsksBlob, AsksPrepare, AsksCaller, Held, WrittenUpTo
<1>5. \A r : Answered(r) => Answered(r)'
  BY <1>1 DEF Answered, AnswerToPrepare, ListedServices, ListedByUuid, Listed, ListedAll, Held, Piece, WrittenUpTo
<1>6. Asking'
  <2>1. \A i \in 1..Len(line) : Asks(line[i])'
    <3> SUFFICES ASSUME NEW i \in 1..Len(line) PROVE Asks(line[i])'
      OBVIOUS
    <3>1. PICK r : r = line[i]
      OBVIOUS
    <3>2. Asks(r)
      BY <3>1 DEF ProcInv, Asking
    <3>3. line'[i] = r /\ Asks(r)'
      BY <1>1, <1>4, <3>1, <3>2
    <3> QED
      BY <3>3
  <2> QED
    BY <1>1, <2>1 DEF ProcInv, Asking
<1>7. Heard'
  <2> SUFFICES ASSUME reply # <<>> PROVE Heard'
    BY <1>1 DEF Heard
  <2>1. Status' = Status
    BY <1>1 DEF Status
  <2>2. PICK r : r = line[1]
    OBVIOUS
  <2>3. /\ line # <<>>
        /\ \/ ~honest /\ reply[1] = 1 /\ Status \in Byte \ {0}
           \/ ~honest /\ reply \in Odd /\ reply[1] = r.pdu[1] + 1
           \/ Answered(r)
    BY <2>2 DEF ProcInv, Heard
  <2>4. line' # <<>> /\ r = line'[1] /\ reply' = reply /\ honest' = honest /\ (Answered(r) => Answered(r)')
    BY <1>1, <1>5, <2>2, <2>3
  <2>5. \/ ~honest' /\ reply'[1] = 1 /\ Status' \in Byte \ {0}
        \/ ~honest' /\ reply' \in Odd /\ reply'[1] = r.pdu[1] + 1
        \/ Answered(r)'
    BY <2>1, <2>3, <2>4
  <2> QED
    BY <2>4, <2>5 DEF Heard
<1> QED
  BY <1>2, <1>3, <1>6, <1>7 DEF ProcInv

\* Every step keeps the invariant.
LEMMA ProcNext == ProcInv /\ [Next]_vars => ProcInv'
<1> SUFFICES ASSUME ProcInv, [Next]_vars PROVE ProcInv'
  OBVIOUS
<1>1. CASE Start
  BY <1>1, StartStep
<1>2. CASE Receive
  BY <1>2, ReceiveStep
<1>3. CASE Dropped
  BY <1>3, DroppedStep
<1>4. CASE Callbacks
  BY <1>4, CallbackStep
<1>5. CASE Lost
  BY <1>5, LostStep
<1>6. CASE UNCHANGED vars
  BY <1>6, ProcStays
<1> QED
  BY <1>1, <1>2, <1>3, <1>4, <1>5, <1>6 DEF Next, Step

\* The invariant holds whatever the device answers and whenever the connection is lost.
THEOREM ProcedureInvariant == FairSpec => []ProcInv
<1>1. Init => ProcInv
  BY ProcInit
<1>2. ProcInv /\ [Next]_vars => ProcInv'
  BY ProcNext
<1> QED
  BY <1>1, <1>2, PTL DEF FairSpec

\* The requests, the responses and the fields of the procedures keep their types: handles
\* and offsets stay in sixteen bits on any device.
THEOREM ProcedureTypes == FairSpec => []TypeOK
<1>1. ProcInv => TypeOK
  <2> SUFFICES ASSUME ProcInv PROVE TypeOK
    OBVIOUS
  <2>1. /\ honest \in BOOLEAN /\ up \in BOOLEAN /\ line \in Seq(Req) /\ reply \in Bytes
        /\ start \in Word /\ offset \in Word /\ err \in Byte
    BY DEF ProcInv, Fields
  <2>2. start \in 0..Highest /\ offset \in 0..Highest /\ err \in 0..255
    <3>1. Word = 0..Highest
      BY DEF Word, Highest
    <3>2. Byte = 0..255
      BY DEF Byte
    <3> QED
      BY <2>1, <3>1, <3>2
  <2>3. ASSUME NEW r \in ToSet(line)
        PROVE  r.cb \in Cbs /\ r.pdu \in Bytes
    <3>1. PICK i \in 1..Len(line) : r = line[i]
      BY <2>1, <2>3, ToSetIs
    <3>2. r \in Req
      BY <2>1, <3>1
    <3> QED
      BY <3>2 DEF Req
  <2> QED
    BY <2>1, <2>2, <2>3, Zenon DEF TypeOK, Cbs
<1>2. FairSpec => []ProcInv
  BY ProcedureInvariant
<1> QED
  BY <1>1, <1>2, PTL

\* The callback of the caller is called once, when no request of its procedure is under way:
\* whatever the device answers, and when the connection is lost between two requests.
THEOREM ProcedureCalledOnce == FairSpec => []CalledOnce
<1>1. ProcInv => CalledOnce
  <2> SUFFICES ASSUME ProcInv, Done PROVE Len(outcome) = 1 /\ line = <<>>
    BY DEF CalledOnce
  <2>1. outcome # <<>>
    BY DEF Done
  <2>2. PICK o : line = <<>> /\ outcome = <<o>>
    BY <2>1 DEF ProcInv, Once
  <2> QED
    BY <2>2
<1>2. FairSpec => []ProcInv
  BY ProcedureInvariant
<1> QED
  BY <1>1, <1>2, PTL

\* gatt_read_char and gatt_write_char transfer a value of any length whole, over any MTU, on a
\* device that follows the protocol.
THEOREM ProcedureWholeValues == FairSpec => []WholeValues
<1>1. ProcInv => WholeValues
  <2> SUFFICES ASSUME ProcInv, Done, honest, call.proc \in {"read", "write"}
               PROVE  /\ Result.err = 0
                      /\ attrs[At(attrs, call.handle)].value =
                           IF call.proc = "read" THEN Result.buffer ELSE call.value
                      /\ prepared = <<>>
    BY DEF WholeValues
  <2>1. PICK o : o = outcome[1]
    OBVIOUS
  <2>2. Complete(o)
    BY <2>1 DEF Done, ProcInv, Whole
  <2> QED
    BY <2>1, <2>2, Zenon DEF Complete, Held, Result
<1>2. FairSpec => []ProcInv
  BY ProcedureInvariant
<1> QED
  BY <1>1, <1>2, PTL

\* The discoveries, and the first and the last handle that they ask for.
Finds == {"primary", "included", "char", "desc"}
Lowest == IF call.proc = "primary" THEN 1 ELSE call.start
Bound == IF call.proc = "primary" THEN Highest ELSE call.end

\* A declaration, and what a discovery reports of an attribute.
Declared(a) == Le16(a.handle) \o a.value
ServiceUuid(h) == GetUuid128(attrs[At(attrs, h)].value)
Yield(a) ==
  CASE call.proc = "primary" -> [start |-> a.handle, end |-> a.end, uuid |-> GetUuid128(a.value)]
    [] call.proc = "included" -> Included(Declared(a), ServiceUuid(At16(Declared(a), 3)))
    [] call.proc = "char" -> Characteristic(Declared(a))
    [] call.proc = "desc" -> [handle |-> a.handle, uuid |-> Uuid128(a.type)]

\* The attributes that a discovery is for, and its results when it has come to a handle.
Relevant ==
  CASE call.proc = "primary" -> {a \in OfType(attrs, PrimSvc) : Wanted(GetUuid128(a.value))}
    [] call.proc = "included" -> Sought(Include)
    [] call.proc = "char" -> {a \in Sought(Charac) : Wanted(Characteristic(Declared(a)).uuid)}
    [] call.proc = "desc" -> {a \in ToSet(attrs) : a.handle \in call.start..call.end /\ Wanted(Uuid128(a.type))}
Below(h) == {Yield(a) : a \in {b \in Relevant : b.handle < h}}
Everything == {Yield(a) : a \in Relevant}

\* The included services whose UUIDs are still asked for.
Resolving ==
  {Included(line[i].arg, ServiceUuid(At16(line[i].arg, 3))) : i \in {j \in 1..Len(line) : line[j].cb = "resolve"}}

\* A request for more is the last in line.
Seeking == line # <<>> /\ \E r \in {line[Len(line)]} : r.cb # "resolve"

\* What has been found so far.
Progress ==
  /\ err = 0
  /\ line = <<>> => found = {}
  /\ Seeking => Lowest <= start /\ start <= Bound /\ \A h \in {start} : found \cup Resolving = Below(h)
  /\ line # <<>> /\ ~Seeking => found \cup Resolving = Everything
  /\ call.proc = "desc" /\ call.uuid # <<>> => found = {}
  /\ \A i \in 1..Len(line) : line[i].cb = "resolve" =>
       \E a \in OfType(attrs, Include) : Len(a.value) = 4 /\ line[i].arg = Declared(a)

\* What is reported.
Reported(o) == o.found = Reference /\ (o.err = 0 \/ (o.err = NotFound /\ Reference = {}))

\* The invariant of the discoveries on a device that follows the protocol.
Finding ==
  honest /\ call.proc \in Finds =>
    /\ outcome = <<>> => Progress
    /\ outcome # <<>> => Reported(outcome[1])

\* The goal of a discovery stays with the device and the arguments.
LEMMA GoalStays ==
  ASSUME attrs' = attrs, call' = call
  PROVE  /\ Reference' = Reference /\ Everything' = Everything /\ Bound' = Bound /\ Lowest' = Lowest
         /\ \A h : Below(h)' = Below(h)
         /\ \A e : Included(e, ServiceUuid(At16(e, 3)))' = Included(e, ServiceUuid(At16(e, 3)))
         /\ \A a : Declared(a)' = Declared(a) /\ OfType(attrs, Include)' = OfType(attrs, Include)
<1>1. Reference' = Reference
  <2>1. \A x : Wanted(x)' = Wanted(x)
    BY DEF Wanted
  <2>2. \A t : Sought(t)' = Sought(t)
    BY DEF Sought
  <2>3. Services' = Services
    BY DEF Services
  <2>4. Includes' = Includes
    BY <2>2 DEF Includes
  <2>5. Characteristics' = Characteristics
    BY <2>2 DEF Characteristics
  <2>6. Descriptors' = Descriptors
    BY <2>1 DEF Descriptors
  <2> QED
    BY <2>1, <2>3, <2>4, <2>5, <2>6 DEF Reference
<1>2. \A a : Yield(a)' = Yield(a)
  BY DEF Yield, ServiceUuid
<1>3. Relevant' = Relevant
  BY DEF Relevant, Wanted, Sought, Declared
<1>4. Everything' = Everything /\ \A h : Below(h)' = Below(h)
  BY <1>2, <1>3 DEF Everything, Below
<1>5. \A e : Included(e, ServiceUuid(At16(e, 3)))' = Included(e, ServiceUuid(At16(e, 3)))
  BY DEF ServiceUuid
<1>6. \A a : Declared(a)' = Declared(a) /\ OfType(attrs, Include)' = OfType(attrs, Include)
  OBVIOUS
<1>7. Bound' = Bound /\ Lowest' = Lowest
  BY DEF Bound, Lowest
<1> QED
  BY <1>1, <1>4, <1>5, <1>6, <1>7

\* A prefix of what is asked for from a handle on: what has been found up to its last entry.
LEMMA PrefixFound ==
  ASSUME NEW list \in Seq(Attribute), Sorted(list), NEW n \in 1..Len(list), NEW s \in Nat,
         Relevant \subseteq Attribute,
         \A a \in Relevant : a.handle >= s => a \in ToSet(list),
         \A k \in 1..Len(list) : list[k].handle >= s
  PROVE  Below(list[n].handle + 1) = Below(s) \cup {Yield(list[k]) : k \in {j \in 1..n : list[j] \in Relevant}}
<1> DEFINE m == list[n].handle
           B(h) == {b \in Relevant : b.handle < h}
           P == {list[k] : k \in 1..n}
<1>1. P = {a \in ToSet(list) : a.handle <= m}
  BY PrefixIs
<1>2. list[n] \in Attribute /\ m \in Nat /\ m >= s /\ \A a \in Relevant : a.handle \in Nat
  <2>1. list[n] \in Attribute
    BY ElementOfSeq
  <2>2. \A a \in Attribute : a.handle \in Nat
    BY AttributeIs, WordIs
  <2> QED
    BY <2>1, <2>2
<1> HIDE DEF m
<1>3. B(m + 1) = B(s) \cup {a \in P : a \in Relevant}
  <2>1. ASSUME NEW a \in Relevant PROVE (a.handle < m + 1) <=> (a.handle < s \/ a \in P)
    <3>1. a.handle \in Nat
      BY <1>2
    <3>2. a \in P => a.handle <= m
      BY <1>1
    <3>3. a.handle >= s /\ a.handle <= m => a \in P
      BY <1>1
    <3> QED
      BY <1>2, <3>1, <3>2, <3>3
  <2> QED
    BY <2>1
<1>4. \A h : Below(h) = {Yield(a) : a \in B(h)}
  BY DEF Below
<1>5. {Yield(list[k]) : k \in {j \in 1..n : list[j] \in Relevant}} = {Yield(a) : a \in {b \in P : b \in Relevant}}
  OBVIOUS
<1> HIDE DEF B, P
<1>6. Below(m + 1) = Below(s) \cup {Yield(a) : a \in {b \in P : b \in Relevant}}
  BY <1>3, <1>4
<1> QED
  BY <1>5, <1>6 DEF m

\* Nothing is left.
LEMMA NoneLeft ==
  ASSUME NEW s, \A a \in Relevant : a.handle < s
  PROVE  Below(s) = Everything
BY DEF Below, Everything

\* Nothing is there yet.
LEMMA NoneBelow ==
  ASSUME NEW s, \A a \in Relevant : ~(a.handle < s)
  PROVE  Below(s) = {}
BY DEF Below

\* What is relevant is on the device.
LEMMA RelevantIs ==
  ASSUME ProcInv, call.proc \in Finds
  PROVE  /\ Device(attrs) /\ Relevant \subseteq ToSet(attrs) /\ Relevant \subseteq Attribute
         /\ \A a \in Relevant : a.handle \in Nat /\ a.handle # 0 /\ a.handle <= Bound
         /\ call.proc # "primary" => \A a \in Relevant : a.handle \in call.start..call.end
         /\ Lowest \in Nat /\ Lowest # 0 /\ \A a \in Relevant : Lowest <= a.handle
<1>1. attrs \in Seq(Attribute) /\ Device(attrs)
  BY ArgumentsAre DEF Finds
<1>2. Relevant \subseteq ToSet(attrs)
  BY DEF Relevant, OfType, Sought, Finds
<1>3. ToSet(attrs) \subseteq Attribute
  BY <1>1, ToSetIs
<1>4. \A a \in Relevant : a.handle \in Nat /\ a.handle # 0 /\ a.handle <= Highest
  <2> SUFFICES ASSUME NEW a \in Relevant PROVE a.handle \in Nat /\ a.handle # 0 /\ a.handle <= Highest
    OBVIOUS
  <2>1. a \in Attribute
    BY <1>2, <1>3
  <2> QED
    BY <2>1, AttributeIs, WordIs DEF Highest
<1>5. call.proc # "primary" => \A a \in Relevant : a.handle \in call.start..call.end
  BY DEF Relevant, Sought, Finds
<1>6. call.end \in Nat /\ call.start \in Nat
  BY ArgumentsAre, WordIs
<1>7. call.proc # "primary" => call.start # 0
  BY DEF ProcInv, Fixed, Arguable, Finds
<1>8. Lowest \in Nat /\ Lowest # 0
  BY <1>6, <1>7 DEF Lowest
<1>9. \A a \in Relevant : Lowest <= a.handle
  BY <1>4, <1>5, <1>6 DEF Lowest
<1>10. \A a \in Relevant : a.handle <= Bound
  BY <1>4, <1>5, <1>6 DEF Bound
<1> QED
  BY <1>1, <1>2, <1>3, <1>4, <1>5, <1>8, <1>9, <1>10

\* What has been found when a response to a search comes in.
LEMMA FoundSoFar ==
  ASSUME ProcInv, Finding, honest, call.proc \in Finds, NEW cb, Callback(cb), cb # "resolve"
  PROVE  /\ found = Below(start)
         /\ start \in Nat /\ start # 0 /\ Lowest <= start /\ start <= Bound /\ err = 0
         /\ call.proc = "desc" /\ call.uuid # <<>> => found = {}
         /\ \E r \in Req : r.cb = cb /\ Asks(r) /\ Answered(r)
<1>1. PICK r \in Req : r = line[1] /\ r = Head(line) /\ r.cb = cb /\ Asks(r) /\ Answered(r)
  BY CalledBack
<1>2. line # <<>> /\ outcome = <<>>
  BY CalledBack DEF Callback
<1>3. Len(line) = 1
  BY <1>1, <1>2, UnderWay
<1>4. Progress
  BY <1>2 DEF Finding
<1>5. Seeking
  BY <1>1, <1>2, <1>3 DEF Seeking
<1>6. Resolving = {}
  <2>1. \A i \in 1..Len(line) : i = 1
    BY <1>3
  <2>2. {j \in 1..Len(line) : line[j].cb = "resolve"} = {}
    BY <1>1, <2>1
  <2> QED
    BY <2>2 DEF Resolving
<1>7. found \cup Resolving = Below(start)
  BY <1>4, <1>5 DEF Progress
<1>8. start \in Nat /\ Lowest \in Nat /\ Lowest # 0
  BY ArgumentsAre, WordIs, RelevantIs
<1>9. Lowest <= start /\ start <= Bound /\ err = 0 /\ (call.proc = "desc" /\ call.uuid # <<>> => found = {})
  BY <1>4, <1>5 DEF Progress
<1>10. start # 0
  BY <1>8, <1>9
<1> QED
  BY <1>1, <1>6, <1>7, <1>8, <1>9, <1>10

\* Everything has been found.
LEMMA FoundAll ==
  ASSUME ProcInv, Finding, call.proc \in Finds, NEW cb, Callback(cb), cb # "resolve", NEW e, Finish(e),
         honest => found' = Reference /\ (e = 0 \/ (e = NotFound /\ Reference = {}))
  PROVE  Finding'
<1>1. /\ line' = Tail(line) \o <<>>
      /\ outcome' = Append(outcome, [err |-> e, found |-> found', buffer |-> buffer'])
  BY DEF Finish, Then
<1>2. /\ outcome = <<>> /\ attrs' = attrs /\ call' = call /\ honest' = honest
  BY CalledBack
<1>3. PICK o : o = [err |-> e, found |-> found', buffer |-> buffer']
  OBVIOUS
<1>4. outcome' = <<o>>
  BY <1>1, <1>2, <1>3
<1>5. o.err = e /\ o.found = found'
  BY <1>3
<1>6. Reference' = Reference
  BY <1>2, GoalStays
<1>7. outcome' # <<>> /\ outcome'[1] = o
  BY <1>4
<1>8. honest => Reported(o)'
  BY <1>5, <1>6 DEF Reported
<1> QED
  BY <1>2, <1>7, <1>8 DEF Finding

\* More is asked for.
LEMMA FoundMore ==
  ASSUME ProcInv, Finding, call.proc \in Finds, NEW cb, Callback(cb), cb # "resolve",
         NEW c, c # "resolve", NEW p, Then(<<Request(c, p, 0)>>), UNCHANGED <<outcome, err>>,
         NEW s, start' = s,
         honest => /\ Lowest <= s /\ s <= Bound /\ found' = Below(s)
                   /\ call.proc = "desc" /\ call.uuid # <<>> => found' = {}
  PROVE  Finding'
<1>1. line' = Tail(line) \o <<Request(c, p, 0)>>
  BY DEF Then
<1>2. /\ Tail(line) = <<>> /\ outcome = <<>> /\ attrs' = attrs /\ call' = call /\ honest' = honest
  BY CalledBack
<1>3. PICK r : r = Request(c, p, 0) /\ r.cb = c
  BY DEF Request
<1>4. line' = <<r>>
  <2>1. <<>> \o <<r>> = <<r>>
    OBVIOUS
  <2> QED
    BY <1>1, <1>2, <1>3, <2>1, Zenon
<1>5. Len(line') = 1 /\ line' # <<>> /\ line'[1] = r /\ \A i \in 1..Len(line') : i = 1
  BY <1>4
<1>6. Seeking'
  BY <1>3, <1>5 DEF Seeking
<1>7. Resolving' = {}
  <2>1. {j \in 1..Len(line') : line'[j].cb = "resolve"} = {}
    BY <1>3, <1>5
  <2> QED
    BY <2>1 DEF Resolving
<1>8. ASSUME honest PROVE Progress'
  <2>1. err' = 0
    BY <1>8, FoundSoFar
  <2>2. \A h \in {start'} : h = s
    OBVIOUS
  <2>3. found' \cup Resolving' = Below(s) /\ Below(s)' = Below(s) /\ Bound' = Bound /\ Lowest' = Lowest
    BY <1>2, <1>7, <1>8, GoalStays
  <2>4. \A h \in {start'} : found' \cup Resolving' = Below(h)'
    BY <2>2, <2>3
  <2>5. \A i \in 1..Len(line') : line'[i].cb # "resolve"
    BY <1>3, <1>5
  <2> QED
    BY <1>2, <1>5, <1>6, <1>8, <2>1, <2>3, <2>4, <2>5 DEF Progress
<1>9. outcome' = <<>>
  BY <1>2
<1> QED
  BY <1>2, <1>8, <1>9 DEF Finding

\* Nothing is claimed of a device that does not follow the protocol.
LEMMA Dishonest ==
  ASSUME ~honest, honest' = honest
  PROVE  Finding'
BY DEF Finding

\* An empty list is told by its error.
LEMMA RefusedStatus ==
  ASSUME NEW q, Refused(reply, q), q.range.start # 0, ~(q.range.start > q.range.end)
  PROVE  Status = NotFound /\ Status # 0 /\ q.list = <<>> /\ reply[1] = 1
<1>1. reply[1] = 1 /\ Len(reply) = 5 /\ q.list = <<>> /\ reply[5] = NotFound
  BY DEF Refused
<1>2. Status = NotFound
  BY <1>1 DEF Status
<1> QED
  BY <1>1, <1>2 DEF NotFound

\* What a discovery of services is to find.
LEMMA PrimaryGoal ==
  ASSUME call.proc = "primary"
  PROVE  /\ Bound = Highest /\ Lowest = 1 /\ Reference = Everything
         /\ Relevant = {a \in OfType(attrs, PrimSvc) : Wanted(GetUuid128(a.value))}
         /\ \A a : Yield(a) = [start |-> a.handle, end |-> a.end, uuid |-> GetUuid128(a.value)]
<1>1. Bound = Highest /\ Lowest = 1
  BY DEF Bound, Lowest
<1>2. Relevant = {a \in OfType(attrs, PrimSvc) : Wanted(GetUuid128(a.value))}
  BY DEF Relevant
<1>3. \A a : Yield(a) = [start |-> a.handle, end |-> a.end, uuid |-> GetUuid128(a.value)]
  BY DEF Yield
<1>4. Reference = {s \in Services : Wanted(s.uuid)}
  BY DEF Reference
<1>5. \A a : [start |-> a.handle, end |-> a.end, uuid |-> GetUuid128(a.value)].uuid = GetUuid128(a.value)
  OBVIOUS
<1>6. Services = {[start |-> a.handle, end |-> a.end, uuid |-> GetUuid128(a.value)] : a \in OfType(attrs, PrimSvc)}
  BY DEF Services, OfType
<1>7. \A S : (\A s : s \in S <=> \E a \in OfType(attrs, PrimSvc) :
                       /\ s = [start |-> a.handle, end |-> a.end, uuid |-> GetUuid128(a.value)]
                       /\ Wanted(GetUuid128(a.value))) => S = Everything
  BY <1>2, <1>3 DEF Everything
<1>8. \A s : s \in Reference <=> \E a \in OfType(attrs, PrimSvc) :
                       /\ s = [start |-> a.handle, end |-> a.end, uuid |-> GetUuid128(a.value)]
                       /\ Wanted(GetUuid128(a.value))
  BY <1>4, <1>5, <1>6
<1>9. Reference = Everything
  BY <1>7, <1>8
<1> QED
  BY <1>1, <1>2, <1>3, <1>9

\* No service is left when the list is empty.
LEMMA NoneListed ==
  ASSUME ProcInv, call.proc \in Finds, start \in Nat,
         NEW list, list = <<>>, \A a \in Relevant : a.handle >= start => a \in ToSet(list)
  PROVE  Below(start) = Everything
<1>1. ToSet(list) = {}
  BY DEF ToSet
<1>2. \A a \in Relevant : a.handle \in Nat
  BY RelevantIs
<1>3. \A a \in Relevant : a.handle < start
  BY <1>1, <1>2
<1> QED
  BY <1>3, NoneLeft

\* The services of a packet are found, and the rest is asked for.
LEMMA PrimaryGoes ==
  ASSUME ProcInv, Finding, honest, call.proc = "primary",
         NEW cb \in {"primary_all", "primary_by_uuid"}, Callback(cb),
         NEW list \in Seq(Attribute), Sorted(list), NEW n \in 1..Len(list),
         \A k \in 1..Len(list) : list[k] \in Relevant /\ list[k].handle >= start,
         \A a \in Relevant : a.handle >= start => a \in ToSet(list),
         found' = found \cup {Yield(list[k]) : k \in 1..n}, UNCHANGED err,
         IF list[n].end = Highest THEN Finish(0) /\ UNCHANGED start ELSE PrimaryMore(cb, list[n].end)
  PROVE  Finding'
<1>1. call.proc \in Finds /\ cb # "resolve"
  BY DEF Finds
<1>2. found = Below(start) /\ start \in Nat
  BY <1>1, FoundSoFar
<1>3. Relevant \subseteq Attribute /\ Device(attrs) /\ \A a \in Relevant : a.handle \in Nat /\ a.handle <= Highest
  BY <1>1, RelevantIs, PrimaryGoal
<1>4. PICK a : a = list[n]
  OBVIOUS
<1>5. a \in Relevant /\ a.handle \in Nat /\ a.end \in Nat /\ a.end <= Highest
  <2>1. a \in Relevant
    BY <1>4
  <2> QED
    BY <1>3, <2>1, AttributeIs, WordIs DEF Highest
<1>6. Relevant \subseteq OfType(attrs, PrimSvc)
  BY PrimaryGoal
<1>7. a.handle <= a.end /\ \A b \in Relevant : a.handle < b.handle => a.end < b.handle
  BY <1>3, <1>5, <1>6 DEF Device, OfType
<1>8. Below(a.handle + 1) = Below(start) \cup {Yield(list[k]) : k \in {j \in 1..n : list[j] \in Relevant}}
  BY <1>2, <1>3, <1>4, PrefixFound
<1>9. {j \in 1..n : list[j] \in Relevant} = 1..n
  <2>1. \A j \in 1..n : j \in 1..Len(list)
    OBVIOUS
  <2> QED
    BY <2>1
<1>10. Below(a.end + 1) = Below(a.handle + 1)
  <2>1. \A b \in Relevant : b.handle < a.end + 1 <=> b.handle < a.handle + 1
    BY <1>3, <1>5, <1>7
  <2> QED
    BY <2>1 DEF Below
<1>11. found' = Below(a.end + 1)
  BY <1>2, <1>8, <1>9, <1>10
<1>12. CASE a.end = Highest
  <2>1. \A b \in Relevant : b.handle < a.end + 1
    BY <1>3, <1>5, <1>12
  <2>2. found' = Reference
    BY <1>11, <2>1, NoneLeft, PrimaryGoal
  <2>3. Finish(0)
    BY <1>4, <1>12
  <2> QED
    BY <1>1, <2>2, <2>3, FoundAll
<1>13. CASE a.end # Highest
  <2>1. PrimaryMore(cb, a.end)
    BY <1>4, <1>13
  <2>2. a.handle >= start
    BY <1>4
  <2>3. ~(a.end < start)
    BY <1>2, <1>5, <1>7, <2>2
  <2> DEFINE p == EncodeDiscoverPrimary(a.end + 1, Highest, call.uuid)
  <2>4. start' = a.end + 1 /\ Then(<<Request(cb, p, 0)>>) /\ UNCHANGED outcome
    BY <2>1, <2>3 DEF PrimaryMore
  <2> HIDE DEF p
  <2>5. Lowest <= a.end + 1 /\ a.end + 1 <= Bound
    BY <1>5, <1>13, PrimaryGoal DEF Highest
  <2> QED
    BY <1>1, <1>11, <2>4, <2>5, FoundMore
<1> QED
  BY <1>12, <1>13

\* primary_all_cb finds all services.
LEMMA PrimaryAllFinds ==
  ASSUME ProcInv, Finding, PrimaryAllCb
  PROVE  Finding'
<1>1. Callback("primary_all") /\ UNCHANGED <<buffer, offset, err>> /\ "primary_all" # "resolve"
  BY DEF PrimaryAllCb
<1>2. CASE ~honest
  BY <1>1, <1>2, CalledBack, Dishonest
<1>3. CASE honest
  <2>1. PICK q \in Req : q.cb = "primary_all" /\ Asks(q)
    BY <1>1, CalledBack
  <2>2. call.proc = "primary" /\ call.proc \in Finds /\ call.uuid = <<>>
    BY <2>1 DEF Asks, Finds
  <2>3. PICK r \in Req : r.cb = "primary_all" /\ Asks(r) /\ Answered(r)
    BY <1>1, <1>3, <2>2, FoundSoFar
  <2>4. /\ found = Below(start) /\ start \in Nat /\ start # 0 /\ start <= Highest
    BY <1>1, <1>3, <2>2, FoundSoFar, PrimaryGoal
  <2>5. /\ Device(attrs) /\ start \in Word /\ mtu \in Nat /\ 23 <= mtu
        /\ PrimSvc \in Bytes /\ Highest \in Word /\ Highest \in Nat
    BY <2>2, ArgumentsAre, TypesAre
  <2>6. r.pdu = EncReadByGrpReq(start, Highest, PrimSvc) /\ reply = AnswerGroups(r.pdu, ListedServices, mtu)
    BY <2>3 DEF Asks, Answered
  <2>7. r.pdu[1] = 16
    BY <2>5, <2>6, TypesAre, ReadByGrpReqIs
  <2> DEFINE g == [start |-> start, end |-> Highest, uuid |-> PrimSvc]
  <2>8. PICK s : s = ListedServices
    OBVIOUS
  <2>9. s = Asked(attrs, g, OfType(attrs, PrimSvc)) /\ g.start = start /\ g.end = Highest
    BY <2>8 DEF ListedServices
  <2>10. \/ Refused(reply, s)
         \/ /\ reply[1] = 17 /\ s.list # <<>>
            /\ \E w : DecReadByGrpResp(reply) = {w} /\ GroupsOf(w, s.list) /\ Len(w[1]) \in {6, 20}
    BY <2>5, <2>6, <2>7, <2>8, AnswerGroupsIs DEF ListedServices
  <2> HIDE DEF g
  <2>11. /\ s.range = g /\ s.list \in Seq(Attribute) /\ Sorted(s.list)
         /\ ToSet(s.list) = {a \in ToSet(attrs) : a \in OfType(attrs, PrimSvc) /\ a.handle \in start..Highest}
         /\ \A k \in 1..Len(s.list) : /\ s.list[k] \in Attribute /\ s.list[k] \in OfType(attrs, PrimSvc)
                                      /\ s.list[k].handle \in start..Highest
    BY <2>5, <2>9, ListedIs
  <2>12. PICK list \in Seq(Attribute) : list = s.list
    BY <2>11
  <2>13. Relevant = OfType(attrs, PrimSvc)
    BY <2>2, PrimaryGoal DEF Wanted
  <2>14. \A a \in Relevant : a.handle \in Nat /\ a.handle <= Highest /\ a \in ToSet(attrs)
    BY <2>2, RelevantIs, PrimaryGoal
  <2>15. \A a \in Relevant : a.handle >= start => a \in ToSet(list)
    BY <2>4, <2>5, <2>11, <2>12, <2>13, <2>14
  <2>16. CASE Refused(reply, s)
    <3>1. s.range.start # 0 /\ ~(s.range.start > s.range.end)
      BY <2>4, <2>5, <2>9, <2>11
    <3>2. Status = NotFound /\ Status # 0 /\ list = <<>> /\ reply[1] = 1
      BY <2>12, <2>16, <3>1, RefusedStatus
    <3>3. \A l \in DecReadByGrpResp(reply) : FALSE
      BY <3>2, GroupsDecoded, ArgumentsAre
    <3>4. Failed(0)
      BY <3>2, <3>3 DEF PrimaryAllCb
    <3>5. Below(start) = Everything
      BY <2>2, <2>4, <2>15, <3>2, NoneListed
    <3>6. Finish(0) /\ found' = Reference
      BY <2>2, <2>4, <3>4, <3>5, PrimaryGoal DEF Failed
    <3> QED
      BY <1>1, <2>2, <3>6, FoundAll
  <2>17. CASE reply[1] = 17 /\ \E w : DecReadByGrpResp(reply) = {w} /\ GroupsOf(w, s.list) /\ Len(w[1]) \in {6, 20}
    <3>1. PICK w : DecReadByGrpResp(reply) = {w} /\ GroupsOf(w, list) /\ Len(w[1]) \in {6, 20}
      BY <2>12, <2>17
    <3>2. Status = 0
      BY <2>17 DEF Status
    <3> DEFINE E(e) == [start |-> At16(e, 1), end |-> At16(e, 3), uuid |-> GetUuid128(Octets(e, 5))]
    <3>3. /\ found' = found \cup {E(e) : e \in ToSet(w)}
          /\ IF At16(Last(w), 3) = Highest THEN Finish(0) /\ UNCHANGED start
             ELSE PrimaryMore("primary_all", At16(Last(w), 3))
      BY <3>1, <3>2 DEF PrimaryAllCb
    <3>4. PICK n \in 1..Len(list) : n = Len(w)
      BY <3>1 DEF GroupsOf
    <3>5. w \in Seq(Bytes) /\ n \in Nat /\ n >= 1 /\ ToSet(w) = {w[k] : k \in 1..n}
      BY <3>1, <3>4, ToSetIs DEF GroupsOf
    <3>10. \A k \in 1..n : w[k] = Le16(list[k].handle) \o Le16(list[k].end) \o list[k].value
      BY <3>1, <3>4, Zenon DEF GroupsOf
    <3>11. \A k \in 1..n : k \in 1..Len(list)
      BY <3>4
    <3>6. ASSUME NEW k \in 1..n
          PROVE  E(w[k]) = Yield(list[k]) /\ At16(w[k], 3) = list[k].end
      <4>1. k \in 1..Len(list) /\ w[k] = Le16(list[k].handle) \o Le16(list[k].end) \o list[k].value
        BY <3>10, <3>11
      <4>2. list[k].handle \in Word /\ list[k].end \in Word /\ list[k].value \in Bytes
        BY <2>11, <2>12, <4>1, AttributeIs
      <4>3. At16(w[k], 1) = list[k].handle /\ At16(w[k], 3) = list[k].end /\ Octets(w[k], 5) = list[k].value
        BY <4>1, <4>2, GroupEntryIs
      <4>4. Yield(list[k]) = [start |-> list[k].handle, end |-> list[k].end, uuid |-> GetUuid128(list[k].value)]
        BY <2>2, PrimaryGoal
      <4> QED
        BY <4>3, <4>4
    <3> HIDE DEF E
    <3>7. {E(e) : e \in ToSet(w)} = {Yield(list[k]) : k \in 1..n}
      BY <3>5, <3>6
    <3>8. At16(Last(w), 3) = list[n].end
      BY <3>4, <3>5, <3>6, LastIs
    <3>9. \A k \in 1..Len(list) : list[k] \in Relevant /\ list[k].handle >= start
      BY <2>4, <2>5, <2>11, <2>12, <2>13
    <3> QED
      BY <1>1, <1>3, <2>2, <2>11, <2>12, <2>15, <3>3, <3>7, <3>8, <3>9, PrimaryGoes
  <2> QED
    BY <2>10, <2>16, <2>17
<1> QED
  BY <1>2, <1>3

\* The services of a UUID have it for a value, the other way round.
LEMMA WantedValue ==
  ASSUME ProcInv, call.proc = "primary", call.uuid # <<>>, NEW a \in OfType(attrs, PrimSvc)
  PROVE  Wanted(GetUuid128(a.value)) <=> a.value = PutUuidLe(call.uuid)
<1>1. attrs \in Seq(Attribute) /\ call.uuid \in Bytes /\ Arguable(attrs, call)
  BY ArgumentsAre DEF ProcInv, Fixed
<1>2. a.value \in Bytes
  BY <1>1, ToSetIs, AttributeIs DEF OfType
<1>3. Reverse(Reverse(a.value)) = a.value /\ Reverse(Reverse(call.uuid)) = call.uuid
  BY <1>1, <1>2, ReverseTwice
<1>4. Uuid128(call.uuid) = GetUuid128(a.value) => call.uuid = GetUuid(a.value)
  BY <1>1 DEF Arguable
<1>5. Wanted(GetUuid128(a.value)) <=> Uuid128(call.uuid) = GetUuid128(a.value)
  BY DEF Wanted
<1>6. call.uuid = GetUuid(a.value) <=> a.value = PutUuidLe(call.uuid)
  BY <1>3 DEF GetUuid, PutUuidLe
<1>7. call.uuid = GetUuid(a.value) => Uuid128(call.uuid) = GetUuid128(a.value)
  BY DEF GetUuid128
<1> QED
  BY <1>4, <1>5, <1>6, <1>7

\* primary_by_uuid_cb finds all services of the UUID.
LEMMA PrimaryByUuidFinds ==
  ASSUME ProcInv, Finding, PrimaryByUuidCb
  PROVE  Finding'
<1>1. Callback("primary_by_uuid") /\ UNCHANGED <<buffer, offset, err>> /\ "primary_by_uuid" # "resolve"
  BY DEF PrimaryByUuidCb
<1>2. CASE ~honest
  BY <1>1, <1>2, CalledBack, Dishonest
<1>3. CASE honest
  <2>1. PICK q \in Req : q.cb = "primary_by_uuid" /\ Asks(q)
    BY <1>1, CalledBack
  <2>2. call.proc = "primary" /\ call.proc \in Finds /\ call.uuid # <<>>
    BY <2>1 DEF Asks, Finds
  <2>3. PICK r \in Req : r.cb = "primary_by_uuid" /\ Asks(r) /\ Answered(r)
    BY <1>1, <1>3, <2>2, FoundSoFar
  <2>4. /\ found = Below(start) /\ start \in Nat /\ start # 0 /\ start <= Highest
    BY <1>1, <1>3, <2>2, FoundSoFar, PrimaryGoal
  <2>5. /\ Device(attrs) /\ start \in Word /\ mtu \in Nat /\ 23 <= mtu /\ 7 <= mtu
        /\ PrimSvc \in Bytes /\ Highest \in Word /\ Highest \in Nat
    BY <2>2, ArgumentsAre, TypesAre
  <2>6. PICK v : v = PutUuidLe(call.uuid)
    OBVIOUS
  <2>7. v \in Bytes
    BY <2>6, ArgumentsAre, ReverseTwice DEF PutUuidLe
  <2>8. r.pdu = EncFindByTypeReq(start, Highest, PrimSvc, v, mtu) /\ reply = AnswerRanges(r.pdu, ListedByUuid, mtu)
    BY <2>3, <2>6 DEF Asks, Answered
  <2>9. r.pdu[1] = 6
    BY <2>5, <2>7, <2>8, TypesAre, FindByTypeReqIs DEF Searching
  <2> DEFINE g == [start |-> start, end |-> Highest, uuid |-> PrimSvc, value |-> v]
             wanted == {a \in OfType(attrs, PrimSvc) : a.value = v}
  <2>10. PICK s : s = ListedByUuid
    OBVIOUS
  <2>11. s = Asked(attrs, g, wanted) /\ g.start = start /\ g.end = Highest
    BY <2>6, <2>10 DEF ListedByUuid
  <2>12. \/ Refused(reply, s)
         \/ /\ reply[1] = 7 /\ s.list # <<>>
            /\ \E w : DecFindByTypeResp(reply) = {w} /\ RangesOf(w, s.list)
    <3>1. PICK f : f = wanted
      OBVIOUS
    <3>2. s = Asked(attrs, [start |-> start, end |-> Highest, uuid |-> PrimSvc, value |-> v], f)
      BY <2>11, <3>1
    <3>3. reply = AnswerRanges(r.pdu, s, mtu)
      BY <2>8, <2>10
    <3> HIDE DEF g, wanted
    <3> QED
      BY <2>5, <2>9, <3>2, <3>3, AnswerRangesIs
  <2>13. Relevant = wanted
    BY <2>2, <2>6, PrimaryGoal, WantedValue
  <2> HIDE DEF g, wanted
  <2>14. /\ s.range = g /\ s.list \in Seq(Attribute) /\ Sorted(s.list)
         /\ ToSet(s.list) = {a \in ToSet(attrs) : a \in wanted /\ a.handle \in start..Highest}
         /\ \A k \in 1..Len(s.list) : /\ s.list[k] \in Attribute /\ s.list[k] \in wanted
                                      /\ s.list[k].handle \in start..Highest
    BY <2>5, <2>11, ListedIs
  <2>15. PICK list \in Seq(Attribute) : list = s.list
    BY <2>14
  <2>16. \A a \in Relevant : a.handle \in Nat /\ a.handle <= Highest /\ a \in ToSet(attrs)
    BY <2>2, RelevantIs, PrimaryGoal
  <2>17. \A a \in Relevant : a.handle >= start => a \in ToSet(list)
    BY <2>4, <2>5, <2>13, <2>14, <2>15, <2>16
  <2>18. CASE Refused(reply, s)
    <3>1. s.range.start # 0 /\ ~(s.range.start > s.range.end)
      BY <2>4, <2>5, <2>11, <2>14
    <3>2. Status = NotFound /\ Status # 0 /\ list = <<>> /\ reply[1] = 1
      BY <2>15, <2>18, <3>1, RefusedStatus
    <3>3. Failed(0)
      BY <3>2 DEF PrimaryByUuidCb
    <3>4. Below(start) = Everything
      BY <2>2, <2>4, <2>17, <3>2, NoneListed
    <3>5. Finish(0) /\ found' = Reference
      BY <2>2, <2>4, <3>3, <3>4, PrimaryGoal DEF Failed
    <3> QED
      BY <1>1, <2>2, <3>5, FoundAll
  <2>19. CASE reply[1] = 7 /\ \E w : DecFindByTypeResp(reply) = {w} /\ RangesOf(w, s.list)
    <3>1. PICK w : DecFindByTypeResp(reply) = {w} /\ RangesOf(w, list)
      BY <2>15, <2>19
    <3>2. Status = 0
      BY <2>19 DEF Status
    <3> DEFINE E(e) == [start |-> e[1], end |-> e[2], uuid |-> Uuid128(call.uuid)]
    <3>3. /\ found' = found \cup {E(e) : e \in ToSet(w)}
          /\ IF Last(w)[2] = Highest THEN Finish(0) /\ UNCHANGED start
             ELSE PrimaryMore("primary_by_uuid", Last(w)[2])
      BY <3>1, <3>2 DEF PrimaryByUuidCb
    <3>4. PICK n \in 1..Len(list) : n = Len(w)
      BY <3>1 DEF RangesOf
    <3>5. w \in Seq(Word \X Word) /\ n \in Nat /\ n >= 1 /\ ToSet(w) = {w[k] : k \in 1..n}
      BY <3>1, <3>4, ToSetIs DEF RangesOf
    <3>6. \A k \in 1..n : w[k] = <<list[k].handle, list[k].end>>
      BY <3>1, <3>4, Zenon DEF RangesOf
    <3>7. \A k \in 1..n : k \in 1..Len(list)
      BY <3>4
    <3>8. ASSUME NEW k \in 1..n
          PROVE  E(w[k]) = Yield(list[k]) /\ w[k][2] = list[k].end
      <4>1. list[k] \in OfType(attrs, PrimSvc) /\ list[k].value = PutUuidLe(call.uuid)
        BY <2>6, <2>14, <2>15, <3>7 DEF wanted
      <4>2. GetUuid(list[k].value) = call.uuid
        BY <4>1, ArgumentsAre, ReverseTwice DEF GetUuid, PutUuidLe
      <4>3. GetUuid128(list[k].value) = Uuid128(call.uuid)
        BY <4>2 DEF GetUuid128
      <4>4. Yield(list[k]) = [start |-> list[k].handle, end |-> list[k].end, uuid |-> GetUuid128(list[k].value)]
        BY <2>2, PrimaryGoal
      <4>5. w[k][1] = list[k].handle /\ w[k][2] = list[k].end
        BY <3>6
      <4> QED
        BY <4>3, <4>4, <4>5
    <3> HIDE DEF E
    <3>9. {E(e) : e \in ToSet(w)} = {Yield(list[k]) : k \in 1..n}
      BY <3>5, <3>8
    <3>10. Last(w)[2] = list[n].end
      BY <3>4, <3>5, <3>8, LastIs
    <3>11. \A k \in 1..Len(list) : list[k] \in Relevant /\ list[k].handle >= start
      BY <2>4, <2>5, <2>13, <2>14, <2>15
    <3> QED
      BY <1>1, <1>3, <2>2, <2>14, <2>15, <2>17, <3>3, <3>9, <3>10, <3>11, PrimaryGoes
  <2> QED
    BY <2>12, <2>18, <2>19
<1> QED
  BY <1>2, <1>3

\* What a discovery of characteristics is to find.
LEMMA CharGoal ==
  ASSUME call.proc = "char"
  PROVE  /\ Bound = call.end /\ Lowest = call.start /\ Reference = Everything
         /\ Relevant = {a \in Sought(Charac) : Wanted(Characteristic(Declared(a)).uuid)}
         /\ \A a : Yield(a) = Characteristic(Declared(a))
<1>1. Bound = call.end /\ Lowest = call.start
  BY DEF Bound, Lowest
<1>2. Relevant = {a \in Sought(Charac) : Wanted(Characteristic(Declared(a)).uuid)}
  BY DEF Relevant
<1>3. \A a : Yield(a) = Characteristic(Declared(a))
  BY DEF Yield
<1>4. Reference = {c \in Characteristics : Wanted(c.uuid)}
  BY DEF Reference
<1>5. Characteristics = {Characteristic(Declared(a)) : a \in Sought(Charac)}
  BY DEF Characteristics, Declared
<1>6. \A c : c \in Reference <=> \E a \in Sought(Charac) : c = Characteristic(Declared(a)) /\ Wanted(c.uuid)
  BY <1>4, <1>5
<1>7. \A c : c \in Everything <=>
              \E a \in Sought(Charac) : c = Characteristic(Declared(a)) /\ Wanted(Characteristic(Declared(a)).uuid)
  BY <1>2, <1>3 DEF Everything
<1>8. Reference = Everything
  BY <1>6, <1>7
<1> QED
  BY <1>1, <1>2, <1>3, <1>8

\* The list is empty: nothing at all, or nothing more.
LEMMA NothingMoreFound ==
  ASSUME ProcInv, Finding, honest, call.proc \in Finds, NEW cb, Callback(cb), cb # "resolve",
         found = Reference, NothingMore
  PROVE  Finding'
<1>1. PICK e : e = IF found = {} THEN NotFound ELSE 0
  OBVIOUS
<1>2. Finish(e) /\ found' = found
  BY <1>1 DEF NothingMore, Failed
<1>3. e = 0 \/ (e = NotFound /\ Reference = {})
  BY <1>1
<1> QED
  BY <1>2, <1>3, FoundAll

\* char_discovered_cb finds all characteristics that are wanted.
LEMMA CharFinds ==
  ASSUME ProcInv, Finding, CharDiscoveredCb
  PROVE  Finding'
<1>1. Callback("char") /\ UNCHANGED <<buffer, offset, err>> /\ "char" # "resolve"
  BY DEF CharDiscoveredCb
<1>2. CASE ~honest
  BY <1>1, <1>2, CalledBack, Dishonest
<1>3. CASE honest
  <2>1. PICK q \in Req : q.cb = "char" /\ Asks(q)
    BY <1>1, CalledBack
  <2>2. call.proc = "char" /\ call.proc \in Finds
    BY <2>1 DEF Asks, Finds
  <2>3. PICK r \in Req : r.cb = "char" /\ Asks(r) /\ Answered(r)
    BY <1>1, <1>3, <2>2, FoundSoFar
  <2>4. /\ found = Below(start) /\ start \in Nat /\ start # 0 /\ call.start <= start /\ start <= call.end
    BY <1>1, <1>3, <2>2, FoundSoFar, CharGoal
  <2>5. /\ Device(attrs) /\ start \in Word /\ mtu \in Nat /\ 23 <= mtu
        /\ Charac \in Bytes /\ call.end \in Word /\ call.end \in Nat /\ Highest \in Nat
    <3>1. Device(attrs) /\ start \in Word /\ mtu \in Nat /\ 23 <= mtu /\ call.end \in Word
      BY <2>2, ArgumentsAre
    <3>2. Charac \in Bytes /\ Highest \in Nat
      BY TypesAre
    <3> QED
      BY <3>1, <3>2, WordIs
  <2>6. r.pdu = EncReadByTypeReq(start, call.end, Charac) /\ reply = AnswerValues(r.pdu, Listed(Charac), mtu)
    BY <2>3 DEF Asks, Answered
  <2>7. r.pdu[1] = 8
    BY <2>5, <2>6, TypesAre, ReadByTypeReqIs
  <2> DEFINE g == [start |-> start, end |-> call.end, uuid |-> Charac]
  <2>8. PICK s : s = Listed(Charac)
    OBVIOUS
  <2>9. s = Asked(attrs, g, OfType(attrs, Charac)) /\ g.start = start /\ g.end = call.end
    BY <2>8 DEF Listed
  <2>10. \/ Refused(reply, s)
         \/ /\ reply[1] = 9 /\ s.list # <<>>
            /\ \E w : DecReadByTypeResp(reply) = {w} /\ ValuesOf(w, s.list)
    <3>3. s = Asked(attrs, [start |-> start, end |-> call.end, uuid |-> Charac], OfType(attrs, Charac))
      BY <2>9
    <3>4. reply = AnswerValues(r.pdu, s, mtu)
      BY <2>6, <2>8
    <3>5. Refused(reply, s) \/ (reply[1] = 9 /\ s.list # <<>> /\ ValuesHeard(reply, s))
      BY <2>5, <2>7, <3>3, <3>4, AnswerValuesIs
    <3> QED
      BY <3>5, Zenon DEF ValuesHeard
  <2> HIDE DEF g
  <2>11. /\ s.range = g /\ s.list \in Seq(Attribute) /\ Sorted(s.list)
         /\ ToSet(s.list) = {a \in ToSet(attrs) : a \in OfType(attrs, Charac) /\ a.handle \in start..call.end}
         /\ \A k \in 1..Len(s.list) : /\ s.list[k] \in Attribute /\ s.list[k] \in ToSet(attrs)
                                      /\ s.list[k] \in OfType(attrs, Charac)
                                      /\ s.list[k].handle \in start..call.end
    BY <2>5, <2>9, ListedIs
  <2>12. PICK list \in Seq(Attribute) : list = s.list
    BY <2>11
  <2>13. \A a \in Relevant : /\ a.handle \in Nat /\ a.handle <= call.end /\ a \in ToSet(attrs)
                             /\ a \in OfType(attrs, Charac)
    <3>1. Relevant \subseteq OfType(attrs, Charac)
      BY <2>2, CharGoal DEF Sought, OfType
    <3> QED
      BY <2>2, <3>1, RelevantIs, CharGoal
  <2>14. \A a \in Relevant : a.handle >= start => a \in ToSet(list)
    BY <2>4, <2>5, <2>11, <2>12, <2>13
  <2>15. CASE Refused(reply, s)
    <3>1. s.range.start # 0 /\ ~(s.range.start > s.range.end)
      BY <2>4, <2>5, <2>9, <2>11
    <3>2. Status = NotFound /\ Status # 0 /\ list = <<>> /\ reply[1] = 1
      BY <2>12, <2>15, <3>1, RefusedStatus
    <3>3. \A l \in DecReadByTypeResp(reply) : FALSE
      BY <3>2, ValuesDecoded, ArgumentsAre
    <3>4. NothingMore
      BY <3>2, <3>3 DEF CharDiscoveredCb
    <3>5. found = Reference
      BY <2>2, <2>4, <2>14, <3>2, NoneListed, CharGoal
    <3> QED
      BY <1>1, <1>3, <2>2, <3>4, <3>5, NothingMoreFound
  <2>16. CASE reply[1] = 9 /\ \E w : DecReadByTypeResp(reply) = {w} /\ ValuesOf(w, s.list)
    <3>1. PICK w : DecReadByTypeResp(reply) = {w} /\ ValuesOf(w, list)
      BY <2>12, <2>16
    <3>2. Status = 0 /\ Status # NotFound
      BY <2>16 DEF Status, NotFound
    <3>3. PICK last : last = At16(Last(w), 1)
      OBVIOUS
    <3>4. /\ found' = found \cup {c \in {Characteristic(e) : e \in ToSet(w)} : Wanted(c.uuid)}
          /\ IF last < start THEN Finish(Unlikely) /\ UNCHANGED start
             ELSE /\ start' = After(last)
                  /\ IF GoesOn(last, call.end)
                     THEN /\ Then(<<Request("char", EncReadByTypeReq(start', call.end, Charac), 0)>>)
                          /\ UNCHANGED outcome
                     ELSE Finish(0)
      BY <3>1, <3>2, <3>3 DEF CharDiscoveredCb
    <3>5. PICK n \in 1..Len(list) : n = Len(w)
      BY <3>1 DEF ValuesOf
    <3>6. w \in Seq(Bytes) /\ n \in Nat /\ n >= 1 /\ ToSet(w) = {w[k] : k \in 1..n}
      BY <3>1, <3>5, ToSetIs DEF ValuesOf
    <3>7. \A k \in 1..n : w[k] = Declared(list[k])
      BY <3>1, <3>5, Zenon DEF ValuesOf, Declared
    <3>8. \A k \in 1..n : k \in 1..Len(list)
      BY <3>5
    <3>9. last = list[n].handle
      <4>1. Last(w) = w[n] /\ n \in 1..n
        BY <3>5, <3>6, LastIs
      <4>2. list[n].handle \in Word /\ list[n].value \in Bytes
        BY <2>11, <2>12, <3>5, AttributeIs
      <4>3. Last(w) = Le16(list[n].handle) \o list[n].value
        BY <3>7, <4>1 DEF Declared
      <4> QED
        BY <3>3, <4>2, <4>3, ValueEntryIs
    <3>10. \A k \in 1..n : list[k] \in Relevant <=> Wanted(Characteristic(Declared(list[k])).uuid)
      <4> SUFFICES ASSUME NEW k \in 1..n
                   PROVE  list[k] \in Relevant <=> Wanted(Characteristic(Declared(list[k])).uuid)
        OBVIOUS
      <4>1. list[k] \in Sought(Charac)
        <5>1. /\ list[k] \in ToSet(attrs) /\ list[k] \in OfType(attrs, Charac)
              /\ list[k].handle \in start..call.end
          BY <2>11, <2>12, <3>8
        <5>2. list[k].handle \in call.start..call.end
          <6>1. call.start \in Nat /\ call.start <= start
            BY <2>4, ArgumentsAre, WordIs
          <6> QED
            BY <2>4, <2>5, <5>1, <6>1
        <5> QED
          BY <5>1, <5>2 DEF Sought, OfType
      <4> QED
        BY <2>2, <4>1, CharGoal
    <3> DEFINE K == {j \in 1..n : list[j] \in Relevant}
    <3>11. {c \in {Characteristic(e) : e \in ToSet(w)} : Wanted(c.uuid)} = {Yield(list[k]) : k \in K}
      <4>1. \A k \in 1..n : Yield(list[k]) = Characteristic(w[k])
        BY <2>2, <3>7, CharGoal
      <4>2. \A k \in 1..n : k \in K <=> Wanted(Characteristic(w[k]).uuid)
        BY <3>7, <3>10
      <4>3. K \subseteq 1..n
        OBVIOUS
      <4>4. \A c : c \in {x \in {Characteristic(e) : e \in ToSet(w)} : Wanted(x.uuid)}
                     <=> \E k \in 1..n : c = Characteristic(w[k]) /\ Wanted(Characteristic(w[k]).uuid)
        BY <3>6
      <4> HIDE DEF K
      <4>5. \A c : c \in {Yield(list[k]) : k \in K}
                     <=> \E k \in 1..n : c = Characteristic(w[k]) /\ Wanted(Characteristic(w[k]).uuid)
        BY <4>1, <4>2, <4>3
      <4> QED
        BY <4>4, <4>5
    <3>12. PICK a : a = list[n]
      OBVIOUS
    <3>13. /\ a \in Attribute /\ a.handle = last /\ last \in Nat /\ last \in Word
           /\ a \in ToSet(attrs) /\ a.type = Charac /\ start <= last /\ last <= call.end
      <4>1. /\ a \in Attribute /\ a.handle = last /\ a \in ToSet(attrs) /\ a.type = Charac
            /\ last \in start..call.end
        BY <2>11, <2>12, <3>5, <3>9, <3>12 DEF OfType
      <4>2. last \in Word
        BY <4>1, AttributeIs
      <4> QED
        BY <2>4, <2>5, <4>1, <4>2, WordIs
    <3>14. last # Highest /\ \A b \in OfType(attrs, Charac) : b.handle # last + 1
      BY <2>5, <3>13 DEF Device
    <3>15. After(last) = last + 1 /\ last # 0 /\ ~(last < start)
      BY <2>4, <2>5, <3>13, <3>14, AfterIs
    <3>16. found' = Below(last + 1)
      <4>1. \A k \in 1..Len(list) : list[k].handle >= start
        BY <2>4, <2>5, <2>11, <2>12
      <4>2. Relevant \subseteq Attribute /\ Sorted(list)
        BY <2>2, <2>11, <2>12, RelevantIs
      <4>3. Below(list[n].handle + 1) = Below(start) \cup {Yield(list[k]) : k \in K}
        BY <2>4, <2>14, <4>1, <4>2, PrefixFound
      <4> HIDE DEF K
      <4> QED
        BY <2>4, <3>4, <3>9, <3>11, <4>3
    <3>17. CASE GoesOn(last, call.end)
      <4>1. last + 1 < call.end
        BY <3>15, <3>17 DEF GoesOn
      <4>2. PICK p : p = EncReadByTypeReq(start', call.end, Charac)
        OBVIOUS
      <4>3. start' = last + 1 /\ Then(<<Request("char", p, 0)>>) /\ outcome' = outcome
        BY <3>4, <3>15, <3>17, <4>2
      <4>4. Lowest <= last + 1 /\ last + 1 <= Bound
        <5>1. Lowest = call.start /\ Bound = call.end /\ call.start \in Nat
          BY <2>2, CharGoal, ArgumentsAre, WordIs
        <5> QED
          BY <2>4, <2>5, <3>13, <4>1, <5>1
      <4> QED
        BY <1>1, <2>2, <3>16, <4>3, <4>4, FoundMore
    <3>18. CASE ~GoesOn(last, call.end)
      <4>1. ~(last + 1 < call.end)
        BY <3>15, <3>18 DEF GoesOn
      <4>2. \A b \in Relevant : b.handle < last + 1
        <5> SUFFICES ASSUME NEW b \in Relevant PROVE b.handle < last + 1
          OBVIOUS
        <5>1. b.handle \in Nat /\ b.handle <= call.end /\ b.handle # last + 1
          BY <2>13, <3>14
        <5> QED
          BY <2>5, <3>13, <4>1, <5>1
      <4>3. found' = Reference
        BY <2>2, <3>16, <4>2, NoneLeft, CharGoal
      <4>4. Finish(0)
        BY <3>4, <3>15, <3>18
      <4> QED
        BY <1>1, <2>2, <4>3, <4>4, FoundAll
    <3> QED
      BY <3>17, <3>18
  <2> QED
    BY <2>10, <2>15, <2>16
<1> QED
  BY <1>2, <1>3

\* What a discovery of descriptors is to find.
LEMMA DescGoal ==
  ASSUME call.proc = "desc"
  PROVE  /\ Bound = call.end /\ Lowest = call.start
         /\ Relevant = {a \in ToSet(attrs) : a.handle \in call.start..call.end /\ Wanted(Uuid128(a.type))}
         /\ \A a : Yield(a) = [handle |-> a.handle, uuid |-> Uuid128(a.type)]
         /\ call.uuid = <<>> => Reference = Everything
         /\ call.uuid # <<>> => Reference = {d \in Everything : \A c \in Everything : d.handle <= c.handle}
<1>1. Bound = call.end /\ Lowest = call.start
  BY DEF Bound, Lowest
<1>2. Relevant = {a \in ToSet(attrs) : a.handle \in call.start..call.end /\ Wanted(Uuid128(a.type))}
  BY DEF Relevant
<1>3. \A a : Yield(a) = [handle |-> a.handle, uuid |-> Uuid128(a.type)]
  BY DEF Yield
<1> DEFINE S == {b \in ToSet(attrs) : b.handle \in call.start..call.end}
           D(a) == [handle |-> a.handle, uuid |-> Uuid128(a.type)]
           all == {D(a) : a \in S}
<1>4. Reference = {d \in all : /\ Wanted(d.uuid)
                               /\ call.uuid = <<>> \/ \A c \in all : Wanted(c.uuid) => d.handle <= c.handle}
  BY DEF Reference, Descriptors
<1>5. \A d : d \in Everything <=> \E a \in S : d = D(a) /\ Wanted(Uuid128(a.type))
  BY <1>2, <1>3 DEF Everything
<1>6. \A a : D(a).uuid = Uuid128(a.type)
  OBVIOUS
<1> HIDE DEF S, D
<1>7. Everything = {d \in all : Wanted(d.uuid)}
  BY <1>5, <1>6
<1> HIDE DEF all
<1>8. call.uuid = <<>> => Reference = Everything
  BY <1>4, <1>7
<1>9. call.uuid # <<>> => Reference = {d \in Everything : \A c \in Everything : d.handle <= c.handle}
  BY <1>4, <1>7
<1> QED
  BY <1>1, <1>2, <1>3, <1>8, <1>9

\* Everything has been listed.
LEMMA DescAll ==
  ASSUME call.proc = "desc", NEW f, f = Everything, call.uuid # <<>> => f = {}
  PROVE  f = Reference
BY DescGoal

\* The first descriptor that has the UUID.
LEMMA DescHit ==
  ASSUME ProcInv, call.proc = "desc", call.uuid # <<>>, NEW a \in Relevant,
         \A b \in Relevant : a.handle <= b.handle
  PROVE  Reference = {Yield(a)}
<1>1. call.proc \in Finds /\ attrs \in Seq(Attribute) /\ Device(attrs)
  BY ArgumentsAre DEF Finds
<1>2. \A b \in Relevant : b \in ToSet(attrs) /\ b.handle \in Nat
  BY <1>1, RelevantIs
<1>3. \A b \in ToSet(attrs) : b.handle = a.handle => b = a
  <2> SUFFICES ASSUME NEW b \in ToSet(attrs), b.handle = a.handle PROVE b = a
    OBVIOUS
  <2>1. PICK i \in 1..Len(attrs), j \in 1..Len(attrs) : a = attrs[i] /\ b = attrs[j]
    BY <1>1, <1>2, ToSetIs
  <2>2. Len(attrs) \in Nat
    BY <1>1
  <2>3. i < j => a.handle < b.handle
    BY <1>1, <2>1 DEF Device
  <2>4. j < i => b.handle < a.handle
    BY <1>1, <2>1 DEF Device
  <2>5. a.handle \in Nat
    BY <1>2
  <2> QED
    BY <2>1, <2>2, <2>3, <2>4, <2>5
<1>4. \A b : Yield(b).handle = b.handle
  BY DescGoal
<1>5. Everything = {Yield(b) : b \in Relevant}
  BY DEF Everything
<1>6. Reference = {d \in Everything : \A c \in Everything : d.handle <= c.handle}
  BY DescGoal
<1>7. Yield(a) \in Reference
  BY <1>4, <1>5, <1>6
<1>8. ASSUME NEW d \in Reference PROVE d = Yield(a)
  <2>1. PICK b \in Relevant : d = Yield(b)
    BY <1>5, <1>6, <1>8
  <2>2. b.handle <= a.handle
    BY <1>4, <1>5, <1>6, <2>1
  <2>3. b.handle = a.handle
    BY <1>2, <2>2
  <2> QED
    BY <1>2, <1>3, <2>1, <2>3
<1> QED
  BY <1>7, <1>8

\* The entry of a descriptor.
LEMMA TypeEntryIs ==
  ASSUME NEW n \in Word, NEW t \in Bytes
  PROVE  LET w == Le16(n) \o PutUuidLe(t)
         IN w \in Bytes /\ At16(w, 1) = n /\ Descriptor(w) = [handle |-> n, uuid |-> Uuid128(t)]
<1>1. PICK v : v = PutUuidLe(t)
  OBVIOUS
<1>2. v \in Bytes /\ GetUuid(v) = t
  BY <1>1, ReverseTwice DEF PutUuidLe, GetUuid
<1> DEFINE w == Le16(n) \o v
<1>3. w \in Bytes /\ At16(w, 1) = n /\ Octets(w, 3) = v
  BY <1>2, ValueEntryIs
<1> HIDE DEF w
<1>4. Descriptor(w) = [handle |-> n, uuid |-> Uuid128(t)]
  BY <1>2, <1>3 DEF Descriptor, GetUuid128
<1> QED
  BY <1>1, <1>3, <1>4 DEF w

\* desc_discovered_cb finds all descriptors that are wanted.
LEMMA DescFinds ==
  ASSUME ProcInv, Finding, DescDiscoveredCb
  PROVE  Finding'
<1>1. Callback("desc") /\ UNCHANGED <<buffer, offset, err>> /\ "desc" # "resolve"
  BY DEF DescDiscoveredCb
<1>2. CASE ~honest
  BY <1>1, <1>2, CalledBack, Dishonest
<1>3. CASE honest
  <2>1. PICK q \in Req : q.cb = "desc" /\ Asks(q)
    BY <1>1, CalledBack
  <2>2. call.proc = "desc" /\ call.proc \in Finds
    BY <2>1 DEF Asks, Finds
  <2>3. PICK r \in Req : r.cb = "desc" /\ Asks(r) /\ Answered(r)
    BY <1>1, <1>3, <2>2, FoundSoFar
  <2>4. /\ found = Below(start) /\ start \in Nat /\ start # 0 /\ call.start <= start /\ start <= call.end
        /\ call.uuid # <<>> => found = {}
    BY <1>1, <1>3, <2>2, FoundSoFar, DescGoal
  <2>5. /\ Device(attrs) /\ start \in Word /\ mtu \in Nat /\ 23 <= mtu
        /\ call.end \in Word /\ call.end \in Nat /\ Highest \in Nat
    <3>1. Device(attrs) /\ start \in Word /\ mtu \in Nat /\ 23 <= mtu /\ call.end \in Word
      BY <2>2, ArgumentsAre
    <3>2. Highest \in Nat
      BY TypesAre
    <3> QED
      BY <3>1, <3>2, WordIs
  <2>6. r.pdu = EncFindInfoReq(start, call.end) /\ reply = AnswerTypes(r.pdu, ListedAll, mtu)
    BY <2>3 DEF Asks, Answered
  <2>7. r.pdu[1] = 4
    BY <2>5, <2>6, FindInfoReqIs
  <2> DEFINE g == [start |-> start, end |-> call.end]
  <2>8. PICK s : s = ListedAll
    OBVIOUS
  <2>9. s = Asked(attrs, g, ToSet(attrs)) /\ g.start = start /\ g.end = call.end
    BY <2>8 DEF ListedAll
  <2>10. \/ Refused(reply, s)
         \/ /\ reply[1] = 5 /\ s.list # <<>>
            /\ \E w, f : DecFindInfoResp(reply) = {[format |-> f, list |-> w]} /\ TypesOf(w, s.list)
    <3>1. s = Asked(attrs, [start |-> start, end |-> call.end], ToSet(attrs))
      BY <2>9
    <3>2. reply = AnswerTypes(r.pdu, s, mtu)
      BY <2>6, <2>8
    <3>3. Refused(reply, s) \/ (reply[1] = 5 /\ s.list # <<>> /\ TypesHeard(reply, s))
      BY <2>5, <2>7, <3>1, <3>2, AnswerTypesIs
    <3> QED
      BY <3>3, Zenon DEF TypesHeard
  <2> HIDE DEF g
  <2>11. /\ s.range = g /\ s.list \in Seq(Attribute) /\ Sorted(s.list)
         /\ ToSet(s.list) = {a \in ToSet(attrs) : a \in ToSet(attrs) /\ a.handle \in start..call.end}
         /\ \A k \in 1..Len(s.list) : /\ s.list[k] \in Attribute /\ s.list[k] \in ToSet(attrs)
                                      /\ s.list[k].handle \in start..call.end
    BY <2>5, <2>9, ListedIs
  <2>12. PICK list \in Seq(Attribute) : list = s.list
    BY <2>11
  <2>13. \A a \in Relevant : a.handle \in Nat /\ a.handle <= call.end /\ a \in ToSet(attrs)
    BY <2>2, RelevantIs, DescGoal
  <2>14. \A a \in Relevant : a.handle >= start => a \in ToSet(list)
    BY <2>4, <2>5, <2>11, <2>12, <2>13
  <2>15. CASE Refused(reply, s)
    <3>1. s.range.start # 0 /\ ~(s.range.start > s.range.end)
      BY <2>4, <2>5, <2>9, <2>11
    <3>2. Status = NotFound /\ Status # 0 /\ list = <<>> /\ reply[1] = 1
      BY <2>12, <2>15, <3>1, RefusedStatus
    <3>3. \A l \in DecFindInfoResp(reply) : FALSE
      <4> SUFFICES ASSUME NEW l \in DecFindInfoResp(reply) PROVE FALSE
        OBVIOUS
      <4>1. reply \in Bytes
        BY ArgumentsAre
      <4>2. reply[1] = 5
        BY DEF DecFindInfoResp, Decoded
      <4> QED
        BY <3>2, <4>2
    <3>4. NothingMore
      BY <3>2, <3>3 DEF DescDiscoveredCb
    <3>5. found = Reference
      BY <2>2, <2>4, <2>14, <3>2, NoneListed, DescAll
    <3> QED
      BY <1>1, <1>3, <2>2, <3>4, <3>5, NothingMoreFound
  <2>16. CASE /\ reply[1] = 5
              /\ \E w, f : DecFindInfoResp(reply) = {[format |-> f, list |-> w]} /\ TypesOf(w, s.list)
    <3>1. PICK w, f : DecFindInfoResp(reply) = {[format |-> f, list |-> w]} /\ TypesOf(w, list)
      BY <2>12, <2>16
    <3>2. Status = 0 /\ Status # NotFound
      BY <2>16 DEF Status, NotFound
    <3> DEFINE matching == {e \in ToSet(w) : Wanted(Descriptor(e).uuid)}
    <3>3. PICK hit : hit = IF call.uuid = <<>> THEN 0 ELSE FirstMatch(w, matching)
      OBVIOUS
    <3>4. PICK seen : seen = IF hit = 0 THEN w ELSE SubSeq(w, 1, hit)
      OBVIOUS
    <3>5. PICK last : last = IF seen = <<>> THEN Highest ELSE At16(Last(seen), 1)
      OBVIOUS
    <3>6. /\ found' = found \cup {d \in {Descriptor(e) : e \in ToSet(seen)} : Wanted(d.uuid)}
          /\ IF last < start THEN Finish(Unlikely) /\ UNCHANGED start
             ELSE /\ start' = After(last)
                  /\ IF last < call.end /\ hit = 0
                     THEN /\ Then(<<Request("desc", EncFindInfoReq(start', call.end), 0)>>)
                          /\ UNCHANGED outcome
                     ELSE Finish(0)
      <4>1. PICK info : info = [format |-> f, list |-> w]
        OBVIOUS
      <4>2. DecFindInfoResp(reply) = {info} /\ info.list = w
        BY <3>1, <4>1
      <4> QED
        BY <3>2, <3>3, <3>4, <3>5, <4>2 DEF DescDiscoveredCb
    <3>7. PICK m \in 1..Len(list) : m = Len(w)
      BY <3>1 DEF TypesOf
    <3>8. w \in Seq(Bytes) /\ m \in Nat /\ m >= 1 /\ ToSet(w) = {w[k] : k \in 1..m}
      BY <3>1, <3>7, ToSetIs DEF TypesOf
    <3>9. \A k \in 1..m : w[k] = Le16(list[k].handle) \o PutUuidLe(list[k].type)
      BY <3>1, <3>7, Zenon DEF TypesOf
    <3>10. \A k \in 1..m : k \in 1..Len(list)
      BY <3>7
    <3>11. \A k \in 1..m : /\ Descriptor(w[k]) = Yield(list[k]) /\ At16(w[k], 1) = list[k].handle
                           /\ list[k] \in Relevant <=> Wanted(Descriptor(w[k]).uuid)
      <4> SUFFICES ASSUME NEW k \in 1..m
                   PROVE  /\ Descriptor(w[k]) = Yield(list[k]) /\ At16(w[k], 1) = list[k].handle
                          /\ list[k] \in Relevant <=> Wanted(Descriptor(w[k]).uuid)
        OBVIOUS
      <4>1. /\ list[k] \in Attribute /\ list[k] \in ToSet(attrs) /\ list[k].handle \in start..call.end
        BY <2>11, <2>12, <3>10
      <4>2. list[k].handle \in Word /\ list[k].type \in Bytes
        BY <4>1, AttributeIs
      <4>3. /\ At16(w[k], 1) = list[k].handle
            /\ Descriptor(w[k]) = [handle |-> list[k].handle, uuid |-> Uuid128(list[k].type)]
        <5>1. w[k] = Le16(list[k].handle) \o PutUuidLe(list[k].type)
          BY <3>9
        <5> QED
          BY <4>2, <5>1, TypeEntryIs
      <4>4. Yield(list[k]) = [handle |-> list[k].handle, uuid |-> Uuid128(list[k].type)]
        BY <2>2, DescGoal
      <4>5. list[k].handle \in call.start..call.end
        <5>1. call.start \in Nat
          BY ArgumentsAre, WordIs
        <5> QED
          BY <2>4, <2>5, <4>1, <5>1
      <4>6. list[k] \in Relevant <=> Wanted(Uuid128(list[k].type))
        BY <2>2, <4>1, <4>5, DescGoal
      <4>7. [handle |-> list[k].handle, uuid |-> Uuid128(list[k].type)].uuid = Uuid128(list[k].type)
        OBVIOUS
      <4> QED
        BY <4>3, <4>4, <4>6, <4>7
    <3>12. /\ hit = 0 => \A k \in 1..m : call.uuid = <<>> \/ list[k] \notin Relevant
           /\ hit # 0 => /\ call.uuid # <<>> /\ hit \in 1..m /\ list[hit] \in Relevant
                         /\ \A k \in 1..(hit - 1) : list[k] \notin Relevant
      <4>1. \A k \in 1..m : w[k] \in matching <=> list[k] \in Relevant
        BY <3>8, <3>11
      <4>2. ToSet(w) = {w[k] : k \in 1..m}
        BY <3>8
      <4> HIDE DEF matching
      <4>3. CASE call.uuid = <<>>
        BY <3>3, <4>3
      <4>4. CASE call.uuid # <<>>
        <5>1. hit = FirstMatch(w, matching)
          BY <3>3, <4>4
        <5>2. /\ hit = 0 <=> ToSet(w) \cap matching = {}
              /\ hit # 0 => hit \in 1..m /\ w[hit] \in matching
          BY <3>7, <3>8, <5>1, FirstMatchQueue
        <5>3. hit # 0 => \A k \in 1..(hit - 1) : w[k] \notin matching
          BY <3>8, <5>1, FirstMatchFirst
        <5>4. hit # 0 => \A k \in 1..(hit - 1) : k \in 1..m
          BY <3>8, <5>2
        <5> QED
          BY <4>1, <4>2, <4>4, <5>2, <5>3, <5>4
      <4> QED
        BY <4>3, <4>4
    <3> HIDE DEF matching
    <3>13. PICK n \in 1..m : n = IF hit = 0 THEN m ELSE hit
      BY <3>8, <3>12
    <3>14. seen \in Seq(Bytes) /\ Len(seen) = n /\ \A k \in 1..n : seen[k] = w[k] /\ k \in 1..m
      <4>1. CASE hit = 0
        BY <3>4, <3>7, <3>8, <3>13, <4>1
      <4>2. CASE hit # 0
        <5>1. seen = SubSeq(w, 1, n) /\ n \in 1..Len(w)
          BY <3>4, <3>7, <3>13, <4>2
        <5>2. \A k \in 1..n : k \in 1..Len(w)
          BY <3>7, <3>8, <5>1
        <5>3. seen \in Seq(Bytes) /\ Len(seen) = n /\ \A k \in 1..n : seen[k] = w[k]
          BY <3>8, <5>1
        <5> QED
          BY <3>7, <5>2, <5>3
      <4> QED
        BY <4>1, <4>2
    <3>15. n \in 1..Len(list) /\ n \in Nat /\ n >= 1
      BY <3>8, <3>10, <3>13
    <3>16. ToSet(seen) = {w[k] : k \in 1..n}
      <4>1. ToSet(seen) = {seen[k] : k \in 1..Len(seen)}
        BY <3>14, ToSetIs
      <4> QED
        BY <3>14, <4>1
    <3>17. last = list[n].handle
      <4>1. seen # <<>> /\ Last(seen) = seen[n]
        BY <3>14, <3>15, LastIs
      <4>2. seen[n] = w[n] /\ n \in 1..m
        BY <3>14, <3>15
      <4> QED
        BY <3>5, <3>11, <4>1, <4>2
    <3> DEFINE K == {j \in 1..n : list[j] \in Relevant}
    <3>18. {d \in {Descriptor(e) : e \in ToSet(seen)} : Wanted(d.uuid)} = {Yield(list[k]) : k \in K}
      <4>1. \A k \in 1..n : /\ Yield(list[k]) = Descriptor(w[k])
                            /\ k \in K <=> Wanted(Descriptor(w[k]).uuid)
        BY <3>11, <3>14
      <4>2. K \subseteq 1..n
        OBVIOUS
      <4>3. \A d : d \in {c \in {Descriptor(e) : e \in ToSet(seen)} : Wanted(c.uuid)}
                     <=> \E k \in 1..n : d = Descriptor(w[k]) /\ Wanted(Descriptor(w[k]).uuid)
        BY <3>16
      <4> HIDE DEF K
      <4>4. \A d : d \in {Yield(list[k]) : k \in K}
                     <=> \E k \in 1..n : d = Descriptor(w[k]) /\ Wanted(Descriptor(w[k]).uuid)
        BY <4>1, <4>2
      <4> QED
        BY <4>3, <4>4
    <3>19. PICK a : a = list[n]
      OBVIOUS
    <3>20. /\ a.handle = last /\ last \in Nat /\ last \in Word /\ start <= last /\ last <= call.end
           /\ ~(last < start)
      <4>1. a \in Attribute /\ a.handle = last /\ last \in start..call.end
        BY <2>11, <2>12, <3>15, <3>17, <3>19
      <4>2. last \in Word
        BY <4>1, AttributeIs
      <4> QED
        BY <2>4, <2>5, <4>1, <4>2, WordIs
    <3>21. found' = Below(start) \cup {Yield(list[k]) : k \in K} /\ found' = Below(last + 1)
      <4>1. \A k \in 1..Len(list) : list[k].handle >= start
        BY <2>4, <2>5, <2>11, <2>12
      <4>2. Relevant \subseteq Attribute /\ Sorted(list)
        BY <2>2, <2>11, <2>12, RelevantIs
      <4>3. Below(list[n].handle + 1) = Below(start) \cup {Yield(list[k]) : k \in K}
        BY <2>4, <2>14, <3>15, <4>1, <4>2, PrefixFound
      <4> HIDE DEF K
      <4> QED
        BY <2>4, <3>6, <3>17, <3>18, <4>3
    <3>22. CASE hit # 0
      <4>1. call.uuid # <<>> /\ n = hit /\ a \in Relevant /\ \A k \in 1..(n - 1) : list[k] \notin Relevant
        BY <3>12, <3>13, <3>19, <3>22
      <4>2. K = {n}
        BY <3>15, <3>19, <4>1
      <4>3. found' = {Yield(a)}
        BY <2>4, <3>19, <3>21, <4>1, <4>2
      <4>4. \A b \in Relevant : a.handle <= b.handle
        <5> SUFFICES ASSUME NEW b \in Relevant, ~(a.handle <= b.handle) PROVE FALSE
          OBVIOUS
        <5>1. b.handle \in Nat
          BY <2>13
        <5>2. ~(b.handle < start)
          BY <2>4, <4>1 DEF Below
        <5>3. b \in ToSet(list)
          BY <2>4, <2>14, <5>1, <5>2
        <5>4. b.handle <= list[n].handle
          BY <3>17, <3>20, <5>1
        <5>5. \E k \in 1..n : b = list[k]
          BY <2>11, <2>12, <3>15, <5>3, <5>4, PrefixIs
        <5>6. b = list[n]
          BY <3>15, <4>1, <5>5
        <5> QED
          BY <3>19, <3>20, <5>6
      <4>5. found' = Reference
        BY <2>2, <4>1, <4>3, <4>4, DescHit
      <4>6. Finish(0)
        BY <3>6, <3>20, <3>22
      <4> QED
        BY <1>1, <2>2, <4>5, <4>6, FoundAll
    <3>23. CASE hit = 0
      <4>1. call.uuid # <<>> => found' = {}
        <5> SUFFICES ASSUME call.uuid # <<>> PROVE found' = {}
          OBVIOUS
        <5>1. K = {}
          BY <3>12, <3>14, <3>23
        <5> QED
          BY <2>4, <3>21, <5>1
      <4> HIDE DEF K
      <4>2. CASE last < call.end
        <5>1. PICK p : p = EncFindInfoReq(start', call.end)
          OBVIOUS
        <5>2. start' = last + 1 /\ Then(<<Request("desc", p, 0)>>) /\ outcome' = outcome
          <6>1. last # Highest
            BY <2>5, <3>20, <4>2, WordIs, TypesAre
          <6> QED
            BY <3>6, <3>20, <3>23, <4>2, <5>1, <6>1, AfterIs
        <5>3. Lowest <= last + 1 /\ last + 1 <= Bound
          <6>1. Lowest = call.start /\ Bound = call.end /\ call.start \in Nat
            BY <2>2, DescGoal, ArgumentsAre, WordIs
          <6> QED
            BY <2>4, <2>5, <3>20, <4>2, <6>1
        <5> QED
          BY <1>1, <2>2, <3>21, <4>1, <5>2, <5>3, FoundMore
      <4>3. CASE ~(last < call.end)
        <5>1. \A b \in Relevant : b.handle < last + 1
          BY <2>5, <2>13, <3>20, <4>3
        <5>2. found' = Everything
          BY <3>21, <5>1, NoneLeft
        <5>3. found' = Reference
          BY <2>2, <4>1, <5>2, DescAll
        <5>4. Finish(0)
          BY <3>6, <3>20, <4>3
        <5> QED
          BY <1>1, <2>2, <5>3, <5>4, FoundAll
      <4> QED
        BY <4>2, <4>3
    <3> QED
      BY <3>22, <3>23
  <2> QED
    BY <2>10, <2>15, <2>16
<1> QED
  BY <1>2, <1>3

\* What a search for included services is to find.
LEMMA IncludedGoal ==
  ASSUME call.proc = "included"
  PROVE  /\ Bound = call.end /\ Lowest = call.start /\ Reference = Everything
         /\ Relevant = Sought(Include)
         /\ \A a : Yield(a) = Included(Declared(a), ServiceUuid(At16(Declared(a), 3)))
<1>1. Bound = call.end /\ Lowest = call.start
  BY DEF Bound, Lowest
<1>2. Relevant = Sought(Include)
  BY DEF Relevant
<1>3. \A a : Yield(a) = Included(Declared(a), ServiceUuid(At16(Declared(a), 3)))
  BY DEF Yield
<1>4. Reference = Includes
  BY DEF Reference
<1>5. Includes = {Included(e, ServiceUuid(At16(e, 3))) : e \in {Declared(a) : a \in Sought(Include)}}
  BY DEF Includes, ServiceUuid, Declared
<1>6. Everything = {Included(Declared(a), ServiceUuid(At16(Declared(a), 3))) : a \in Sought(Include)}
  BY <1>2, <1>3 DEF Everything
<1>7. Includes = Everything
  BY <1>5, <1>6
<1> QED
  BY <1>1, <1>2, <1>3, <1>4, <1>7

\* Two octets of a string.
LEMMA TwoOctets ==
  ASSUME NEW p \in Bytes, NEW i \in Nat, i >= 1, i + 1 <= Len(p)
  PROVE  SubSeq(p, i, i + 1) = <<p[i], p[i + 1]>>
<1>1. PICK j \in Nat : j = i + 1
  OBVIOUS
<1>2. PICK s : s = SubSeq(p, i, j)
  OBVIOUS
<1>3. i <= j /\ j - i + 1 = 2 /\ j <= Len(p)
  BY <1>1
<1>4. /\ s \in Bytes /\ Len(s) = IF i <= j THEN j - i + 1 ELSE 0
      /\ \A k \in 1..(j - i + 1) : s[k] = p[i + k - 1]
  BY <1>2, <1>3, PartIs
<1>5. Len(s) = 2 /\ 1 \in 1..(j - i + 1) /\ 2 \in 1..(j - i + 1) /\ i + 1 - 1 = i /\ i + 2 - 1 = j
  BY <1>1, <1>3, <1>4
<1>6. s[1] = p[i] /\ s[2] = p[j]
  BY <1>4, <1>5
<1>7. s = <<s[1], s[2]>>
  BY <1>4, <1>5 DEF Bytes
<1> QED
  BY <1>1, <1>2, <1>6, <1>7

\* The declaration of an included service, whose UUID is behind it or is to be asked for.
LEMMA IncludeIs ==
  ASSUME NEW db, Device(db), NEW a \in OfType(db, Include)
  PROVE  LET e == Declared(a)
             i == At(db, At16(e, 3))
         IN /\ a \in Attribute /\ e \in Bytes /\ Len(e) = 2 + Len(a.value) /\ At16(e, 1) = a.handle
            /\ Len(a.value) \in {4, 6} /\ i # 0 /\ db[i].value \in Bytes
            /\ Len(a.value) = 4 => Len(db[i].value) = 16
            /\ Len(a.value) = 6 => SubSeq(e, 7, 8) = db[i].value
<1>1. db \in Seq(Attribute) /\ a \in ToSet(db) /\ a.type = Include
  BY DEF Device, OfType
<1>2. a \in Attribute
  BY <1>1, ToSetIs
<1>3. PICK v \in Bytes : v = a.value
  BY <1>2, AttributeIs
<1>4. PICK n \in Word : n = a.handle
  BY <1>2, AttributeIs
<1>5. PICK h : h = At16(v, 1)
  OBVIOUS
<1>6. PICK i : i = At(db, h)
  OBVIOUS
<1>7. /\ Len(v) \in {4, 6} /\ i # 0
      /\ IF Len(v) = 4 THEN Len(db[i].value) = 16 ELSE db[i].value = SubSeq(v, 5, 6)
  BY <1>1, <1>3, <1>5, <1>6 DEF Device
<1>8. PICK e : e = Declared(a)
  OBVIOUS
<1>9. e = Le16(n) \o v
  BY <1>3, <1>4, <1>8 DEF Declared
<1>10. e \in Bytes /\ Len(e) = 2 + Len(v) /\ At16(e, 1) = n
  BY <1>9, ValueEntryIs
<1>11. \A k \in 1..Len(v) : e[k + 2] = v[k]
  <2>1. PICK w \in Bytes : w = Le16(n) /\ Len(w) = 2
    BY Halves
  <2>2. e = w \o v
    BY <1>9, <2>1
  <2>3. \A k \in 1..Len(v) : e[Len(w) + k] = v[k]
    BY <2>1, <2>2, HeaderRest
  <2>4. Len(v) \in Nat
    BY DEF Bytes
  <2>5. \A k \in 1..Len(v) : k + 2 = Len(w) + k
    BY <2>1, <2>4
  <2> QED
    BY <2>3, <2>5
<1>12. At16(e, 3) = h
  <2>1. e[3] = v[1] /\ e[4] = v[2]
    <3>1. 1 \in 1..Len(v) /\ 2 \in 1..Len(v)
      <4>1. \A m \in {4, 6} : 1 \in 1..m /\ 2 \in 1..m
        OBVIOUS
      <4> QED
        BY <1>7, <4>1
    <3>2. e[1 + 2] = v[1] /\ e[2 + 2] = v[2]
      BY <1>11, <3>1
    <3> QED
      BY <3>2
  <2> QED
    BY <1>5, <2>1 DEF At16
<1>13. ASSUME Len(v) = 6 PROVE SubSeq(e, 7, 8) = SubSeq(v, 5, 6)
  <2>1. e[7] = v[5] /\ e[8] = v[6]
    <3>1. 5 \in 1..Len(v) /\ 6 \in 1..Len(v)
      BY <1>13
    <3>2. e[5 + 2] = v[5] /\ e[6 + 2] = v[6]
      BY <1>11, <3>1
    <3> QED
      BY <3>2
  <2>2. SubSeq(e, 7, 8) = <<e[7], e[8]>>
    <3>1. 7 \in Nat /\ 7 >= 1 /\ 7 + 1 = 8 /\ 7 + 1 <= Len(e)
      BY <1>10, <1>13
    <3> QED
      BY <1>10, <3>1, TwoOctets
  <2>3. SubSeq(v, 5, 6) = <<v[5], v[6]>>
    <3>1. 5 \in Nat /\ 5 >= 1 /\ 5 + 1 = 6 /\ 5 + 1 <= Len(v)
      BY <1>13
    <3> QED
      BY <3>1, TwoOctets
  <2> QED
    BY <2>1, <2>2, <2>3
<1>14. db[i].value \in Bytes
  <2>1. db[i] \in Attribute
    BY <1>1, <1>6, <1>7, AtIs
  <2> QED
    BY <2>1, AttributeIs
<1>15. Len(v) = 6 => SubSeq(e, 7, 8) = db[i].value
  BY <1>7, <1>13
<1> QED
  BY <1>2, <1>3, <1>4, <1>6, <1>7, <1>8, <1>10, <1>12, <1>14, <1>15

\* The requests of a queue that ask for UUIDs, and whether the last one asks for more.
Resolved(r) == Included(r.arg, ServiceUuid(At16(r.arg, 3)))
ResolvedBy(q) == {Resolved(q[i]) : i \in {j \in 1..Len(q) : q[j].cb = "resolve"}}
SeekingIn(q) == q # <<>> /\ q[Len(q)].cb # "resolve"

\* What is still to be asked for, of the queue that a step leaves.
LEMMA QueueFinds ==
  ASSUME attrs' = attrs, NEW q, line' = q
  PROVE  Resolving' = ResolvedBy(q) /\ (Seeking' <=> SeekingIn(q))
<1>1. \A e : Included(e, ServiceUuid(At16(e, 3)))' = Included(e, ServiceUuid(At16(e, 3)))
  BY DEF ServiceUuid
<1>2. Resolving' = ResolvedBy(q)
  BY <1>1 DEF Resolving, ResolvedBy, Resolved
<1>3. Seeking' <=> SeekingIn(q)
  BY DEF Seeking, SeekingIn
<1> QED
  BY <1>2, <1>3

\* A search for included services goes on, or ends with all of them.
LEMMA IncludedGoes ==
  ASSUME ProcInv, Finding, honest, call.proc = "included", err = 0,
         NEW cb, Callback(cb), NEW rs, IsdDone(0, rs),
         NEW q \in Seq(Req), line' = q, NEW s, start' = s,
         q = <<>> => found' = Everything,
         SeekingIn(q) => Lowest <= s /\ s <= Bound /\ found' \cup ResolvedBy(q) = Below(s),
         q # <<>> /\ ~SeekingIn(q) => found' \cup ResolvedBy(q) = Everything,
         \A i \in 1..Len(q) : q[i].cb = "resolve" =>
           \E a \in OfType(attrs, Include) : Len(a.value) = 4 /\ q[i].arg = Declared(a)
  PROVE  Finding'
<1>1. /\ attrs' = attrs /\ call' = call /\ honest' = honest /\ outcome = <<>>
  BY CalledBack
<1>2. /\ err' = 0
      /\ outcome' = IF line' = <<>> THEN Append(outcome, [err |-> 0, found |-> found', buffer |-> buffer])
                    ELSE outcome
  BY DEF IsdDone, IsdEnds
<1>3. CASE q = <<>>
  <2>1. PICK o : o = [err |-> 0, found |-> found', buffer |-> buffer]
    OBVIOUS
  <2>2. outcome' = <<o>>
    <3>1. outcome' = Append(outcome, o)
      BY <1>2, <1>3, <2>1
    <3> QED
      BY <1>1, <3>1
  <2>3. o.err = 0 /\ o.found = Reference
    BY <1>3, <2>1, IncludedGoal
  <2>4. Reference' = Reference
    BY <1>1, GoalStays
  <2>5. outcome'[1] = o /\ outcome' # <<>>
    BY <2>2
  <2>6. Reported(o)'
    BY <2>3, <2>4 DEF Reported
  <2> QED
    BY <2>5, <2>6 DEF Finding
<1>4. CASE q # <<>>
  <2>1. outcome' = <<>> /\ line' # <<>>
    BY <1>1, <1>2, <1>4
  <2>2. Resolving' = ResolvedBy(q) /\ (Seeking' <=> SeekingIn(q))
    BY <1>1, QueueFinds
  <2>3. Bound' = Bound /\ Lowest' = Lowest /\ Everything' = Everything /\ Below(s)' = Below(s)
        /\ \A a : Declared(a)' = Declared(a) /\ OfType(attrs, Include)' = OfType(attrs, Include)
    BY <1>1, GoalStays
  <2>4. Seeking' => Lowest' <= start' /\ start' <= Bound' /\ \A h \in {start'} : found' \cup Resolving' = Below(h)'
    BY <2>2, <2>3
  <2>5. line' # <<>> /\ ~Seeking' => found' \cup Resolving' = Everything'
    BY <2>1, <2>2, <2>3
  <2>6. \A i \in 1..Len(line') : line'[i].cb = "resolve" =>
           \E a \in OfType(attrs, Include)' : Len(a.value) = 4 /\ line'[i].arg = Declared(a)'
    BY <2>3
  <2>7. call'.proc = "included"
    BY <1>1
  <2>8. Progress'
    BY <1>2, <2>1, <2>4, <2>5, <2>6, <2>7 DEF Progress
  <2> QED
    BY <2>1, <2>8 DEF Finding
<1> QED
  BY <1>3, <1>4

\* The first of the requests that ask for UUIDs is done.
LEMMA ResolvedFirst ==
  ASSUME NEW q \in Seq(Req), q # <<>>, q[1].cb = "resolve"
  PROVE  /\ ResolvedBy(q) = {Resolved(q[1])} \cup ResolvedBy(Tail(q))
         /\ SeekingIn(Tail(q)) => SeekingIn(q)
         /\ Tail(q) # <<>> /\ ~SeekingIn(Tail(q)) => ~SeekingIn(q)
         /\ Tail(q) = <<>> => ~SeekingIn(q) /\ ResolvedBy(Tail(q)) = {}
<1>1. PICK t \in Seq(Req) : t = Tail(q)
  BY TailIs
<1>2. /\ Len(q) \in Nat /\ Len(q) >= 1 /\ Len(t) = Len(q) - 1
      /\ \A i \in 1..Len(t) : i + 1 \in 1..Len(q) /\ t[i] = q[i + 1]
  <2>1. /\ Len(q) \in Nat /\ Len(t) = Len(q) - 1
        /\ \A i \in 1..Len(t) : i + 1 \in 1..Len(q) /\ t[i] = q[i + 1]
    BY <1>1, TailIs
  <2>2. Len(q) # 0
    BY EmptySeq
  <2> QED
    BY <2>1, <2>2
<1> DEFINE I(s) == {j \in 1..Len(s) : s[j].cb = "resolve"}
<1>3. \A x : x \in ResolvedBy(q) <=> x = Resolved(q[1]) \/ x \in ResolvedBy(t)
  <2>1. \A i \in 1..Len(q) : i = 1 \/ (i - 1 \in 1..Len(t) /\ q[i] = t[i - 1])
    <3> SUFFICES ASSUME NEW i \in 1..Len(q), i # 1 PROVE i - 1 \in 1..Len(t) /\ q[i] = t[i - 1]
      OBVIOUS
    <3>1. i - 1 \in 1..Len(t) /\ i - 1 + 1 = i
      BY <1>2
    <3> QED
      BY <1>2, <3>1
  <2>2. 1 \in 1..Len(q)
    BY <1>2
  <2>3. \A x : x \in ResolvedBy(q) <=> \E i \in 1..Len(q) : q[i].cb = "resolve" /\ x = Resolved(q[i])
    BY DEF ResolvedBy
  <2>4. \A x : x \in ResolvedBy(t) <=> \E i \in 1..Len(t) : t[i].cb = "resolve" /\ x = Resolved(t[i])
    BY DEF ResolvedBy
  <2>5. ASSUME NEW x \in ResolvedBy(q) PROVE x = Resolved(q[1]) \/ x \in ResolvedBy(t)
    BY <2>1, <2>3, <2>4, <2>5
  <2>6. ASSUME NEW x \in ResolvedBy(t) PROVE x \in ResolvedBy(q)
    <3>1. PICK i \in 1..Len(t) : t[i].cb = "resolve" /\ x = Resolved(t[i])
      BY <2>4, <2>6
    <3>2. i + 1 \in 1..Len(q) /\ t[i] = q[i + 1]
      BY <1>2
    <3> QED
      BY <2>3, <3>1, <3>2
  <2>7. Resolved(q[1]) \in ResolvedBy(q)
    BY <2>2, <2>3
  <2> QED
    BY <2>5, <2>6, <2>7
<1>4. ResolvedBy(q) = {Resolved(q[1])} \cup ResolvedBy(t)
  BY <1>3
<1>5. CASE t = <<>>
  <2>1. Len(t) = 0 /\ Len(q) = 1
    BY <1>2, <1>5
  <2>2. ~SeekingIn(q) /\ ~SeekingIn(t)
    BY <1>5, <2>1 DEF SeekingIn
  <2>3. ResolvedBy(t) = {}
    <3>1. {j \in 1..Len(t) : t[j].cb = "resolve"} = {}
      BY <2>1
    <3> QED
      BY <3>1 DEF ResolvedBy
  <2> QED
    BY <1>1, <1>4, <1>5, <2>2, <2>3
<1>6. CASE t # <<>>
  <2>1. Len(t) # 0 /\ Len(t) \in Nat
    BY <1>6, EmptySeq
  <2>2. Len(t) \in 1..Len(t) /\ Len(t) + 1 = Len(q)
    BY <1>2, <2>1
  <2>3. t[Len(t)] = q[Len(q)]
    BY <1>2, <2>2
  <2>4. SeekingIn(t) <=> SeekingIn(q)
    BY <1>6, <2>3 DEF SeekingIn
  <2> QED
    BY <1>1, <1>4, <1>6, <2>4
<1> QED
  BY <1>5, <1>6

\* resolve_included_uuid_cb finds the service that it is asked for.
LEMMA ResolveFinds ==
  ASSUME ProcInv, Finding, ResolveIncludedUuidCb
  PROVE  Finding'
<1>1. Callback("resolve") /\ UNCHANGED <<start, buffer, offset>>
  BY DEF ResolveIncludedUuidCb
<1>2. CASE ~honest
  BY <1>1, <1>2, CalledBack, Dishonest
<1>3. CASE honest
  <2>1. PICK r \in Req : r = line[1] /\ r = Head(line) /\ r.cb = "resolve" /\ Asks(r) /\ Answered(r)
    BY <1>1, <1>3, CalledBack
  <2>2. call.proc = "included" /\ call.proc \in Finds /\ outcome = <<>>
    BY <1>1, <2>1, CalledBack DEF Asks, Finds
  <2>3. line \in Seq(Req) /\ line # <<>> /\ Len(line) \in Nat /\ Len(line) >= 1
    BY <1>1, UnderWay DEF Callback
  <2>4. Progress
    BY <1>3, <2>2 DEF Finding
  <2>5. 1 \in 1..Len(line)
    BY <2>3
  <2>6. PICK a \in OfType(attrs, Include) : Len(a.value) = 4 /\ r.arg = Declared(a)
    BY <2>1, <2>4, <2>5 DEF Progress
  <2>7. Device(attrs) /\ mtu \in Nat /\ 23 <= mtu /\ 1 <= mtu
    BY <2>2, ArgumentsAre
  <2>8. PICK i : i = At(attrs, At16(r.arg, 3))
    OBVIOUS
  <2>9. PICK v \in Bytes : v = attrs[i].value /\ Len(v) = 16 /\ i # 0
    BY <2>6, <2>7, <2>8, IncludeIs
  <2>10. reply = EncReadResp(v, mtu)
    BY <2>1, <2>8, <2>9 DEF Answered
  <2>11. Upto(v, mtu - 1) = v
    BY <2>7, <2>9 DEF Upto
  <2>12. reply[1] = 11 /\ DecReadResp(reply, mtu) = {v}
    <3>1. reply[1] = 11 /\ Len(reply) <= mtu
      BY <2>7, <2>10, ReadRespIs
    <3>2. Len(reply) <= mtu + 1
      <4>1. reply \in Bytes
        BY ArgumentsAre
      <4>2. Len(reply) \in Nat
        BY <4>1 DEF Bytes
      <4> QED
        BY <2>7, <3>1, <4>2
    <3>3. DecReadResp(reply, mtu) = {Upto(v, mtu - 1)}
      BY <2>7, <2>10, <3>2, ReadRespIs
    <3> QED
      BY <2>11, <3>1, <3>3
  <2>13. Status = 0
    BY <2>12 DEF Status
  <2>14. found' = found \cup {Included(r.arg, GetUuid128(v))} /\ IsdDone(0, <<>>)
    BY <2>1, <2>9, <2>12, <2>13 DEF ResolveIncludedUuidCb
  <2>15. Included(r.arg, GetUuid128(v)) = Resolved(r)
    BY <2>8, <2>9 DEF Resolved, ServiceUuid
  <2>16. PICK q \in Seq(Req) : q = Tail(line)
    BY <2>3, TailIs
  <2>17. line' = q
    <3>1. line' = Tail(line) \o <<>>
      BY <2>14 DEF IsdDone, IsdEnds, Then
    <3>2. q \o <<>> = q
      OBVIOUS
    <3> QED
      BY <2>16, <3>1, <3>2, Zenon
  <2>18. Resolving = ResolvedBy(line) /\ (Seeking <=> SeekingIn(line))
    BY DEF Resolving, ResolvedBy, Resolved, Seeking, SeekingIn
  <2>19. ResolvedBy(line) = {Resolved(r)} \cup ResolvedBy(q)
         /\ (SeekingIn(q) => SeekingIn(line))
         /\ (q # <<>> /\ ~SeekingIn(q) => ~SeekingIn(line))
         /\ (q = <<>> => ~SeekingIn(line) /\ ResolvedBy(q) = {})
    BY <2>1, <2>3, <2>16, ResolvedFirst
  <2>20. found' \cup ResolvedBy(q) = found \cup Resolving
    BY <2>14, <2>15, <2>18, <2>19
  <2>21. PICK s : s = start
    OBVIOUS
  <2>22. start' = s
    BY <1>1, <2>21
  <2>23. /\ Seeking => Lowest <= s /\ s <= Bound /\ found \cup Resolving = Below(s)
         /\ ~Seeking => found \cup Resolving = Everything
         /\ err = 0
    BY <2>3, <2>4, <2>21 DEF Progress
  <2>24. q = <<>> => found' = Everything
    BY <2>18, <2>19, <2>20, <2>23
  <2>25. \A j \in 1..Len(q) : q[j].cb = "resolve" =>
           \E b \in OfType(attrs, Include) : Len(b.value) = 4 /\ q[j].arg = Declared(b)
    <3>1. \A j \in 1..Len(q) : j + 1 \in 1..Len(line) /\ q[j] = line[j + 1]
      BY <2>3, <2>16, TailIs
    <3>2. \A j \in 1..Len(line) : line[j].cb = "resolve" =>
           \E b \in OfType(attrs, Include) : Len(b.value) = 4 /\ line[j].arg = Declared(b)
      BY <2>4 DEF Progress
    <3> QED
      BY <3>1, <3>2
  <2>26. SeekingIn(q) => Lowest <= s /\ s <= Bound /\ found' \cup ResolvedBy(q) = Below(s)
    BY <2>18, <2>19, <2>20, <2>23
  <2>27. q # <<>> /\ ~SeekingIn(q) => found' \cup ResolvedBy(q) = Everything
    BY <2>18, <2>19, <2>20, <2>23
  <2> QED
    BY <1>1, <1>3, <2>2, <2>14, <2>17, <2>22, <2>23, <2>24, <2>25, <2>26, <2>27, IncludedGoes
<1> QED
  BY <1>2, <1>3

\* The UUIDs of the entries of a list are asked for.
LEMMA ResolvingList ==
  ASSUME NEW list \in Seq(Bytes), \A k \in 1..Len(list) : Len(list[k]) = 6
  PROVE  LET rs == [k \in DOMAIN list |-> Resolve(list[k])]
         IN rs \in Seq(Req) /\ Len(rs) = Len(list)
            /\ \A k \in 1..Len(rs) : rs[k].cb = "resolve" /\ rs[k].arg = list[k]
<1> DEFINE rs == [k \in DOMAIN list |-> Resolve(list[k])]
<1>1. DOMAIN list = 1..Len(list) /\ Len(list) \in Nat /\ \A k \in 1..Len(list) : list[k] \in Bytes
  BY LenProperties, ElementOfSeq
<1>2. ASSUME NEW k \in 1..Len(list)
      PROVE  LET r == Resolve(list[k]) IN r \in Req /\ r.cb = "resolve" /\ r.arg = list[k]
  BY <1>1, ResolveIs
<1>3. rs = [k \in 1..Len(list) |-> Resolve(list[k])]
  BY <1>1
<1>4. rs \in [1..Len(list) -> Req]
  BY <1>2, <1>3
<1>5. rs \in Seq(Req) /\ Len(rs) = Len(list) /\ \A k \in 1..Len(list) : rs[k] = Resolve(list[k])
  BY <1>1, <1>3, <1>4
<1> HIDE DEF rs
<1>6. \A k \in 1..Len(rs) : rs[k].cb = "resolve" /\ rs[k].arg = list[k]
  BY <1>2, <1>5
<1> QED
  BY <1>5, <1>6 DEF rs

\* A queue of such requests, and one that ends in a request for more.
LEMMA OnlyResolving ==
  ASSUME NEW rs \in Seq(Req), \A k \in 1..Len(rs) : rs[k].cb = "resolve"
  PROVE  ~SeekingIn(rs) /\ ResolvedBy(rs) = {Resolved(rs[k]) : k \in 1..Len(rs)}
<1>1. rs # <<>> => Len(rs) \in 1..Len(rs)
  <2>1. Len(rs) \in Nat /\ (rs # <<>> => Len(rs) # 0)
    BY EmptySeq
  <2> QED
    BY <2>1
<1>2. ~SeekingIn(rs)
  BY <1>1 DEF SeekingIn
<1>3. {j \in 1..Len(rs) : rs[j].cb = "resolve"} = 1..Len(rs)
  OBVIOUS
<1> QED
  BY <1>2, <1>3 DEF ResolvedBy

\* Such a queue, followed by a request for more.
LEMMA ResolvingThenMore ==
  ASSUME NEW rs \in Seq(Req), \A k \in 1..Len(rs) : rs[k].cb = "resolve",
         NEW more \in Req, more.cb # "resolve"
  PROVE  LET ts == Append(rs, more)
         IN /\ ts \in Seq(Req) /\ ts # <<>> /\ SeekingIn(ts) /\ ResolvedBy(ts) = ResolvedBy(rs)
            /\ \A k \in 1..Len(ts) : ts[k].cb = "resolve" => k \in 1..Len(rs) /\ ts[k] = rs[k]
<1> DEFINE ts == Append(rs, more)
<1>1. /\ ts \in Seq(Req) /\ Len(ts) = Len(rs) + 1 /\ Len(rs) \in Nat
      /\ \A k \in 1..Len(rs) : ts[k] = rs[k]
      /\ ts[Len(rs) + 1] = more
  OBVIOUS
<1> HIDE DEF ts
<1>2. ts # <<>>
  <2>1. Len(ts) # 0
    BY <1>1
  <2> QED
    BY <2>1
<1>3. SeekingIn(ts)
  BY <1>1, <1>2 DEF SeekingIn
<1>4. \A k \in 1..Len(ts) : k = Len(rs) + 1 \/ (k \in 1..Len(rs) /\ ts[k] = rs[k])
  BY <1>1
<1>5. \A k \in 1..Len(ts) : ts[k].cb = "resolve" => k \in 1..Len(rs) /\ ts[k] = rs[k]
  BY <1>1, <1>4
<1>6. \A k \in 1..Len(rs) : k \in 1..Len(ts)
  BY <1>1
<1>7. {j \in 1..Len(ts) : ts[j].cb = "resolve"} = 1..Len(rs)
  BY <1>1, <1>5, <1>6
<1>8. ResolvedBy(ts) = ResolvedBy(rs)
  <2>1. ResolvedBy(ts) = {Resolved(ts[k]) : k \in 1..Len(rs)}
    BY <1>7 DEF ResolvedBy
  <2>2. ResolvedBy(rs) = {Resolved(rs[k]) : k \in 1..Len(rs)}
    BY OnlyResolving
  <2>3. \A k \in 1..Len(rs) : Resolved(ts[k]) = Resolved(rs[k])
    BY <1>1
  <2> QED
    BY <2>1, <2>2, <2>3
<1> QED
  BY <1>1, <1>2, <1>3, <1>5, <1>8 DEF ts

\* find_included_cb finds the included services, or asks for their UUIDs.
LEMMA IncludedFinds ==
  ASSUME ProcInv, Finding, FindIncludedCb
  PROVE  Finding'
<1>1. Callback("included") /\ UNCHANGED <<buffer, offset>> /\ "included" # "resolve"
  BY DEF FindIncludedCb
<1>2. CASE ~honest
  BY <1>1, <1>2, CalledBack, Dishonest
<1>3. CASE honest
  <2>1. PICK q \in Req : q.cb = "included" /\ Asks(q)
    BY <1>1, CalledBack
  <2>2. call.proc = "included" /\ call.proc \in Finds
    BY <2>1 DEF Asks, Finds
  <2>3. PICK r \in Req : r.cb = "included" /\ Asks(r) /\ Answered(r)
    BY <1>1, <1>3, <2>2, FoundSoFar
  <2>4. /\ found = Below(start) /\ start \in Nat /\ start # 0 /\ call.start <= start /\ start <= call.end
        /\ err = 0
    BY <1>1, <1>3, <2>2, FoundSoFar, IncludedGoal
  <2>5. /\ Device(attrs) /\ start \in Word /\ mtu \in Nat /\ 23 <= mtu
        /\ Include \in Bytes /\ Len(Include) \in {2, 16}
        /\ call.end \in Word /\ call.end \in Nat /\ Highest \in Nat /\ Highest \in Word
    <3>1. Device(attrs) /\ start \in Word /\ mtu \in Nat /\ 23 <= mtu /\ call.end \in Word
      BY <2>2, ArgumentsAre
    <3>2. Include \in Bytes /\ Len(Include) \in {2, 16} /\ Highest \in Word
      BY TypesAre
    <3> QED
      BY <3>1, <3>2, WordIs
  <2>6. r.pdu = EncReadByTypeReq(start, call.end, Include) /\ reply = AnswerValues(r.pdu, Listed(Include), mtu)
    BY <2>3 DEF Asks, Answered
  <2>7. r.pdu[1] = 8
    BY <2>5, <2>6, ReadByTypeReqIs
  <2> DEFINE g == [start |-> start, end |-> call.end, uuid |-> Include]
  <2>8. PICK s : s = Listed(Include)
    OBVIOUS
  <2>9. s = Asked(attrs, g, OfType(attrs, Include)) /\ g.start = start /\ g.end = call.end
    BY <2>8 DEF Listed
  <2>10. \/ Refused(reply, s)
         \/ /\ reply[1] = 9 /\ s.list # <<>>
            /\ \E w : DecReadByTypeResp(reply) = {w} /\ ValuesOf(w, s.list)
    <3>1. s = Asked(attrs, [start |-> start, end |-> call.end, uuid |-> Include], OfType(attrs, Include))
      BY <2>9
    <3>2. reply = AnswerValues(r.pdu, s, mtu)
      BY <2>6, <2>8
    <3>3. Refused(reply, s) \/ (reply[1] = 9 /\ s.list # <<>> /\ ValuesHeard(reply, s))
      BY <2>5, <2>7, <3>1, <3>2, AnswerValuesIs
    <3> QED
      BY <3>3, Zenon DEF ValuesHeard
  <2> HIDE DEF g
  <2>11. /\ s.range = g /\ s.list \in Seq(Attribute) /\ Sorted(s.list)
         /\ ToSet(s.list) = {a \in ToSet(attrs) : a \in OfType(attrs, Include) /\ a.handle \in start..call.end}
         /\ \A k \in 1..Len(s.list) : /\ s.list[k] \in Attribute /\ s.list[k] \in ToSet(attrs)
                                      /\ s.list[k] \in OfType(attrs, Include)
                                      /\ s.list[k].handle \in start..call.end
    BY <2>5, <2>9, ListedIs
  <2>12. PICK list \in Seq(Attribute) : list = s.list
    BY <2>11
  <2>13. \A a \in Relevant : /\ a.handle \in Nat /\ a.handle <= call.end /\ a \in ToSet(attrs)
                             /\ a \in OfType(attrs, Include)
    <3>1. Relevant \subseteq OfType(attrs, Include)
      BY <2>2, IncludedGoal DEF Sought, OfType
    <3> QED
      BY <2>2, <3>1, RelevantIs, IncludedGoal
  <2>14. \A a \in Relevant : a.handle >= start => a \in ToSet(list)
    BY <2>4, <2>5, <2>11, <2>12, <2>13
  <2>15. CASE Refused(reply, s)
    <3>1. s.range.start # 0 /\ ~(s.range.start > s.range.end)
      BY <2>4, <2>5, <2>9, <2>11
    <3>2. Status = NotFound /\ Status # 0 /\ list = <<>> /\ reply[1] = 1
      BY <2>12, <2>15, <3>1, RefusedStatus
    <3>3. \A l \in DecReadByTypeResp(reply) : FALSE
      BY <3>2, ValuesDecoded, ArgumentsAre
    <3>4. UNCHANGED <<start, found>> /\ IsdDone(0, <<>>)
      BY <3>2, <3>3 DEF FindIncludedCb
    <3>5. found' = Everything
      BY <2>2, <2>4, <2>14, <3>2, <3>4, NoneListed
    <3>6. PICK z \in Seq(Req) : z = <<>> /\ Len(z) = 0
      <4>1. <<>> \in Seq(Req) /\ Len(<<>>) = 0
        OBVIOUS
      <4> QED
        BY <4>1
    <3>7. line' = z /\ ~SeekingIn(z) /\ \A i \in 1..Len(z) : FALSE
      <4>1. Tail(line) = <<>> /\ line' = Tail(line) \o <<>>
        BY <1>1, <3>4, CalledBack DEF IsdDone, IsdEnds, Then
      <4> QED
        BY <3>6, <4>1 DEF SeekingIn
    <3>8. PICK t : t = start
      OBVIOUS
    <3>9. start' = t
      BY <3>4, <3>8
    <3> QED
      BY <1>1, <1>3, <2>2, <2>4, <3>4, <3>5, <3>6, <3>7, <3>9, IncludedGoes
  <2>16. CASE reply[1] = 9 /\ \E w : DecReadByTypeResp(reply) = {w} /\ ValuesOf(w, s.list)
    <3>1. PICK w : DecReadByTypeResp(reply) = {w} /\ ValuesOf(w, list)
      BY <2>12, <2>16
    <3>2. Status = 0
      BY <2>16 DEF Status
    <3>3. PICK last : last = At16(Last(w), 1)
      OBVIOUS
    <3>4. PICK rs : rs = IF Len(w[1]) = 6 THEN [k \in DOMAIN w |-> Resolve(w[k])] ELSE <<>>
      OBVIOUS
    <3>5. PICK p : p = EncReadByTypeReq(After(last), call.end, Include)
      OBVIOUS
    <3>6. PICK n \in 1..Len(list) : n = Len(w)
      BY <3>1 DEF ValuesOf
    <3>7. w \in Seq(Bytes) /\ n \in Nat /\ n >= 1 /\ ToSet(w) = {w[k] : k \in 1..n}
      BY <3>1, <3>6, ToSetIs DEF ValuesOf
    <3>8. \A k \in 1..n : w[k] = Declared(list[k])
      BY <3>1, <3>6, Zenon DEF ValuesOf, Declared
    <3>9. \A k \in 1..n : k \in 1..Len(list)
      BY <3>6
    <3>10. \A k \in 1..n : Len(w[k]) = Len(w[1])
      <4>1. w \in DecReadByTypeResp(reply) /\ reply \in Bytes
        BY <3>1, ArgumentsAre
      <4> QED
        BY <3>6, <4>1, ValuesDecoded
    <3>11. \A k \in 1..n : /\ list[k] \in OfType(attrs, Include) /\ list[k] \in Relevant
                           /\ list[k] \in Attribute /\ list[k].handle \in start..call.end
      <4> SUFFICES ASSUME NEW k \in 1..n
                   PROVE  /\ list[k] \in OfType(attrs, Include) /\ list[k] \in Relevant
                          /\ list[k] \in Attribute /\ list[k].handle \in start..call.end
        OBVIOUS
      <4>1. /\ list[k] \in ToSet(attrs) /\ list[k] \in OfType(attrs, Include) /\ list[k] \in Attribute
            /\ list[k].handle \in start..call.end
        BY <2>11, <2>12, <3>9
      <4>2. list[k].handle \in call.start..call.end
        <5>1. call.start \in Nat
          BY ArgumentsAre, WordIs
        <5> QED
          BY <2>4, <2>5, <4>1, <5>1
      <4>3. list[k] \in Sought(Include)
        BY <4>1, <4>2 DEF Sought, OfType
      <4> QED
        BY <2>2, <4>1, <4>3, IncludedGoal
    <3>12. \A k \in 1..n : /\ w[k] \in Bytes /\ Len(w[k]) = 2 + Len(list[k].value)
                           /\ At16(w[k], 1) = list[k].handle /\ Len(list[k].value) \in {4, 6}
                           /\ Len(list[k].value) = 6 => Included(w[k], GetUuid128(SubSeq(w[k], 7, 8))) = Yield(list[k])
                           /\ Yield(list[k]) = Included(w[k], ServiceUuid(At16(w[k], 3)))
      <4> SUFFICES ASSUME NEW k \in 1..n
            PROVE  /\ w[k] \in Bytes /\ Len(w[k]) = 2 + Len(list[k].value)
                   /\ At16(w[k], 1) = list[k].handle /\ Len(list[k].value) \in {4, 6}
                   /\ Len(list[k].value) = 6 => Included(w[k], GetUuid128(SubSeq(w[k], 7, 8))) = Yield(list[k])
                   /\ Yield(list[k]) = Included(w[k], ServiceUuid(At16(w[k], 3)))
        OBVIOUS
      <4>1. PICK a \in OfType(attrs, Include) : a = list[k]
        BY <3>11
      <4>2. PICK e : e = Declared(a) /\ e = w[k]
        BY <3>8, <4>1
      <4>3. PICK i : i = At(attrs, At16(e, 3))
        OBVIOUS
      <4>4. /\ e \in Bytes /\ Len(e) = 2 + Len(a.value) /\ At16(e, 1) = a.handle
            /\ Len(a.value) \in {4, 6} /\ (Len(a.value) = 6 => SubSeq(e, 7, 8) = attrs[i].value)
        BY <2>5, <4>2, <4>3, IncludeIs
      <4>5. ServiceUuid(At16(e, 3)) = GetUuid128(attrs[i].value)
        BY <4>3 DEF ServiceUuid
      <4>6. Yield(a) = Included(e, ServiceUuid(At16(e, 3)))
        BY <2>2, <4>2, IncludedGoal
      <4> QED
        BY <4>1, <4>2, <4>4, <4>5, <4>6
    <3>13. last = list[n].handle /\ n \in 1..n
      <4>1. Last(w) = w[n] /\ n \in 1..n
        BY <3>6, <3>7, LastIs
      <4> QED
        BY <3>3, <3>12, <4>1
    <3>14. Len(w[1]) \in {6, 8} /\ 1 \in 1..n
      <4>1. 1 \in 1..n
        BY <3>7
      <4>2. Len(w[1]) = 2 + Len(list[1].value) /\ Len(list[1].value) \in {4, 6}
        BY <3>12, <4>1
      <4>3. \A m \in {4, 6} : 2 + m \in {6, 8}
        OBVIOUS
      <4> QED
        BY <4>1, <4>2, <4>3
    <3>15. /\ found' = found \cup (IF Len(w[1]) = 6 THEN {}
                                   ELSE {Included(e, GetUuid128(SubSeq(e, 7, 8))) : e \in ToSet(w)})
           /\ IF last < start THEN IsdEnds(Unlikely, rs) /\ UNCHANGED start
              ELSE /\ start' = After(last)
                   /\ IsdDone(0, IF last < call.end THEN Append(rs, Request("included", p, 0)) ELSE rs)
      BY <3>1, <3>2, <3>3, <3>4, <3>5, <3>14 DEF FindIncludedCb
    <3>16. PICK a : a = list[n]
      OBVIOUS
    <3>17. /\ a.handle = last /\ last \in Nat /\ last \in Word /\ start <= last /\ last <= call.end
           /\ ~(last < start)
      <4>1. a \in Attribute /\ a.handle = last /\ last \in start..call.end
        BY <3>11, <3>13, <3>16
      <4>2. last \in Word
        BY <4>1, AttributeIs
      <4> QED
        BY <2>4, <2>5, <4>1, <4>2, WordIs
    <3> DEFINE Y == {Yield(list[k]) : k \in 1..n}
    <3>18. Below(last + 1) = Below(start) \cup Y
      <4>1. \A k \in 1..Len(list) : list[k].handle >= start
        BY <2>4, <2>5, <2>11, <2>12
      <4>2. Relevant \subseteq Attribute /\ Sorted(list)
        BY <2>2, <2>11, <2>12, RelevantIs
      <4>3. Below(list[n].handle + 1) = Below(start) \cup {Yield(list[k]) : k \in {j \in 1..n : list[j] \in Relevant}}
        BY <2>4, <2>14, <4>1, <4>2, PrefixFound
      <4>4. {j \in 1..n : list[j] \in Relevant} = 1..n
        BY <3>11
      <4> QED
        BY <3>13, <4>3, <4>4
    <3>19. /\ rs \in Seq(Req) /\ \A k \in 1..Len(rs) : rs[k].cb = "resolve"
           /\ found' \cup ResolvedBy(rs) = found \cup Y /\ (rs = <<>> => found' = found \cup Y)
           /\ \A k \in 1..Len(rs) : \E b \in OfType(attrs, Include) : Len(b.value) = 4 /\ rs[k].arg = Declared(b)
      <4>1. CASE Len(w[1]) = 6
        <5>1. rs = [k \in DOMAIN w |-> Resolve(w[k])] /\ \A k \in 1..Len(w) : Len(w[k]) = 6
          BY <3>4, <3>6, <3>10, <4>1
        <5>2. /\ rs \in Seq(Req) /\ Len(rs) = n
              /\ \A k \in 1..n : rs[k].cb = "resolve" /\ rs[k].arg = w[k]
          BY <3>6, <3>7, <5>1, ResolvingList
        <5>3. ResolvedBy(rs) = {Resolved(rs[k]) : k \in 1..n}
          BY <5>2, OnlyResolving
        <5>4. \A k \in 1..n : Resolved(rs[k]) = Yield(list[k])
          BY <3>12, <5>2 DEF Resolved
        <5>5. ResolvedBy(rs) = Y
          BY <5>3, <5>4
        <5>6. rs # <<>>
          BY <3>7, <5>2
        <5>7. found' = found
          BY <3>15, <4>1
        <5>8. ASSUME NEW k \in 1..n
              PROVE  \E b \in OfType(attrs, Include) : Len(b.value) = 4 /\ rs[k].arg = Declared(b)
          <6>1. list[k] \in OfType(attrs, Include) /\ rs[k].arg = Declared(list[k])
            BY <3>8, <3>11, <5>2
          <6>2. Len(list[k].value) = 4
            <7>1. 2 + Len(list[k].value) = 6 /\ Len(list[k].value) \in {4, 6}
              BY <3>10, <3>12, <4>1
            <7>2. \A m \in {4, 6} : 2 + m = 6 => m = 4
              OBVIOUS
            <7> QED
              BY <7>1, <7>2
          <6> QED
            BY <6>1, <6>2
        <5> HIDE DEF Y
        <5> QED
          BY <5>2, <5>5, <5>6, <5>7, <5>8
      <4>2. CASE Len(w[1]) # 6
        <5>1. rs = <<>> /\ rs \in Seq(Req) /\ Len(rs) = 0
          BY <3>4, <4>2
        <5>2. \A k \in 1..n : Len(list[k].value) = 6
          <6> SUFFICES ASSUME NEW k \in 1..n PROVE Len(list[k].value) = 6
            OBVIOUS
          <6>1. 2 + Len(list[k].value) # 6 /\ Len(list[k].value) \in {4, 6}
            BY <3>10, <3>12, <4>2
          <6>2. \A m \in {4, 6} : 2 + m # 6 => m = 6
            OBVIOUS
          <6> QED
            BY <6>1, <6>2
        <5>3. {Included(e, GetUuid128(SubSeq(e, 7, 8))) : e \in ToSet(w)} = Y
          BY <3>7, <3>12, <5>2
        <5>4. ResolvedBy(rs) = {} /\ \A k \in 1..Len(rs) : FALSE
          BY <5>1 DEF ResolvedBy
        <5> HIDE DEF Y
        <5>5. found' = found \cup Y
          BY <3>15, <4>2, <5>3
        <5> QED
          BY <5>1, <5>4, <5>5
      <4> QED
        BY <4>1, <4>2
    <3> HIDE DEF Y
    <3>20. found' \cup ResolvedBy(rs) = Below(last + 1) /\ (rs = <<>> => found' = Below(last + 1))
      BY <2>4, <3>18, <3>19
    <3>21. Tail(line) = <<>> /\ \A x \in Seq(Req) : Tail(line) \o x = x
      <4>1. Tail(line) = <<>>
        BY <1>1, CalledBack
      <4>2. \A x \in Seq(Req) : <<>> \o x = x
        OBVIOUS
      <4> QED
        BY <4>1, <4>2
    <3>22. CASE last < call.end
      <4>1. After(last) = last + 1 /\ last + 1 \in Word
        <5>1. last # Highest
          BY <2>5, <3>17, <3>22, WordIs, TypesAre
        <5> QED
          BY <3>17, <5>1, AfterIs
      <4>2. p \in Bytes
        BY <2>5, <3>5, <4>1, ReadByTypeReqIs
      <4>3. PICK more \in Req : more = Request("included", p, 0) /\ more.cb = "included"
        BY <4>2, RequestIs DEF Cbs
      <4>4. PICK ts : ts = Append(rs, more)
        OBVIOUS
      <4>5. start' = last + 1 /\ IsdDone(0, ts)
        BY <3>15, <3>17, <3>22, <4>1, <4>3, <4>4
      <4>6. /\ ts \in Seq(Req) /\ ts # <<>> /\ SeekingIn(ts) /\ ResolvedBy(ts) = ResolvedBy(rs)
            /\ \A k \in 1..Len(ts) : ts[k].cb = "resolve" => k \in 1..Len(rs) /\ ts[k] = rs[k]
        BY <3>19, <4>3, <4>4, ResolvingThenMore
      <4>7. line' = ts
        BY <3>21, <4>5, <4>6 DEF IsdDone, IsdEnds, Then
      <4>8. Lowest <= last + 1 /\ last + 1 <= Bound
        <5>1. Lowest = call.start /\ Bound = call.end /\ call.start \in Nat
          BY <2>2, IncludedGoal, ArgumentsAre, WordIs
        <5> QED
          BY <2>4, <2>5, <3>17, <3>22, <5>1
      <4>9. \A i \in 1..Len(ts) : ts[i].cb = "resolve" =>
              \E b \in OfType(attrs, Include) : Len(b.value) = 4 /\ ts[i].arg = Declared(b)
        BY <3>19, <4>6
      <4>10. found' \cup ResolvedBy(ts) = Below(last + 1)
        BY <3>20, <4>6
      <4> QED
        BY <1>1, <1>3, <2>2, <2>4, <4>5, <4>6, <4>7, <4>8, <4>9, <4>10, IncludedGoes
    <3>23. CASE ~(last < call.end)
      <4>1. IsdDone(0, rs)
        BY <3>15, <3>17, <3>23
      <4>2. line' = rs
        BY <3>19, <3>21, <4>1 DEF IsdDone, IsdEnds, Then
      <4>3. \A b \in Relevant : b.handle < last + 1
        BY <2>5, <2>13, <3>17, <3>23
      <4>4. Below(last + 1) = Everything
        BY <4>3, NoneLeft
      <4>5. PICK t : t = After(last)
        OBVIOUS
      <4>6. start' = t
        BY <3>15, <3>17, <4>5
      <4>7. ~SeekingIn(rs)
        BY <3>19, OnlyResolving
      <4> QED
        BY <1>1, <1>3, <2>2, <2>4, <3>19, <3>20, <4>1, <4>2, <4>4, <4>6, <4>7, IncludedGoes
    <3> QED
      BY <3>22, <3>23
  <2> QED
    BY <2>10, <2>15, <2>16
<1> QED
  BY <1>2, <1>3

\* A step of the connection leaves what has been found.
LEMMA FindingStays ==
  ASSUME Finding, UNCHANGED <<attrs, call, line, start, found, err, outcome>>, honest' => honest
  PROVE  Finding'
<1>1. /\ Reference' = Reference /\ Everything' = Everything /\ Bound' = Bound /\ Lowest' = Lowest
      /\ \A h : Below(h)' = Below(h)
      /\ \A a : Declared(a)' = Declared(a) /\ OfType(attrs, Include)' = OfType(attrs, Include)
  BY GoalStays
<1>2. PICK q : q = line
  OBVIOUS
<1>3. line' = q /\ Resolving' = ResolvedBy(q) /\ (Seeking' <=> SeekingIn(q))
  <2>1. line' = q
    BY <1>2
  <2> QED
    BY <2>1, QueueFinds
<1>4. Resolving = ResolvedBy(q) /\ (Seeking <=> SeekingIn(q))
  BY <1>2 DEF Resolving, ResolvedBy, Resolved, Seeking, SeekingIn
<1>5. ASSUME Progress PROVE Progress'
  <2>1. err' = 0 /\ (line' = <<>> => found' = {}) /\ (call'.proc = "desc" /\ call'.uuid # <<>> => found' = {})
    BY <1>5 DEF Progress
  <2>2. PICK s : s = start
    OBVIOUS
  <2>3. Seeking => Lowest <= s /\ s <= Bound /\ found \cup Resolving = Below(s)
    BY <1>5, <2>2 DEF Progress
  <2>4. start' = s /\ found' = found /\ Below(s)' = Below(s)
    BY <1>1, <2>2
  <2>5. Seeking' => Lowest' <= start' /\ start' <= Bound' /\ \A h \in {start'} : found' \cup Resolving' = Below(h)'
    BY <1>1, <1>3, <1>4, <2>3, <2>4
  <2>6. line' # <<>> /\ ~Seeking' => found' \cup Resolving' = Everything'
    BY <1>1, <1>3, <1>4, <1>5 DEF Progress
  <2>7. \A i \in 1..Len(line') : line'[i].cb = "resolve" =>
           \E a \in OfType(attrs, Include)' : Len(a.value) = 4 /\ line'[i].arg = Declared(a)'
    BY <1>1, <1>5 DEF Progress
  <2> QED
    BY <2>1, <2>5, <2>6, <2>7 DEF Progress
<1>6. \A o : Reported(o) => Reported(o)'
  BY <1>1 DEF Reported
<1>7. ASSUME honest', call'.proc \in Finds
      PROVE  (outcome' = <<>> => Progress') /\ (outcome' # <<>> => Reported(outcome[1])')
  BY <1>5, <1>6, <1>7 DEF Finding
<1>8. \A o : o = outcome[1] => (Reported(outcome[1])' <=> Reported(o)')
  OBVIOUS
<1> QED
  BY <1>7 DEF Finding

\* Nothing is claimed of the other procedures.
LEMMA NoDiscovery ==
  ASSUME call.proc \notin Finds, call' = call
  PROVE  Finding'
BY DEF Finding

\* A discovery begins with nothing found.
LEMMA FoundFirst ==
  ASSUME ProcInv, Finding, NEW proc \in Finds, NEW cb, cb # "resolve", NEW p, Begin(proc, p, cb),
         NEW s, start' = s, s = Lowest
  PROVE  Finding'
<1>1. /\ call.proc = proc /\ line = <<>> /\ outcome = <<>> /\ line' = <<Request(cb, p, 0)>>
      /\ UNCHANGED <<attrs, honest, call, found, err, outcome>>
  BY DEF Begin, device
<1>2. found' = {} /\ err' = 0 /\ outcome' = <<>>
  BY <1>1 DEF ProcInv, Fresh
<1>3. PICK r : r = Request(cb, p, 0)
  OBVIOUS
<1>4. r.cb = cb /\ Len(line') = 1 /\ line' # <<>> /\ line'[1] = r /\ \A i \in 1..Len(line') : i = 1
  <2>1. line' = <<r>>
    BY <1>1, <1>3
  <2>2. r.cb = cb
    BY <1>3 DEF Request
  <2> QED
    BY <2>1, <2>2
<1>5. Seeking' /\ \A i \in 1..Len(line') : line'[i].cb # "resolve"
  BY <1>4 DEF Seeking
<1>6. Resolving' = {}
  <2>1. {j \in 1..Len(line') : line'[j].cb = "resolve"} = {}
    BY <1>5
  <2> QED
    BY <2>1 DEF Resolving
<1>7. Below(s) = {}
  <2>1. Lowest \in Nat /\ \A a \in Relevant : a.handle \in Nat /\ Lowest <= a.handle
    BY <1>1, RelevantIs
  <2>2. \A a \in Relevant : ~(a.handle < s)
    BY <2>1
  <2> QED
    BY <2>2, NoneBelow
<1>8. s <= Bound /\ Lowest <= s
  <2>1. Lowest \in Nat
    BY <1>1, RelevantIs
  <2>2. CASE call.proc = "primary"
    BY <2>2 DEF Bound, Lowest, Highest
  <2>3. CASE call.proc # "primary"
    <3>1. call.proc \in {"included", "char", "desc"}
      BY <1>1, <2>3 DEF Finds
    <3>2. call.start <= call.end
      BY <3>1 DEF ProcInv, Fixed, Arguable
    <3> QED
      BY <2>1, <2>3, <3>2 DEF Bound, Lowest
  <2> QED
    BY <2>2, <2>3
<1>9. Below(s)' = Below(s) /\ Bound' = Bound /\ Lowest' = Lowest
  BY <1>1, GoalStays
<1>10. \A h \in {start'} : found' \cup Resolving' = Below(h)'
  BY <1>2, <1>6, <1>7, <1>9
<1>11. Progress'
  BY <1>2, <1>4, <1>5, <1>8, <1>9, <1>10 DEF Progress
<1> QED
  BY <1>2, <1>11 DEF Finding

\* The beginning of a procedure.
LEMMA StartFinds ==
  ASSUME ProcInv, Finding, Start
  PROVE  Finding'
<1> DEFINE cb == IF call.uuid = <<>> THEN "primary_all" ELSE "primary_by_uuid"
<1>1. ASSUME NEW proc, NEW p, NEW c, Begin(proc, p, c), proc \notin Finds PROVE Finding'
  BY <1>1, NoDiscovery DEF Begin
<1>2. CASE GattDiscoverPrimary
  <2>1. PICK c, p : Begin("primary", p, c) /\ c # "resolve"
    BY <1>2 DEF GattDiscoverPrimary
  <2>2. start' = 1 /\ Lowest = 1 /\ "primary" \in Finds
    BY <1>2, <2>1 DEF GattDiscoverPrimary, Begin, Lowest, Finds
  <2> QED
    BY <2>1, <2>2, FoundFirst
<1>3. ASSUME NEW proc \in {"included", "char", "desc"}, NEW p, Begin(proc, p, proc), start' = call.start
      PROVE  Finding'
  <2>1. PICK s : s = call.start
    OBVIOUS
  <2>2. start' = s /\ s = Lowest /\ proc \in Finds /\ proc # "resolve"
    BY <1>3, <2>1 DEF Begin, Lowest, Finds
  <2> QED
    BY <1>3, <2>2, FoundFirst
<1>4. CASE GattFindIncluded \/ GattDiscoverChar \/ GattDiscoverDesc
  BY <1>3, <1>4, Zenon DEF GattFindIncluded, GattDiscoverChar, GattDiscoverDesc
<1>5. CASE \/ GattReadChar \/ GattReadCharByUuid \/ GattWriteChar \/ GattReliableWriteChar
           \/ GattExecuteWrite \/ GattExchangeMtu
  <2>1. PICK proc \in {"read", "read_by_uuid", "write", "reliable", "execute", "mtu"} : \E p, c : Begin(proc, p, c)
    BY <1>5 DEF GattReadChar, GattReadCharByUuid, GattWriteChar, GattReliableWriteChar, GattExecuteWrite,
                GattExchangeMtu
  <2>2. proc \notin Finds
    BY DEF Finds
  <2> QED
    BY <1>1, <2>1, <2>2
<1> QED
  BY <1>2, <1>4, <1>5 DEF Start

\* A response arrives.
LEMMA ReceiveFinds ==
  ASSUME ProcInv, Finding, Receive
  PROVE  Finding'
<1>1. /\ line # <<>> /\ reply = <<>>
      /\ UNCHANGED <<mtu, call, line, start, found, buffer, offset, err, outcome>>
  BY DEF Receive, context
<1>2. CASE call.proc \notin Finds
  BY <1>1, <1>2, NoDiscovery
<1>3. CASE call.proc \in Finds
  <2>1. PICK r \in Req : r = Head(line) /\ Asks(r)
    BY <1>1, UnderWay
  <2>2. CASE /\ \E rep \in Replies(r.pdu, attrs, prepared, mtu) :
                  reply' = rep.pdu /\ attrs' = rep.attrs /\ prepared' = rep.prepared
             /\ UNCHANGED honest
    <3>1. PICK rep \in Replies(r.pdu, attrs, prepared, mtu) :
               reply' = rep.pdu /\ attrs' = rep.attrs /\ prepared' = rep.prepared
      BY <2>2
    <3>2. Takes(rep)
      BY <1>1, <3>1 DEF Takes
    <3>3. Taken(r)
      BY <1>1, <2>1, <3>2, EveryTaken
    <3>4. attrs' = attrs
      BY <1>3, <3>3 DEF Taken, Finds
    <3> QED
      BY <1>1, <2>2, <3>4, FindingStays
  <2>3. CASE honest' = FALSE /\ UNCHANGED attrs
    BY <1>1, <2>3, FindingStays
  <2> QED
    BY <2>1, <2>2, <2>3 DEF Receive
<1> QED
  BY <1>2, <1>3

\* The callbacks of a response.
LEMMA CallbackFinds ==
  ASSUME ProcInv, Finding, Callbacks
  PROVE  Finding'
<1>1. ASSUME NEW cb \in {"read", "blob", "prepare", "caller"}, Callback(cb) PROVE Finding'
  <2>1. PICK q \in Req : q.cb = cb /\ Asks(q)
    BY <1>1, CalledBack
  <2>2. call.proc \notin Finds
    BY <2>1 DEF Asks, AsksBlob, AsksPrepare, AsksCaller, Finds
  <2>3. call' = call
    BY <1>1, CalledBack
  <2> QED
    BY <2>2, <2>3, NoDiscovery
<1>2. CASE ReadCharHelper \/ ReadBlobHelper \/ PrepareWriteCb \/ CallerCb
  BY <1>1, <1>2, Zenon DEF ReadCharHelper, ReadBlobHelper, PrepareWriteCb, CallerCb
<1> QED
  BY <1>2, PrimaryByUuidFinds, PrimaryAllFinds, IncludedFinds, ResolveFinds, CharFinds, DescFinds DEF Callbacks

\* A discovery that has not begun is in order.
LEMMA FindingInit == Init => Finding
<1> SUFFICES ASSUME Init PROVE Finding
  OBVIOUS
<1>1. line = <<>> /\ found = {} /\ err = 0 /\ outcome = <<>>
  BY DEF Init
<1>2. ~Seeking /\ \A i \in 1..Len(line) : FALSE
  BY <1>1 DEF Seeking
<1>3. Progress
  BY <1>1, <1>2 DEF Progress
<1> QED
  BY <1>1, <1>3 DEF Finding

\* Every step of a discovery keeps the invariant.
LEMMA FindingNext == ProcInv /\ Finding /\ [Next]_vars => Finding'
<1> SUFFICES ASSUME ProcInv, Finding, [Next]_vars PROVE Finding'
  OBVIOUS
<1>1. CASE Start
  BY <1>1, StartFinds
<1>2. CASE Receive
  BY <1>2, ReceiveFinds
<1>3. CASE Dropped
  BY <1>3, FindingStays DEF Dropped, device, context
<1>4. CASE Callbacks
  BY <1>4, CallbackFinds
<1>5. CASE Lost
  BY <1>5, FindingStays DEF Lost, context
<1>6. CASE UNCHANGED vars
  BY <1>6, FindingStays DEF vars, device, context
<1> QED
  BY <1>1, <1>2, <1>3, <1>4, <1>5, <1>6 DEF Next, Step

\* The discoveries of gatt.c find all that they are asked for and nothing else, on a
\* device that follows the protocol: services, included services, characteristics and descriptors.
THEOREM DiscoveryFindsAll == FairSpec => []FindsAll
<1>1. Init => Finding
  BY FindingInit
<1>2. ProcInv /\ Finding /\ [Next]_vars => Finding'
  BY FindingNext
<1>3. Finding => FindsAll
  BY DEF Finding, FindsAll, Done, Result, Reported, Finds
<1> QED
  BY <1>1, <1>2, <1>3, ProcedureInvariant, PTL DEF FairSpec
=============================================================================
