----------------------------- MODULE QueueProofs ----------------------------
(***************************************************************************)
(* What the operators of Queue return, preserve and bound, for every       *)
(* queue: the facts about queue.c that the proofs about its users cite.    *)
(* An entry is in a queue at most once (IsInjective) wherever the code     *)
(* relies on it.                                                           *)
(***************************************************************************)
EXTENDS Queue, SequenceTheorems, WellFoundedInduction, TLAPS

\* A set of naturals that is not empty has a least element: queue_find and
\* queue_remove_if stop at the first entry that matches.
LEMMA FirstNatural ==
  ASSUME NEW T \in SUBSET Nat, T # {}
  PROVE  \E n \in T : \A m \in T : n <= m
<1> DEFINE R == OpToRel(<, Nat)
<1>1. PICK n \in T : \A m \in T : ~(<<m, n>> \in R)
  BY NatLessThanWellFounded, WFMin
<1>2. \A m \in T : ~(m < n)
  BY <1>1 DEF OpToRel
<1> QED
  BY <1>2

\* What holds at 0 and is handed on from each number to the next holds up to n: the loops
\* over a queue are followed entry by entry.
LEMMA CountUp ==
  ASSUME NEW n \in Nat, NEW S, 0 \in S, \A i \in 0..n : i < n /\ i \in S => i + 1 \in S
  PROVE  0..n \subseteq S
<1> DEFINE T == {i \in 0..n : i \notin S}
<1>1. T \in SUBSET Nat
  OBVIOUS
<1>2. SUFFICES ASSUME T # {} PROVE FALSE
  OBVIOUS
<1>3. PICK m \in T : \A k \in T : m <= k
  <2> HIDE DEF T
  <2> QED
    BY <1>1, <1>2, FirstNatural
<1>4. m # 0 /\ m - 1 \in 0..n /\ m - 1 < n
  OBVIOUS
<1>5. m - 1 \in S
  BY <1>3, <1>4
<1>6. (m - 1) + 1 \in S
  BY <1>4, <1>5
<1> QED
  BY <1>6

\* g[i] is what queue_remove_all leaves of the first i entries of q.
RestOf(q, matching, n, g) ==
  \A i \in 0..n :
     g[i] = IF i = 0 THEN <<>>
            ELSE IF q[i] \in matching THEN g[i - 1] ELSE Append(g[i - 1], q[i])

\* Every queue has such a g: the loop of queue_remove_all ends with a queue of the same
\* entries' type.
LEMMA RestExists ==
  ASSUME NEW X, NEW q \in Seq(X), NEW matching
  PROVE  \E g \in [0..Len(q) -> Seq(X)] : RestOf(q, matching, Len(q), g)
<1> DEFINE Good(n) == \E g \in [0..n -> Seq(X)] : RestOf(q, matching, n, g)
           S == {n \in 0..Len(q) : Good(n)}
<1>1. Good(0)
  <2> DEFINE g == [i \in 0..0 |-> <<>>]
  <2>1. g \in [0..0 -> Seq(X)]
    OBVIOUS
  <2>2. RestOf(q, matching, 0, g)
    BY DEF RestOf
  <2> QED
    BY <2>1, <2>2
<1>2. ASSUME NEW n \in 0..Len(q), n < Len(q), Good(n)
      PROVE  Good(n + 1)
  <2>1. PICK g \in [0..n -> Seq(X)] : RestOf(q, matching, n, g)
    BY <1>2
  <2> DEFINE last == IF q[n + 1] \in matching THEN g[n] ELSE Append(g[n], q[n + 1])
             h == [i \in 0..(n + 1) |-> IF i <= n THEN g[i] ELSE last]
  <2>2. n \in Nat /\ q[n + 1] \in X /\ g[n] \in Seq(X)
    BY <1>2
  <2>3. last \in Seq(X)
    BY <2>2
  <2> HIDE DEF last
  <2>4. h \in [0..(n + 1) -> Seq(X)]
    BY <2>2, <2>3
  <2>5. \A i \in 0..n : h[i] = g[i]
    BY <2>2
  <2>6. h[n + 1] = last
    BY <2>2
  <2> HIDE DEF h
  <2>7. RestOf(q, matching, n + 1, h)
    <3> SUFFICES ASSUME NEW i \in 0..(n + 1)
                 PROVE  h[i] = IF i = 0 THEN <<>>
                               ELSE IF q[i] \in matching THEN h[i - 1]
                                    ELSE Append(h[i - 1], q[i])
      BY DEF RestOf
    <3>1. CASE i = n + 1
      BY <3>1, <2>2, <2>5, <2>6 DEF last
    <3>2. CASE i # n + 1
      <4>1. i \in 0..n /\ (i # 0 => i - 1 \in 0..n)
        BY <3>2, <2>2
      <4> QED
        BY <2>1, <2>5, <4>1 DEF RestOf
    <3> QED
      BY <3>1, <3>2
  <2> QED
    BY <2>4, <2>7
<1>3. 0..Len(q) \subseteq S
  <2>1. Len(q) \in Nat /\ 0 \in S
    BY <1>1
  <2>2. \A n \in 0..Len(q) : n < Len(q) /\ n \in S => n + 1 \in S
    <3> SUFFICES ASSUME NEW n \in 0..Len(q), n < Len(q), n \in S PROVE n + 1 \in S
      OBVIOUS
    <3>1. Good(n)
      OBVIOUS
    <3>2. Good(n + 1)
      BY <3>1, <1>2
    <3> QED
      BY <3>2
  <2> HIDE DEF S
  <2> QED
    BY <2>1, <2>2, CountUp
<1> QED
  BY <1>3

\* RemoveAll is what the loop of queue_remove_all leaves of the whole queue.
LEMMA RestIs ==
  ASSUME NEW X, NEW q \in Seq(X), NEW matching
  PROVE  \E g \in [0..Len(q) -> Seq(X)] :
            RestOf(q, matching, Len(q), g) /\ RemoveAll(q, matching) = g[Len(q)]
<1> DEFINE rest[i \in 0..Len(q)] ==
             IF i = 0 THEN <<>>
             ELSE IF q[i] \in matching THEN rest[i - 1] ELSE Append(rest[i - 1], q[i])
<1>1. RemoveAll(q, matching) = rest[Len(q)]
  BY DEF RemoveAll
<1>2. PICK g \in [0..Len(q) -> Seq(X)] : RestOf(q, matching, Len(q), g)
  BY RestExists
<1>3. g = [i \in 0..Len(q) |->
             IF i = 0 THEN <<>>
             ELSE IF q[i] \in matching THEN g[i - 1] ELSE Append(g[i - 1], q[i])]
  BY <1>2 DEF RestOf
<1>4. rest = [i \in 0..Len(q) |->
             IF i = 0 THEN <<>>
             ELSE IF q[i] \in matching THEN rest[i - 1] ELSE Append(rest[i - 1], q[i])]
  BY <1>3
<1> HIDE DEF rest
<1> DEFINE S == {i \in 0..Len(q) : rest[i] = g[i]}
<1>5. 0 \in S
  BY <1>3, <1>4
<1>6. \A i \in 0..Len(q) : i < Len(q) /\ i \in S => i + 1 \in S
  <2> SUFFICES ASSUME NEW i \in 0..Len(q), i < Len(q), i \in S PROVE i + 1 \in S
    OBVIOUS
  <2>1. i + 1 \in 0..Len(q) /\ i + 1 # 0 /\ (i + 1) - 1 = i
    OBVIOUS
  <2>2. g[i + 1] = IF q[i + 1] \in matching THEN g[i] ELSE Append(g[i], q[i + 1])
    BY <2>1, <1>2 DEF RestOf
  <2>3. rest[i + 1] = IF q[i + 1] \in matching THEN rest[i] ELSE Append(rest[i], q[i + 1])
    BY <2>1, <1>4
  <2> QED
    BY <2>1, <2>2, <2>3
<1>7. Len(q) \in S
  <2>1. Len(q) \in Nat /\ Len(q) \in 0..Len(q)
    OBVIOUS
  <2> HIDE DEF S
  <2> QED
    BY <1>5, <1>6, <2>1, CountUp
<1> QED
  BY <1>1, <1>2, <1>7

----------------------------------------------------------------------------

\* The entries of a queue, and that none is in it twice, in terms of its positions.
LEMMA ToSetIs ==
  ASSUME NEW X, NEW s \in Seq(X)
  PROVE  /\ ToSet(s) = {s[i] : i \in 1..Len(s)}
         /\ ToSet(s) \subseteq X
         /\ IsInjective(s) <=> \A i, j \in 1..Len(s) : s[i] = s[j] => i = j
<1>1. DOMAIN s = 1..Len(s)
  OBVIOUS
<1>2. IsInjective(s) <=> \A i, j \in DOMAIN s : s[i] = s[j] => i = j
  BY DEF IsInjective
<1> QED
  BY <1>1, <1>2 DEF ToSet

\* The queue without entries, as queue_new returns it.
LEMMA EmptyQueue ==
  /\ ToSet(<<>>) = {} /\ IsInjective(<<>>)
  /\ \A s : ToSet(s) = {} /\ (\E X : s \in Seq(X)) => s = <<>>
<1>1. ToSet(<<>>) = {} /\ IsInjective(<<>>)
  BY DEF ToSet, IsInjective
<1>2. ASSUME NEW s, NEW X, s \in Seq(X), ToSet(s) = {} PROVE s = <<>>
  <2>1. {s[i] : i \in 1..Len(s)} = {}
    BY <1>2, ToSetIs
  <2>2. Len(s) \in Nat /\ 1 \notin 1..Len(s)
    BY <1>2, <2>1
  <2> QED
    BY <1>2, <2>2
<1> QED
  BY <1>1, <1>2

\* A queue of one entry.
LEMMA SingleQueue ==
  ASSUME NEW x
  PROVE  <<x>> \in Seq({x}) /\ Len(<<x>>) = 1 /\ ToSet(<<x>>) = {x} /\ IsInjective(<<x>>)
<1>1. <<x>> \in Seq({x}) /\ Len(<<x>>) = 1 /\ <<x>>[1] = x
  OBVIOUS
<1>2. ToSet(<<x>>) = {<<x>>[i] : i \in 1..1}
  BY <1>1, ToSetIs
<1>3. IsInjective(<<x>>)
  BY DEF IsInjective
<1> QED
  BY <1>1, <1>2, <1>3

\* The entries of two queues put together, as when att.c keeps several.
LEMMA ConcatQueue ==
  ASSUME NEW X, NEW s \in Seq(X), NEW t \in Seq(X)
  PROVE  /\ s \o t \in Seq(X)
         /\ ToSet(s \o t) = ToSet(s) \cup ToSet(t)
         /\ IsInjective(s \o t)
              <=> IsInjective(s) /\ IsInjective(t) /\ ToSet(s) \cap ToSet(t) = {}
<1> DEFINE c == s \o t
           m == Len(s)
           n == Len(t)
<1>1. /\ c \in Seq(X) /\ Len(c) = m + n /\ m \in Nat /\ n \in Nat
      /\ \A i \in 1..m : c[i] = s[i]
      /\ \A i \in 1..n : c[m + i] = t[i]
      /\ \A i \in 1..(m + n) : i \in 1..m \/ (i - m \in 1..n /\ c[i] = t[i - m])
  BY ConcatProperties
<1> HIDE DEF c, m, n
<1>2. /\ ToSet(s) = {s[i] : i \in 1..m} /\ ToSet(t) = {t[i] : i \in 1..n}
      /\ ToSet(c) = {c[i] : i \in 1..(m + n)}
      /\ IsInjective(s) <=> \A i, j \in 1..m : s[i] = s[j] => i = j
      /\ IsInjective(t) <=> \A i, j \in 1..n : t[i] = t[j] => i = j
      /\ IsInjective(c) <=> \A i, j \in 1..(m + n) : c[i] = c[j] => i = j
  <2>1. Len(s) = m /\ Len(t) = n /\ Len(c) = m + n
    BY <1>1 DEF m, n
  <2>2. /\ ToSet(s) = {s[i] : i \in 1..m}
        /\ IsInjective(s) <=> \A i, j \in 1..m : s[i] = s[j] => i = j
    <3>1. /\ ToSet(s) = {s[i] : i \in 1..Len(s)}
          /\ IsInjective(s) <=> \A i, j \in 1..Len(s) : s[i] = s[j] => i = j
      BY ToSetIs, Zenon
    <3> QED
      BY <2>1, <3>1
  <2>3. /\ ToSet(t) = {t[i] : i \in 1..n}
        /\ IsInjective(t) <=> \A i, j \in 1..n : t[i] = t[j] => i = j
    <3>1. /\ ToSet(t) = {t[i] : i \in 1..Len(t)}
          /\ IsInjective(t) <=> \A i, j \in 1..Len(t) : t[i] = t[j] => i = j
      BY ToSetIs, Zenon
    <3> QED
      BY <2>1, <3>1
  <2>4. /\ ToSet(c) = {c[i] : i \in 1..(m + n)}
        /\ IsInjective(c) <=> \A i, j \in 1..(m + n) : c[i] = c[j] => i = j
    <3>1. /\ ToSet(c) = {c[i] : i \in 1..Len(c)}
          /\ IsInjective(c) <=> \A i, j \in 1..Len(c) : c[i] = c[j] => i = j
      <4>1. c \in Seq(X)
        BY <1>1
      <4> QED
        BY <4>1, ToSetIs, Zenon
    <3> QED
      BY <2>1, <3>1
  <2> QED
    BY <2>2, <2>3, <2>4
<1>3. \A i \in 1..m : i \in 1..(m + n)
  BY <1>1
<1>4. \A i \in 1..n : m + i \in 1..(m + n)
  BY <1>1
<1>5. ToSet(c) = ToSet(s) \cup ToSet(t)
  BY <1>1, <1>2, <1>3, <1>4, SMTT(30)
<1>6. ASSUME IsInjective(c)
      PROVE  IsInjective(s) /\ IsInjective(t) /\ ToSet(s) \cap ToSet(t) = {}
  <2>1. \A i, j \in 1..m : s[i] = s[j] => i = j
    BY <1>1, <1>2, <1>3, <1>6
  <2>2. \A i, j \in 1..n : t[i] = t[j] => m + i = m + j
    BY <1>1, <1>2, <1>4, <1>6
  <2>3. \A i \in 1..m, j \in 1..n : s[i] = t[j] => i = m + j
    BY <1>1, <1>2, <1>3, <1>4, <1>6
  <2>4. \A i \in 1..m, j \in 1..n : s[i] # t[j]
    <3>1. \A i \in 1..m, j \in 1..n : i # m + j
      BY <1>1
    <3> QED
      BY <2>3, <3>1, Zenon
  <2> QED
    BY <1>1, <1>2, <2>1, <2>2, <2>4
<1>7. ASSUME IsInjective(s), IsInjective(t), ToSet(s) \cap ToSet(t) = {}
      PROVE  IsInjective(c)
  <2> SUFFICES ASSUME NEW i \in 1..(m + n), NEW j \in 1..(m + n), c[i] = c[j]
               PROVE  i = j
    BY <1>2
  <2>1. \A k \in 1..m, l \in 1..n : s[k] # t[l]
    <3> SUFFICES ASSUME NEW k \in 1..m, NEW l \in 1..n, s[k] = t[l] PROVE FALSE
      OBVIOUS
    <3>1. s[k] \in ToSet(s) /\ t[l] \in ToSet(t)
      BY <1>2
    <3> QED
      BY <1>7, <3>1
  <2>2. \A k, l \in 1..m : s[k] = s[l] => k = l
    BY <1>2, <1>7
  <2>3. \A k, l \in 1..n : t[k] = t[l] => k = l
    BY <1>2, <1>7
  <2>4. CASE i \in 1..m /\ j \in 1..m
    BY <1>1, <2>2, <2>4
  <2>5. CASE i \in 1..m /\ j \notin 1..m
    BY <1>1, <2>1, <2>5
  <2>6. CASE i \notin 1..m /\ j \in 1..m
    <3>1. i - m \in 1..n /\ c[i] = t[i - m] /\ c[j] = s[j]
      BY <1>1, <2>6
    <3> QED
      BY <2>1, <2>6, <3>1
  <2>7. CASE i \notin 1..m /\ j \notin 1..m
    <3>1. i - m \in 1..n /\ c[i] = t[i - m] /\ j - m \in 1..n /\ c[j] = t[j - m]
      BY <1>1, <2>7
    <3>2. i - m = j - m
      BY <2>3, <3>1
    <3> QED
      BY <1>1, <3>2
  <2> QED
    BY <2>4, <2>5, <2>6, <2>7
<1> QED
  BY <1>1, <1>5, <1>6, <1>7 DEF c

\* queue_push_tail adds one entry, which is in the queue once if it was not in it.
LEMMA AppendQueue ==
  ASSUME NEW X, NEW s \in Seq(X), NEW x \in X
  PROVE  /\ Append(s, x) \in Seq(X) /\ Append(s, x) # <<>>
         /\ ToSet(Append(s, x)) = ToSet(s) \cup {x}
         /\ IsInjective(Append(s, x)) <=> IsInjective(s) /\ x \notin ToSet(s)
<1>1. Append(s, x) = s \o <<x>> /\ Append(s, x) # <<>>
  BY AppendIsConcat, AppendProperties
<1>2. <<x>> \in Seq(X) /\ ToSet(<<x>>) = {x} /\ IsInjective(<<x>>)
  BY SingleQueue
<1>3. /\ s \o <<x>> \in Seq(X)
      /\ ToSet(s \o <<x>>) = ToSet(s) \cup ToSet(<<x>>)
      /\ IsInjective(s \o <<x>>)
           <=> IsInjective(s) /\ IsInjective(<<x>>) /\ ToSet(s) \cap ToSet(<<x>>) = {}
  BY <1>2, ConcatQueue, Zenon
<1>4. ToSet(s) \cap {x} = {} <=> x \notin ToSet(s)
  OBVIOUS
<1> QED
  BY <1>1, <1>2, <1>3, <1>4, Zenon

\* queue_pop_head divides a queue into its first entry and the others.
LEMMA HeadQueue ==
  ASSUME NEW X, NEW s \in Seq(X), s # <<>>
  PROVE  /\ Head(s) \in X /\ Tail(s) \in Seq(X)
         /\ s = <<Head(s)>> \o Tail(s)
         /\ ToSet(s) = {Head(s)} \cup ToSet(Tail(s))
         /\ IsInjective(s) <=> IsInjective(Tail(s)) /\ Head(s) \notin ToSet(Tail(s))
<1>1. Head(s) \in X /\ Tail(s) \in Seq(X)
  BY HeadTailProperties
<1>2. s = <<Head(s)>> \o Tail(s)
  OBVIOUS
<1>3. /\ <<Head(s)>> \in Seq(X) /\ ToSet(<<Head(s)>>) = {Head(s)} /\ IsInjective(<<Head(s)>>)
  BY <1>1, SingleQueue
<1>4. /\ ToSet(<<Head(s)>> \o Tail(s)) = ToSet(<<Head(s)>>) \cup ToSet(Tail(s))
      /\ IsInjective(<<Head(s)>> \o Tail(s))
           <=> /\ IsInjective(<<Head(s)>>) /\ IsInjective(Tail(s))
               /\ ToSet(<<Head(s)>>) \cap ToSet(Tail(s)) = {}
  BY <1>1, <1>3, ConcatQueue, Zenon
<1>5. {Head(s)} \cap ToSet(Tail(s)) = {} <=> Head(s) \notin ToSet(Tail(s))
  OBVIOUS
<1> QED
  BY <1>1, <1>2, <1>3, <1>4, <1>5, Zenon

----------------------------------------------------------------------------

\* queue_remove_all keeps the entries that do not match, and no others, once each; it
\* changes nothing when none matches.
LEMMA RemoveAllQueue ==
  ASSUME NEW X, NEW q \in Seq(X), NEW matching
  PROVE  /\ RemoveAll(q, matching) \in Seq(X)
         /\ ToSet(RemoveAll(q, matching)) = ToSet(q) \ matching
         /\ IsInjective(q) => IsInjective(RemoveAll(q, matching))
         /\ ToSet(q) \cap matching = {} => RemoveAll(q, matching) = q
<1>1. PICK g \in [0..Len(q) -> Seq(X)] :
             RestOf(q, matching, Len(q), g) /\ RemoveAll(q, matching) = g[Len(q)]
  BY RestIs
<1>2. /\ Len(q) \in Nat /\ \A i \in 1..Len(q) : q[i] \in X
      /\ g[0] = <<>>
      /\ \A i \in 0..Len(q) : g[i] \in Seq(X)
      /\ \A i \in 1..Len(q) :
           g[i] = IF q[i] \in matching THEN g[i - 1] ELSE Append(g[i - 1], q[i])
  <2>1. /\ Len(q) \in Nat /\ 0 \in 0..Len(q)
        /\ \A i \in 1..Len(q) : q[i] \in X /\ i \in 0..Len(q) /\ i # 0
        /\ \A i \in 0..Len(q) : g[i] \in Seq(X)
    OBVIOUS
  <2> QED
    BY <1>1, <2>1 DEF RestOf
<1> DEFINE Kept(i) == {q[j] : j \in 1..i} \ matching
           S == {i \in 0..Len(q) :
                   /\ ToSet(g[i]) = Kept(i)
                   /\ IsInjective(q) => IsInjective(g[i])
                   /\ ToSet(q) \cap matching = {} => g[i] = SubSeq(q, 1, i)}
<1>3. 0 \in S
  BY <1>2, EmptyQueue, SubSeqEmpty
<1>4. \A i \in 0..Len(q) : i < Len(q) /\ i \in S => i + 1 \in S
  <2> SUFFICES ASSUME NEW i \in 0..Len(q), i < Len(q), i \in S PROVE i + 1 \in S
    OBVIOUS
  <2>1. i + 1 \in 1..Len(q) /\ (i + 1) - 1 = i
    BY <1>2
  <2>2. Kept(i + 1) = IF q[i + 1] \in matching THEN Kept(i) ELSE Kept(i) \cup {q[i + 1]}
    <3>1. \A j \in 1..(i + 1) : j \in 1..i \/ j = i + 1
      BY <2>1
    <3>2. \A j \in 1..i : j \in 1..(i + 1)
      BY <2>1
    <3> QED
      BY <2>1, <3>1, <3>2
  <2>3. g[i + 1] = IF q[i + 1] \in matching THEN g[i] ELSE Append(g[i], q[i + 1])
    BY <1>2, <2>1
  <2>4. ToSet(g[i]) = Kept(i) /\ g[i] \in Seq(X) /\ q[i + 1] \in X
    BY <1>2, <2>1
  <2>5. IsInjective(q) => q[i + 1] \notin Kept(i)
    <3>1. \A j \in 1..i : j # i + 1 /\ j \in 1..Len(q)
      BY <2>1
    <3> QED
      BY <2>1, <3>1, ToSetIs
  <2>6. ToSet(g[i + 1]) = Kept(i + 1) /\ (IsInjective(q) => IsInjective(g[i + 1]))
    <3> HIDE DEF Kept
    <3> QED
      BY <2>2, <2>3, <2>4, <2>5, AppendQueue
  <2>7. ToSet(q) \cap matching = {} => g[i + 1] = SubSeq(q, 1, i + 1)
    <3> SUFFICES ASSUME ToSet(q) \cap matching = {} PROVE g[i + 1] = SubSeq(q, 1, i + 1)
      OBVIOUS
    <3>1. q[i + 1] \notin matching
      BY <2>1, ToSetIs
    <3>2. g[i + 1] = Append(SubSeq(q, 1, i), q[i + 1])
      BY <2>3, <3>1
    <3>3. SubSeq(q, 1, i + 1) = SubSeq(q, 1, i) \o <<q[i + 1]>>
      BY <2>1, SubSeqRecursiveSecond
    <3>4. SubSeq(q, 1, i) \in Seq(X)
      BY <1>2, <2>1, SubSeqProperties
    <3> QED
      BY <2>4, <3>2, <3>3, <3>4, AppendIsConcat
  <2> QED
    BY <2>1, <2>6, <2>7
<1>5. Len(q) \in S
  <2>1. Len(q) \in 0..Len(q)
    BY <1>2
  <2> HIDE DEF S
  <2> QED
    BY <1>2, <1>3, <1>4, <2>1, CountUp
<1>6. ToSet(q) = {q[j] : j \in 1..Len(q)} /\ SubSeq(q, 1, Len(q)) = q
  BY ToSetIs, SubSeqFull
<1> QED
  BY <1>1, <1>2, <1>5, <1>6

\* Taking out one position takes out one entry.
LEMMA RemoveAtQueue ==
  ASSUME NEW X, NEW q \in Seq(X), NEW i \in 1..Len(q), IsInjective(q)
  PROVE  /\ RemoveAt(q, i) \in Seq(X)
         /\ ToSet(RemoveAt(q, i)) = ToSet(q) \ {q[i]}
         /\ IsInjective(RemoveAt(q, i))
<1> DEFINE before == SubSeq(q, 1, i - 1)
           after == SubSeq(q, i + 1, Len(q))
<1>1. /\ before \in Seq(X) /\ Len(before) = i - 1
      /\ \A j \in 1..(i - 1) : before[j] = q[j]
  BY SubSeqProperties
<1>2. /\ after \in Seq(X) /\ Len(after) = Len(q) - i
      /\ \A j \in 1..(Len(q) - i) : after[j] = q[i + j]
  BY SubSeqProperties
<1>3. /\ ToSet(q) = {q[j] : j \in 1..Len(q)}
      /\ \A j, k \in 1..Len(q) : q[j] = q[k] => j = k
  BY ToSetIs
<1> HIDE DEF before, after
<1>4. /\ ToSet(before) = {before[j] : j \in 1..(i - 1)}
      /\ IsInjective(before) <=> \A j, k \in 1..(i - 1) : before[j] = before[k] => j = k
  <2>1. /\ ToSet(before) = {before[j] : j \in 1..Len(before)}
        /\ IsInjective(before)
             <=> \A j, k \in 1..Len(before) : before[j] = before[k] => j = k
    BY <1>1, ToSetIs, Zenon
  <2> QED
    BY <1>1, <2>1
<1>5. /\ ToSet(after) = {after[j] : j \in 1..(Len(q) - i)}
      /\ IsInjective(after) <=> \A j, k \in 1..(Len(q) - i) : after[j] = after[k] => j = k
  <2>1. /\ ToSet(after) = {after[j] : j \in 1..Len(after)}
        /\ IsInjective(after) <=> \A j, k \in 1..Len(after) : after[j] = after[k] => j = k
    BY <1>2, ToSetIs, Zenon
  <2> QED
    BY <1>2, <2>1
<1>6. IsInjective(before)
  BY <1>1, <1>3, <1>4
<1>7. IsInjective(after)
  <2>1. \A j, k \in 1..(Len(q) - i) : q[i + j] = q[i + k] => i + j = i + k
    <3>1. \A j \in 1..(Len(q) - i) : i + j \in 1..Len(q)
      OBVIOUS
    <3> QED
      BY <1>3, <3>1
  <2> QED
    BY <1>2, <1>5, <2>1
<1>8. ToSet(before) \cap ToSet(after) = {}
  <2>1. \A j \in 1..(i - 1), k \in 1..(Len(q) - i) : q[j] = q[i + k] => j = i + k
    BY <1>3
  <2> QED
    BY <1>1, <1>2, <1>4, <1>5, <2>1
<1>9. ToSet(before) \cup ToSet(after) = ToSet(q) \ {q[i]}
  <2>1. \A j \in 1..(i - 1) : j \in 1..Len(q) /\ j # i
    OBVIOUS
  <2>2. \A j \in 1..(Len(q) - i) : i + j \in 1..Len(q) /\ i + j # i
    OBVIOUS
  <2>3. ToSet(before) \cup ToSet(after) \subseteq ToSet(q) \ {q[i]}
    BY <1>1, <1>2, <1>3, <1>4, <1>5, <2>1, <2>2
  <2>4. ASSUME NEW j \in 1..Len(q), j # i
        PROVE  q[j] \in ToSet(before) \cup ToSet(after)
    <3>1. CASE j < i
      BY <1>1, <1>4, <3>1
    <3>2. CASE j > i
      <4>1. j - i \in 1..(Len(q) - i) /\ i + (j - i) = j
        BY <3>2
      <4> QED
        BY <1>2, <1>5, <4>1
    <3> QED
      BY <2>4, <3>1, <3>2
  <2> QED
    BY <1>3, <2>3, <2>4
<1> QED
  <2>1. RemoveAt(q, i) = before \o after
    BY DEF RemoveAt, before, after
  <2> QED
    BY <1>1, <1>2, <1>6, <1>7, <1>8, <1>9, <2>1, ConcatQueue

\* Putting together and pushing at the tail commute.
LEMMA ConcatAppend ==
  ASSUME NEW X, NEW s \in Seq(X), NEW t \in Seq(X), NEW x \in X
  PROVE  Append(s \o t, x) = s \o (t \o <<x>>)
<1> DEFINE u == <<x>>
<1>1. u \in Seq(X)
  OBVIOUS
<1>2. Append(s \o t, x) = (s \o t) \o u
  BY ConcatProperties, AppendIsConcat
<1> HIDE DEF u
<1>3. (s \o t) \o u = s \o (t \o u)
  BY <1>1, ConcatAssociative
<1> QED
  BY <1>2, <1>3 DEF u

\* queue_remove_all of an entry that is in the queue once takes out its position.
LEMMA RemoveAllOne ==
  ASSUME NEW X, NEW q \in Seq(X), NEW i \in 1..Len(q), IsInjective(q)
  PROVE  RemoveAll(q, {q[i]}) = RemoveAt(q, i)
<1> DEFINE matching == {q[i]}
           Rest(j) == IF j < i THEN SubSeq(q, 1, j)
                      ELSE SubSeq(q, 1, i - 1) \o SubSeq(q, i + 1, j)
<1>1. PICK g \in [0..Len(q) -> Seq(X)] :
             RestOf(q, matching, Len(q), g) /\ RemoveAll(q, matching) = g[Len(q)]
  BY RestIs, Zenon
<1>2. /\ Len(q) \in Nat /\ \A j \in 1..Len(q) : q[j] \in X
      /\ g[0] = <<>>
      /\ \A j \in 1..Len(q) :
           g[j] = IF q[j] \in matching THEN g[j - 1] ELSE Append(g[j - 1], q[j])
  <2>1. /\ Len(q) \in Nat /\ 0 \in 0..Len(q)
        /\ \A j \in 1..Len(q) : q[j] \in X /\ j \in 0..Len(q) /\ j # 0
    OBVIOUS
  <2> QED
    BY <1>1, <2>1 DEF RestOf
<1>3. \A j \in 1..Len(q) : q[j] \in matching <=> j = i
  BY ToSetIs
<1> HIDE DEF matching
<1> DEFINE S == {j \in 0..Len(q) : g[j] = Rest(j)}
<1>4. 0 \in S
  BY <1>2, SubSeqEmpty
<1>5. \A j \in 0..Len(q) : j < Len(q) /\ j \in S => j + 1 \in S
  <2> SUFFICES ASSUME NEW j \in 0..Len(q), j < Len(q), j \in S PROVE j + 1 \in S
    OBVIOUS
  <2>1. j + 1 \in 1..Len(q) /\ (j + 1) - 1 = j /\ q[j + 1] \in X
    BY <1>2
  <2>2. g[j + 1] = IF j + 1 = i THEN g[j] ELSE Append(g[j], q[j + 1])
    BY <1>2, <1>3, <2>1
  <2>3. g[j] = Rest(j)
    OBVIOUS
  <2> SUFFICES g[j + 1] = Rest(j + 1)
    BY <2>1
  <2>4. CASE j + 1 < i
    <3>0. Rest(j + 1) = SubSeq(q, 1, j + 1) /\ Rest(j) = SubSeq(q, 1, j)
      BY <2>1, <2>4
    <3>1. SubSeq(q, 1, j + 1) = SubSeq(q, 1, j) \o <<q[j + 1]>>
      BY <2>1, SubSeqRecursiveSecond
    <3>2. SubSeq(q, 1, j) \in Seq(X)
      BY <1>2, <2>1, SubSeqProperties
    <3> QED
      BY <2>1, <2>2, <2>3, <2>4, <3>0, <3>1, <3>2, AppendIsConcat
  <2>5. CASE j + 1 = i
    <3>0. /\ Rest(j + 1) = SubSeq(q, 1, i - 1) \o SubSeq(q, i + 1, i)
          /\ Rest(j) = SubSeq(q, 1, i - 1)
      BY <2>1, <2>5
    <3>1. SubSeq(q, i + 1, i) = <<>>
      BY SubSeqEmpty
    <3>2. SubSeq(q, 1, i - 1) \in Seq(X)
      BY <1>2, SubSeqProperties
    <3> QED
      BY <2>2, <2>3, <2>5, <3>0, <3>1, <3>2, ConcatEmptySeq
  <2>6. CASE j + 1 > i
    <3> DEFINE front == SubSeq(q, 1, i - 1)
               back == SubSeq(q, i + 1, j)
    <3>1. front \in Seq(X) /\ back \in Seq(X) /\ <<q[j + 1]>> \in Seq(X)
      BY <1>2, <2>1, SubSeqProperties
    <3>2. SubSeq(q, i + 1, j + 1) = back \o <<q[j + 1]>>
      <4>1. i + 1 \in 1..Len(q) /\ j + 1 \in (i + 1)..Len(q)
        BY <2>1, <2>6
      <4> QED
        BY <2>1, <4>1, SubSeqRecursiveSecond
    <3>0. /\ Rest(j + 1) = front \o SubSeq(q, i + 1, j + 1)
          /\ Rest(j) = front \o back
      BY <2>1, <2>6
    <3> HIDE DEF front, back, Rest, S
    <3>3. g[j] = front \o back
      BY <2>3, <3>0
    <3>4. g[j + 1] = Append(front \o back, q[j + 1])
      BY <2>2, <2>6, <3>3
    <3>5. g[j + 1] = front \o (back \o <<q[j + 1]>>)
      <4>1. front \in Seq(X) /\ back \in Seq(X)
        BY <3>1
      <4>2. Append(front \o back, q[j + 1]) = front \o (back \o <<q[j + 1]>>)
        BY <2>1, <4>1, ConcatAppend, Zenon
      <4> QED
        BY <3>4, <4>2
    <3> QED
      BY <3>0, <3>2, <3>5
  <2> QED
    BY <2>4, <2>5, <2>6
<1>6. Len(q) \in S
  <2>1. Len(q) \in 0..Len(q)
    BY <1>2
  <2> HIDE DEF S
  <2> QED
    BY <1>2, <1>4, <1>5, <2>1, CountUp
<1>7. Rest(Len(q)) = SubSeq(q, 1, i - 1) \o SubSeq(q, i + 1, Len(q))
  <2>1. ~(Len(q) < i)
    BY <1>2
  <2> QED
    BY <2>1, Zenon
<1>8. RemoveAll(q, matching) = Rest(Len(q))
  BY <1>1, <1>6
<1> HIDE DEF Rest
<1> QED
  BY <1>7, <1>8 DEF RemoveAt, matching

\* The first entry that matches is at a position of the queue, or none matches.
LEMMA FirstMatchQueue ==
  ASSUME NEW X, NEW q \in Seq(X), NEW matching
  PROVE  /\ FirstMatch(q, matching) = 0 <=> ToSet(q) \cap matching = {}
         /\ FirstMatch(q, matching) # 0 =>
              /\ FirstMatch(q, matching) \in 1..Len(q)
              /\ q[FirstMatch(q, matching)] \in matching
<1> DEFINE I == {i \in 1..Len(q) : q[i] \in matching}
<1>1. I = {} <=> ToSet(q) \cap matching = {}
  BY ToSetIs
<1>2. FirstMatch(q, matching) = IF I = {} THEN 0 ELSE Min(I)
  BY DEF FirstMatch
<1>3. ASSUME I # {} PROVE Min(I) \in I
  <2>1. I \in SUBSET Nat
    OBVIOUS
  <2> HIDE DEF I
  <2>2. \E i \in I : \A j \in I : i <= j
    BY <1>3, <2>1, FirstNatural
  <2> QED
    BY <2>2 DEF Min
<1> QED
  BY <1>1, <1>2, <1>3

\* queue_find returns an entry of the queue that matches.
LEMMA FindIfFound ==
  ASSUME NEW X, NEW q \in Seq(X), NEW matching, NEW x \in FindIf(q, matching)
  PROVE  x \in ToSet(q) /\ x \in matching
<1> DEFINE i == FirstMatch(q, matching)
<1>1. i # 0 /\ x = q[i]
  BY DEF FindIf
<1>2. i \in 1..Len(q) /\ q[i] \in matching
  BY <1>1, FirstMatchQueue
<1> HIDE DEF i
<1> QED
  BY <1>1, <1>2, ToSetIs

\* queue_remove_if returns entries of the queue, also when one is in it several times.
LEMMA RemoveIfTyped ==
  ASSUME NEW X, NEW q \in Seq(X), NEW matching
  PROVE  RemoveIf(q, matching) \in Seq(X)
<1> DEFINE i == FirstMatch(q, matching)
<1>1. ASSUME i # 0 PROVE RemoveAt(q, i) \in Seq(X)
  <2>1. i \in 1..Len(q)
    BY <1>1, FirstMatchQueue
  <2> HIDE DEF i
  <2>2. SubSeq(q, 1, i - 1) \in Seq(X) /\ SubSeq(q, i + 1, Len(q)) \in Seq(X)
    BY <2>1, SubSeqProperties
  <2> QED
    BY <2>2, ConcatProperties DEF RemoveAt
<1> QED
  BY <1>1 DEF RemoveIf

\* queue_remove_if takes out the entry that queue_find finds, and no other.
LEMMA RemoveIfQueue ==
  ASSUME NEW X, NEW q \in Seq(X), NEW matching, IsInjective(q)
  PROVE  /\ RemoveIf(q, matching) \in Seq(X)
         /\ IsInjective(RemoveIf(q, matching))
         /\ FindIf(q, matching) \subseteq ToSet(q) \cap matching
         /\ FindIf(q, matching) = {} <=> ToSet(q) \cap matching = {}
         /\ \A x, y \in FindIf(q, matching) : x = y
         /\ ToSet(RemoveIf(q, matching)) = ToSet(q) \ FindIf(q, matching)
         /\ FindIf(q, matching) = {} => RemoveIf(q, matching) = q
<1> DEFINE i == FirstMatch(q, matching)
<1>1. CASE i = 0
  <2>1. ToSet(q) \cap matching = {}
    BY <1>1, FirstMatchQueue
  <2>2. RemoveIf(q, matching) = q /\ FindIf(q, matching) = {}
    BY <1>1 DEF RemoveIf, FindIf
  <2> QED
    BY <2>1, <2>2
<1>2. CASE i # 0
  <2>1. i \in 1..Len(q) /\ q[i] \in matching /\ ToSet(q) \cap matching # {}
    BY <1>2, FirstMatchQueue
  <2>2. RemoveIf(q, matching) = RemoveAt(q, i) /\ FindIf(q, matching) = {q[i]}
    BY <1>2 DEF RemoveIf, FindIf
  <2>3. q[i] \in ToSet(q)
    BY <2>1, ToSetIs
  <2> HIDE DEF i
  <2>4. /\ RemoveAt(q, i) \in Seq(X) /\ IsInjective(RemoveAt(q, i))
        /\ ToSet(RemoveAt(q, i)) = ToSet(q) \ {q[i]}
    BY <2>1, RemoveAtQueue
  <2> QED
    BY <2>1, <2>2, <2>3, <2>4
<1> QED
  BY <1>1, <1>2

\* For a single entry queue_remove and queue_remove_all do the same, and queue_find says
\* whether it is there.
LEMMA RemoveOne ==
  ASSUME NEW X, NEW q \in Seq(X), NEW x, IsInjective(q)
  PROVE  /\ RemoveIf(q, {x}) = RemoveAll(q, {x})
         /\ RemoveIf(q, {x}) \in Seq(X)
         /\ IsInjective(RemoveIf(q, {x}))
         /\ ToSet(RemoveIf(q, {x})) = ToSet(q) \ {x}
         /\ x \notin ToSet(q) => RemoveIf(q, {x}) = q
         /\ FindIf(q, {x}) = ToSet(q) \cap {x}
<1> DEFINE i == FirstMatch(q, {x})
<1>1. /\ RemoveIf(q, {x}) \in Seq(X) /\ IsInjective(RemoveIf(q, {x}))
      /\ FindIf(q, {x}) \subseteq ToSet(q) \cap {x}
      /\ FindIf(q, {x}) = {} <=> ToSet(q) \cap {x} = {}
      /\ ToSet(RemoveIf(q, {x})) = ToSet(q) \ FindIf(q, {x})
      /\ FindIf(q, {x}) = {} => RemoveIf(q, {x}) = q
  BY RemoveIfQueue, Zenon
<1>2. FindIf(q, {x}) = ToSet(q) \cap {x}
  BY <1>1
<1>3. RemoveIf(q, {x}) = RemoveAll(q, {x})
  <2>1. CASE i = 0
    <3>1. ToSet(q) \cap {x} = {}
      BY <2>1, FirstMatchQueue
    <3> QED
      BY <1>1, <3>1, RemoveAllQueue
  <2>2. CASE i # 0
    <3>1. i \in 1..Len(q) /\ q[i] = x
      BY <2>2, FirstMatchQueue
    <3>2. RemoveIf(q, {x}) = RemoveAt(q, i)
      BY <2>2 DEF RemoveIf
    <3> HIDE DEF i
    <3> QED
      BY <3>1, <3>2, RemoveAllOne
  <2> QED
    BY <2>1, <2>2
<1> QED
  BY <1>1, <1>2, <1>3

\* Taking out the first entry leaves the tail.
LEMMA RemoveHead ==
  ASSUME NEW X, NEW q \in Seq(X), q # <<>>, IsInjective(q)
  PROVE  /\ RemoveAll(q, {Head(q)}) = Tail(q)
         /\ Head(q) \in X /\ Head(q) \in ToSet(q)
<1>1. 1 \in 1..Len(q) /\ Head(q) = q[1]
  OBVIOUS
<1>2. RemoveAt(q, 1) = SubSeq(q, 1, 0) \o SubSeq(q, 2, Len(q))
  BY DEF RemoveAt
<1>3. SubSeq(q, 1, 0) = <<>>
  BY SubSeqEmpty
<1>4. SubSeq(q, 2, Len(q)) = Tail(q) /\ Tail(q) \in Seq(X)
  BY TailIsSubSeq, HeadTailProperties
<1>5. <<>> \o Tail(q) = Tail(q)
  BY <1>4, ConcatEmptySeq
<1>6. Head(q) \in X /\ Head(q) \in ToSet(q)
  BY <1>1, ToSetIs
<1>7. RemoveAll(q, {Head(q)}) = RemoveAt(q, 1)
  BY <1>1, RemoveAllOne
<1> QED
  BY <1>1, <1>2, <1>3, <1>4, <1>5, <1>6, <1>7

\* queue_remove_all depends on what matches among the entries only.
LEMMA RemoveAllSame ==
  ASSUME NEW X, NEW q \in Seq(X), NEW S, NEW T, S \cap ToSet(q) = T \cap ToSet(q)
  PROVE  RemoveAll(q, S) = RemoveAll(q, T)
<1>1. PICK g \in [0..Len(q) -> Seq(X)] :
             RestOf(q, S, Len(q), g) /\ RemoveAll(q, S) = g[Len(q)]
  BY RestIs, Zenon
<1>2. PICK h \in [0..Len(q) -> Seq(X)] :
             RestOf(q, T, Len(q), h) /\ RemoveAll(q, T) = h[Len(q)]
  BY RestIs, Zenon
<1>3. \A i \in 1..Len(q) : q[i] \in S <=> q[i] \in T
  BY ToSetIs
<1>4. /\ Len(q) \in Nat /\ g[0] = <<>> /\ h[0] = <<>>
      /\ \A i \in 1..Len(q) :
           g[i] = IF q[i] \in S THEN g[i - 1] ELSE Append(g[i - 1], q[i])
      /\ \A i \in 1..Len(q) :
           h[i] = IF q[i] \in T THEN h[i - 1] ELSE Append(h[i - 1], q[i])
  <2>1. Len(q) \in Nat /\ 0 \in 0..Len(q) /\ \A i \in 1..Len(q) : i \in 0..Len(q) /\ i # 0
    OBVIOUS
  <2> QED
    BY <1>1, <1>2, <2>1 DEF RestOf
<1> DEFINE Same == {i \in 0..Len(q) : g[i] = h[i]}
<1>5. 0 \in Same
  BY <1>4
<1>6. \A i \in 0..Len(q) : i < Len(q) /\ i \in Same => i + 1 \in Same
  <2> SUFFICES ASSUME NEW i \in 0..Len(q), i < Len(q), i \in Same PROVE i + 1 \in Same
    OBVIOUS
  <2>1. i + 1 \in 1..Len(q) /\ (i + 1) - 1 = i
    BY <1>4
  <2> QED
    BY <1>3, <1>4, <2>1, SMTT(30)
<1>7. Len(q) \in Same
  <2>1. Len(q) \in 0..Len(q)
    BY <1>4
  <2> HIDE DEF Same
  <2> QED
    BY <1>4, <1>5, <1>6, <2>1, CountUp
<1> QED
  BY <1>1, <1>2, <1>7

\* The entries of r are entries of q: f names for each position of r one of q, a
\* different one for each.
Embeds(f, r, q) ==
  /\ f \in [1..Len(r) -> 1..Len(q)]
  /\ \A i \in 1..Len(r) : r[i] = q[f[i]]
  /\ \A i, j \in 1..Len(r) : f[i] = f[j] => i = j

\* What queue_remove_all leaves comes from the queue, position by position, also when an
\* entry is in it several times.
LEMMA RemoveAllEmbeds ==
  ASSUME NEW X, NEW q \in Seq(X), NEW matching
  PROVE  \E f : Embeds(f, RemoveAll(q, matching), q)
<1>1. PICK g \in [0..Len(q) -> Seq(X)] :
             RestOf(q, matching, Len(q), g) /\ RemoveAll(q, matching) = g[Len(q)]
  BY RestIs
<1>2. /\ Len(q) \in Nat
      /\ g[0] = <<>>
      /\ \A i \in 0..Len(q) : g[i] \in Seq(X)
      /\ \A i \in 1..Len(q) :
           g[i] = IF q[i] \in matching THEN g[i - 1] ELSE Append(g[i - 1], q[i])
  <2>1. /\ Len(q) \in Nat /\ 0 \in 0..Len(q)
        /\ \A i \in 1..Len(q) : q[i] \in X /\ i \in 0..Len(q) /\ i # 0
        /\ \A i \in 0..Len(q) : g[i] \in Seq(X)
    OBVIOUS
  <2> QED
    BY <1>1, <2>1 DEF RestOf
<1> DEFINE Good(n) == \E f \in [1..Len(g[n]) -> 1..n] :
                         /\ \A i \in 1..Len(g[n]) : g[n][i] = q[f[i]]
                         /\ \A i, j \in 1..Len(g[n]) : f[i] = f[j] => i = j
           S == {n \in 0..Len(q) : Good(n)}
<1>3. Good(0)
  <2> DEFINE f == [i \in 1..0 |-> 0]
  <2>1. Len(g[0]) = 0 /\ 1..0 = {}
    BY <1>2
  <2>2. f \in [1..Len(g[0]) -> 1..0]
    BY <2>1
  <2> QED
    BY <2>1, <2>2
<1>4. ASSUME NEW n \in 0..Len(q), n < Len(q), Good(n)
      PROVE  Good(n + 1)
  <2>1. n + 1 \in 1..Len(q) /\ (n + 1) - 1 = n /\ n \in Nat
    BY <1>2, <1>4
  <2>2. g[n + 1] = IF q[n + 1] \in matching THEN g[n] ELSE Append(g[n], q[n + 1])
    BY <1>2, <2>1
  <2>3. PICK f \in [1..Len(g[n]) -> 1..n] :
               /\ \A i \in 1..Len(g[n]) : g[n][i] = q[f[i]]
               /\ \A i, j \in 1..Len(g[n]) : f[i] = f[j] => i = j
    BY <1>4
  <2> DEFINE m == Len(g[n])
  <2>4. m \in Nat /\ g[n] \in Seq(X)
    BY <1>2
  <2>5. CASE q[n + 1] \in matching
    <3>1. g[n + 1] = g[n] /\ f \in [1..Len(g[n + 1]) -> 1..(n + 1)]
      BY <2>1, <2>2, <2>3, <2>5
    <3> QED
      BY <2>3, <3>1
  <2>6. CASE q[n + 1] \notin matching
    <3> DEFINE h == [i \in 1..(m + 1) |-> IF i <= m THEN f[i] ELSE n + 1]
    <3>1. /\ Len(g[n + 1]) = m + 1 /\ g[n + 1][m + 1] = q[n + 1]
          /\ \A i \in 1..m : g[n + 1][i] = g[n][i]
      BY <2>2, <2>4, <2>6
    <3>2. \A i \in 1..m : f[i] \in 1..n /\ g[n][i] = q[f[i]]
      BY <2>3
    <3>3. \A i, j \in 1..m : f[i] = f[j] => i = j
      BY <2>3
    <3> HIDE DEF m
    <3>4. h \in [1..(m + 1) -> 1..(n + 1)]
      BY <2>1, <2>4, <3>2
    <3>5. /\ \A i \in 1..m : h[i] = f[i]
          /\ h[m + 1] = n + 1
          /\ \A i \in 1..(m + 1) : i \in 1..m \/ i = m + 1
      BY <2>4
    <3> HIDE DEF h
    <3>6. \A i \in 1..(m + 1) : g[n + 1][i] = q[h[i]]
      BY <3>1, <3>2, <3>5
    <3>7. \A i, j \in 1..(m + 1) : h[i] = h[j] => i = j
      <4>1. \A i \in 1..m : h[i] # n + 1
        BY <2>1, <3>2, <3>5
      <4> QED
        BY <3>3, <3>5, <4>1
    <3>8. /\ h \in [1..Len(g[n + 1]) -> 1..(n + 1)]
          /\ \A i \in 1..Len(g[n + 1]) : g[n + 1][i] = q[h[i]]
          /\ \A i, j \in 1..Len(g[n + 1]) : h[i] = h[j] => i = j
      BY <3>1, <3>4, <3>6, <3>7
    <3> QED
      BY <3>8
  <2> QED
    BY <2>5, <2>6
<1>5. 0..Len(q) \subseteq S
  <2>1. 0 \in S
    BY <1>2, <1>3
  <2>2. \A n \in 0..Len(q) : n < Len(q) /\ n \in S => n + 1 \in S
    <3> SUFFICES ASSUME NEW n \in 0..Len(q), n < Len(q), n \in S PROVE n + 1 \in S
      OBVIOUS
    <3>1. Good(n)
      OBVIOUS
    <3>2. Good(n + 1)
      BY <3>1, <1>4
    <3>3. n + 1 \in 0..Len(q)
      BY <1>2
    <3> QED
      BY <3>2, <3>3
  <2> HIDE DEF S
  <2> QED
    BY <1>2, <2>1, <2>2, CountUp
<1>6. Good(Len(q))
  <2>1. Len(q) \in S
    <3>1. Len(q) \in 0..Len(q)
      BY <1>2
    <3> HIDE DEF S
    <3> QED
      BY <1>5, <3>1
  <2> QED
    BY <2>1
<1> QED
  BY <1>1, <1>6 DEF Embeds

\* The positions of two queues put together.
LEMMA ConcatGives ==
  ASSUME NEW X, NEW s \in Seq(X), NEW t \in Seq(X)
  PROVE  /\ Len(s \o t) = Len(s) + Len(t)
         /\ \A j \in 1..Len(s) : (s \o t)[j] = s[j]
         /\ \A j \in 1..Len(t) : (s \o t)[Len(s) + j] = t[j]
  OBVIOUS

\* What queue_remove_if leaves of an entry that is in the queue comes from the other
\* positions, and all other entries are left.
LEMMA RemoveIfEmbeds ==
  ASSUME NEW X, NEW q \in Seq(X), NEW x, x \in ToSet(q)
  PROVE  \E f, k : /\ Embeds(f, RemoveIf(q, {x}), q)
                   /\ k \in 1..Len(q) /\ q[k] = x
                   /\ \A i \in 1..Len(RemoveIf(q, {x})) : f[i] # k
                   /\ ToSet(q) \ {x} \subseteq ToSet(RemoveIf(q, {x}))
<1> DEFINE k == FirstMatch(q, {x})
           f == [i \in 1..(Len(q) - 1) |-> IF i < k THEN i ELSE i + 1]
<1>1. k # 0 /\ k \in 1..Len(q) /\ q[k] = x
  <2>1. ToSet(q) \cap {x} # {}
    OBVIOUS
  <2> QED
    BY <2>1, FirstMatchQueue
<1>2. RemoveIf(q, {x}) = RemoveAt(q, k)
  BY <1>1 DEF RemoveIf
<1> HIDE DEF k
<1>3. RemoveAt(q, k) = SubSeq(q, 1, k - 1) \o SubSeq(q, k + 1, Len(q))
  BY DEF RemoveAt
<1>4. /\ SubSeq(q, 1, k - 1) \in Seq(X) /\ Len(SubSeq(q, 1, k - 1)) = k - 1
      /\ \A j \in 1..(k - 1) : SubSeq(q, 1, k - 1)[j] = q[j]
  BY <1>1, SubSeqProperties
<1>5. /\ SubSeq(q, k + 1, Len(q)) \in Seq(X) /\ Len(SubSeq(q, k + 1, Len(q))) = Len(q) - k
      /\ \A j \in 1..(Len(q) - k) : SubSeq(q, k + 1, Len(q))[j] = q[k + j]
  BY <1>1, SubSeqProperties
<1> DEFINE b == SubSeq(q, 1, k - 1)
           a == SubSeq(q, k + 1, Len(q))
           r == b \o a
<1>6. /\ b \in Seq(X) /\ a \in Seq(X) /\ Len(b) = k - 1 /\ Len(a) = Len(q) - k
      /\ \A j \in 1..(k - 1) : b[j] = q[j]
      /\ \A j \in 1..(Len(q) - k) : a[j] = q[k + j]
      /\ RemoveIf(q, {x}) = r
  BY <1>2, <1>3, <1>4, <1>5
<1>7. Len(q) \in Nat
  OBVIOUS
<1> HIDE DEF a, b
<1>8. /\ Len(r) = Len(q) - 1
      /\ \A j \in 1..(k - 1) : r[j] = b[j]
      /\ \A j \in 1..(Len(q) - k) : r[(k - 1) + j] = a[j]
  <2>1. /\ Len(b \o a) = Len(b) + Len(a)
        /\ \A j \in 1..Len(b) : (b \o a)[j] = b[j]
        /\ \A j \in 1..Len(a) : (b \o a)[Len(b) + j] = a[j]
    <3>1. b \in Seq(X) /\ a \in Seq(X)
      BY <1>6
    <3> QED
      BY <3>1, ConcatGives
  <2>2. Len(b) + Len(a) = Len(q) - 1
    BY <1>1, <1>6, <1>7
  <2> QED
    BY <1>6, <2>1, <2>2
<1> HIDE DEF r
<1>9. \A i \in 1..Len(r) : r[i] = q[f[i]]
  <2> SUFFICES ASSUME NEW i \in 1..Len(r) PROVE r[i] = q[f[i]]
    OBVIOUS
  <2>1. CASE i < k
    BY <1>1, <1>6, <1>7, <1>8, <2>1
  <2>2. CASE ~(i < k)
    <3>1. i - (k - 1) \in 1..(Len(q) - k) /\ (k - 1) + (i - (k - 1)) = i
      BY <1>1, <1>7, <1>8, <2>2
    <3>2. r[i] = a[i - (k - 1)]
      BY <1>8, <3>1
    <3>3. a[i - (k - 1)] = q[k + (i - (k - 1))]
      BY <1>6, <3>1
    <3>4. k + (i - (k - 1)) = i + 1 /\ f[i] = i + 1
      BY <1>1, <1>7, <1>8, <2>2
    <3> QED
      BY <3>2, <3>3, <3>4
  <2> QED
    BY <2>1, <2>2
<1>10. f \in [1..Len(r) -> 1..Len(q)] /\ \A i \in 1..Len(r) : f[i] # k
  BY <1>1, <1>7, <1>8
<1>11. \A i, j \in 1..Len(r) : f[i] = f[j] => i = j
  BY <1>1, <1>7, <1>8
<1>12. ToSet(q) \ {x} \subseteq ToSet(r)
  <2> SUFFICES ASSUME NEW l \in 1..Len(q), q[l] # x PROVE \E i \in 1..Len(r) : r[i] = q[l]
    <3>1. r \in Seq(X)
      BY <1>6, ConcatProperties DEF r
    <3> QED
      BY <3>1, ToSetIs
  <2>1. l # k
    BY <1>1
  <2>2. CASE l < k
    <3>1. l \in 1..Len(r) /\ f[l] = l
      BY <1>1, <1>7, <1>8, <2>2
    <3> QED
      BY <1>9, <3>1
  <2>3. CASE l > k
    <3>1. l - 1 \in 1..Len(r) /\ f[l - 1] = l
      BY <1>1, <1>7, <1>8, <2>3
    <3> QED
      BY <1>9, <3>1
  <2> QED
    BY <1>1, <2>1, <2>2, <2>3
<1> HIDE DEF f
<1>13. Embeds(f, r, q)
  BY <1>9, <1>10, <1>11 DEF Embeds
<1> QED
  BY <1>1, <1>6, <1>10, <1>12, <1>13

\* queue_push_head adds one entry, which is in the queue once if it was not in it.
LEMMA PushHeadQueue ==
  ASSUME NEW X, NEW q \in Seq(X), NEW x \in X
  PROVE  /\ PushHead(q, x) \in Seq(X)
         /\ ToSet(PushHead(q, x)) = {x} \cup ToSet(q)
         /\ IsInjective(PushHead(q, x)) <=> IsInjective(q) /\ x \notin ToSet(q)
<1>1. <<x>> \in Seq(X) /\ ToSet(<<x>>) = {x} /\ IsInjective(<<x>>)
  BY SingleQueue
<1>2. /\ <<x>> \o q \in Seq(X)
      /\ ToSet(<<x>> \o q) = ToSet(<<x>>) \cup ToSet(q)
      /\ IsInjective(<<x>> \o q)
           <=> IsInjective(<<x>>) /\ IsInjective(q) /\ ToSet(<<x>>) \cap ToSet(q) = {}
  BY <1>1, ConcatQueue
<1>3. ToSet(<<x>>) \cap ToSet(q) = {} <=> x \notin ToSet(q)
  BY <1>1
<1> QED
  BY <1>1, <1>2, <1>3 DEF PushHead

\* x is in q, and y at its place or after it.
InOrder(q, x, y) == \E i, j \in 1..Len(q) : i <= j /\ q[i] = x /\ q[j] = y

\* queue_remove_if of one entry keeps the order of the others.
LEMMA RemoveIfOrder ==
  ASSUME NEW X, NEW q \in Seq(X), NEW x, NEW y, NEW z, y # x, z # x, InOrder(q, y, z)
  PROVE  InOrder(RemoveIf(q, {x}), y, z)
<1>0. PICK a \in 1..Len(q), b \in 1..Len(q) : a <= b /\ q[a] = y /\ q[b] = z
  BY DEF InOrder
<1> SUFFICES \E c, d \in 1..Len(RemoveIf(q, {x})) :
               c <= d /\ RemoveIf(q, {x})[c] = q[a] /\ RemoveIf(q, {x})[d] = q[b]
  BY <1>0 DEF InOrder
<1> DEFINE k == FirstMatch(q, {x})
           r == RemoveIf(q, {x})
           new(i) == IF i < k THEN i ELSE i - 1
<1>1. Len(q) \in Nat
  OBVIOUS
<1>2. CASE k = 0
  <2>1. r = q
    BY <1>2 DEF RemoveIf
  <2> QED
    BY <1>0, <2>1
<1>3. CASE k # 0
  <2>1. k \in 1..Len(q) /\ q[k] = x
    <3>1. k \in 1..Len(q) /\ q[k] \in {x}
      BY <1>3, FirstMatchQueue
    <3> HIDE DEF k
    <3> QED
      BY <3>1
  <2>2. r = SubSeq(q, 1, k - 1) \o SubSeq(q, k + 1, Len(q))
    BY <1>3 DEF RemoveIf, RemoveAt
  <2> HIDE DEF k, r
  <2>3. /\ SubSeq(q, 1, k - 1) \in Seq(X) /\ Len(SubSeq(q, 1, k - 1)) = k - 1
        /\ \A i \in 1..(k - 1) : SubSeq(q, 1, k - 1)[i] = q[i]
    BY <2>1, SubSeqProperties
  <2>4. /\ SubSeq(q, k + 1, Len(q)) \in Seq(X) /\ Len(SubSeq(q, k + 1, Len(q))) = Len(q) - k
        /\ \A i \in 1..(Len(q) - k) : SubSeq(q, k + 1, Len(q))[i] = q[k + i]
    BY <2>1, SubSeqProperties
  <2> DEFINE s == SubSeq(q, 1, k - 1)
             t == SubSeq(q, k + 1, Len(q))
  <2> HIDE DEF s, t
  <2>5. /\ Len(r) = Len(s) + Len(t)
        /\ \A j \in 1..Len(s) : r[j] = s[j]
        /\ \A j \in 1..Len(t) : r[Len(s) + j] = t[j]
    <3>1. r = s \o t /\ s \in Seq(X) /\ t \in Seq(X)
      BY <2>2, <2>3, <2>4 DEF s, t
    <3>2. /\ Len(s \o t) = Len(s) + Len(t)
          /\ \A j \in 1..Len(s) : (s \o t)[j] = s[j]
          /\ \A j \in 1..Len(t) : (s \o t)[Len(s) + j] = t[j]
      BY <3>1, ConcatGives
    <3> QED
      BY <3>1, <3>2
  <2>6. /\ Len(s) = k - 1 /\ Len(t) = Len(q) - k
        /\ \A i \in 1..(k - 1) : s[i] = q[i]
        /\ \A i \in 1..(Len(q) - k) : t[i] = q[k + i]
    BY <2>3, <2>4 DEF s, t
  <2>7. ASSUME NEW i \in 1..Len(q), i # k PROVE new(i) \in 1..Len(r) /\ r[new(i)] = q[i]
    <3>1. CASE i < k
      BY <1>1, <2>1, <2>5, <2>6, <3>1
    <3>2. CASE i > k
      <4>1. i - k \in 1..Len(t) /\ Len(s) + (i - k) = i - 1 /\ k + (i - k) = i
        BY <1>1, <2>1, <2>6, <3>2
      <4>2. r[i - 1] = t[i - k] /\ t[i - k] = q[i]
        BY <2>5, <2>6, <4>1
      <4>3. new(i) = i - 1 /\ i - 1 \in 1..Len(r)
        BY <1>1, <2>1, <2>5, <2>6, <3>2
      <4> QED
        BY <4>2, <4>3
    <3> QED
      BY <2>1, <2>7, <3>1, <3>2
  <2>8. new(a) <= new(b)
    BY <1>0, <2>1
  <2>9. a # k /\ b # k
    BY <1>0, <2>1
  <2> HIDE DEF new
  <2>10. /\ new(a) \in 1..Len(r) /\ r[new(a)] = q[a]
         /\ new(b) \in 1..Len(r) /\ r[new(b)] = q[b]
    BY <2>7, <2>9
  <2> QED
    BY <2>8, <2>10 DEF r
<1> QED
  BY <1>2, <1>3
=============================================================================
