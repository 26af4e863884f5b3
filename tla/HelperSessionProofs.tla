------------------------- MODULE HelperSessionProofs -------------------------
(***************************************************************************)
(* Proofs about an object of btle.py and its helper (HelperSession): the   *)
(* types, that an answer handed to a call is that of its own command, and  *)
(* that the end of the connection is told.                                 *)
(*                                                                         *)
(* The argument follows one answer.  A command that is answered is always  *)
(* followed by the wait for its answer (Shaped), and the helper answers it *)
(* once (HelperSteps): as long as the object reads, an answer is on its    *)
(* way only while it waits for one, and it is the only one (Outstanding).  *)
(* A call may give up waiting, but only on the line that says that the     *)
(* connection has ended, or that the process has: that line stops the      *)
(* helper before the next command, so what comes after it in the pipe does *)
(* not count.                                                              *)
(***************************************************************************)
EXTENDS HelperSession, QueueProofs

----------------------------------------------------------------------------
(* Pipes.  What comes after the line that ends the connection does not     *)
(* count: S are the entries that are looked for, E those that end.         *)

\* No entry of S before one of E.
Free(q, S, E) == \A i \in 1..Len(q) : q[i] \in S => \E j \in 1..i : q[j] \in E

\* An entry of E.
Has(q, E) == \E i \in 1..Len(q) : q[i] \in E

\* One entry of S before any of E, and it is of O.
One(q, S, O, E) ==
  \E i \in 1..Len(q) :
    /\ q[i] \in O /\ \A j \in 1..i : q[j] \notin E
    /\ \A j \in 1..Len(q) : q[j] \in S => j = i \/ \E k \in 1..j : q[k] \in E

\* An empty queue holds nothing.
LEMMA EmptyPipe ==
  ASSUME NEW S, NEW E
  PROVE  Free(<<>>, S, E) /\ ~Has(<<>>, E)
BY DEF Free, Has

\* What an entry that is put at the end of a queue does to what is looked for in it.
LEMMA PipeAppend ==
  ASSUME NEW T, NEW q \in Seq(T), NEW x \in T, NEW S, NEW O, NEW E, S \cap E = {}, O \subseteq S
  PROVE  /\ Has(Append(q, x), E) <=> Has(q, E) \/ x \in E
         /\ Free(q, S, E) /\ (x \notin S \/ Has(q, E)) => Free(Append(q, x), S, E)
         /\ Free(q, S, E) /\ x \in O /\ ~Has(q, E) => One(Append(q, x), S, O, E)
         /\ One(q, S, O, E) /\ (x \notin S \/ Has(q, E)) => One(Append(q, x), S, O, E)
<1> DEFINE a == Append(q, x)
           n == Len(q)
<1>1. /\ n \in Nat /\ Len(a) = n + 1 /\ a[n + 1] = x
      /\ \A i \in 1..n : a[i] = q[i] /\ i \in 1..(n + 1)
      /\ \A i \in 1..(n + 1) : i \in 1..n \/ i = n + 1
      /\ \A i \in 1..(n + 1) : \A j \in 1..i : j \in 1..n \/ (j = n + 1 /\ i = n + 1)
  BY AppendProperties
<1>2. Has(a, E) <=> Has(q, E) \/ x \in E
  BY <1>1 DEF Has
<1>3. Has(q, E) => \E k \in 1..(n + 1) : k \in 1..n /\ a[k] \in E
  BY <1>1 DEF Has
<1>4. ASSUME Free(q, S, E), x \notin S \/ Has(q, E) PROVE Free(a, S, E)
  BY <1>1, <1>3, <1>4 DEF Free
<1>5. ASSUME Free(q, S, E), x \in O, ~Has(q, E) PROVE One(a, S, O, E)
  <2>1. \A j \in 1..(n + 1) : a[j] \notin E
    BY <1>1, <1>5 DEF Has
  <2>2. \A j \in 1..(n + 1) : a[j] \in S => j = n + 1
    BY <1>1, <1>5 DEF Free, Has
  <2> QED
    BY <1>1, <1>5, <2>1, <2>2 DEF One
<1>6. ASSUME One(q, S, O, E), x \notin S \/ Has(q, E) PROVE One(a, S, O, E)
  <2>1. PICK i \in 1..n :
               /\ q[i] \in O /\ \A j \in 1..i : q[j] \notin E
               /\ \A j \in 1..n : q[j] \in S => j = i \/ \E k \in 1..j : q[k] \in E
    BY <1>6 DEF One
  <2>2. /\ a[i] \in O /\ i \in 1..(n + 1)
        /\ \A j \in 1..i : a[j] \notin E
    BY <1>1, <2>1
  <2>3. ASSUME NEW j \in 1..(n + 1), a[j] \in S
        PROVE  j = i \/ \E k \in 1..j : a[k] \in E
    <3>1. CASE j \in 1..n
      BY <1>1, <2>1, <2>3, <3>1
    <3>2. CASE j = n + 1
      BY <1>1, <1>3, <1>6, <2>3, <3>2
    <3> QED
      BY <1>1, <3>1, <3>2
  <2> QED
    BY <1>1, <2>2, <2>3 DEF One
<1> QED
  BY <1>2, <1>4, <1>5, <1>6

\* What is left when the first entry of a queue, that does not end, is taken.
LEMMA PipeTail ==
  ASSUME NEW T, NEW q \in Seq(T), q # <<>>, NEW S, NEW O, NEW E, S \cap E = {}, O \subseteq S,
         Head(q) \notin E
  PROVE  /\ Has(Tail(q), E) <=> Has(q, E)
         /\ Free(q, S, E) => Head(q) \notin S /\ Free(Tail(q), S, E)
         /\ One(q, S, O, E) /\ Head(q) \notin S => One(Tail(q), S, O, E)
         /\ One(q, S, O, E) /\ Head(q) \in S => Head(q) \in O /\ Free(Tail(q), S, E)
<1> DEFINE t == Tail(q)
           n == Len(q)
<1>1. /\ n \in Nat \ {0} /\ Len(t) = n - 1 /\ q[1] = Head(q)
      /\ \A i \in 1..(n - 1) : t[i] = q[i + 1] /\ i + 1 \in 1..n
      /\ \A i \in 1..n : i = 1 \/ (i - 1 \in 1..(n - 1) /\ q[i] = t[i - 1])
  BY HeadTailProperties, EmptySeq
<1>2. \A i \in 1..(n - 1) : (\E j \in 1..(i + 1) : q[j] \in E) => \E j \in 1..i : t[j] \in E
  <2> SUFFICES ASSUME NEW i \in 1..(n - 1), NEW j \in 1..(i + 1), q[j] \in E
               PROVE  \E k \in 1..i : t[k] \in E
    OBVIOUS
  <2>1. j # 1 /\ j \in 1..n
    BY <1>1
  <2>2. j - 1 \in 1..i /\ t[j - 1] = q[j]
    BY <1>1, <2>1
  <2> QED
    BY <2>2
<1>3. Has(t, E) <=> Has(q, E)
  BY <1>1 DEF Has
<1>4. ASSUME Free(q, S, E) PROVE Head(q) \notin S /\ Free(t, S, E)
  <2>1. Head(q) \notin S
    BY <1>1, <1>4 DEF Free
  <2>2. Free(t, S, E)
    BY <1>1, <1>2, <1>4 DEF Free
  <2> QED
    BY <2>1, <2>2
<1>5. ASSUME One(q, S, O, E)
      PROVE  /\ Head(q) \notin S => One(t, S, O, E)
             /\ Head(q) \in S => Head(q) \in O /\ Free(t, S, E)
  <2>1. PICK i \in 1..n :
               /\ q[i] \in O /\ \A j \in 1..i : q[j] \notin E
               /\ \A j \in 1..n : q[j] \in S => j = i \/ \E k \in 1..j : q[k] \in E
    BY <1>5 DEF One
  <2>2. ASSUME Head(q) \notin S PROVE One(t, S, O, E)
    <3>1. i # 1 /\ i - 1 \in 1..(n - 1) /\ t[i - 1] \in O
      BY <1>1, <2>1, <2>2
    <3>2. \A j \in 1..(i - 1) : t[j] \notin E
      BY <1>1, <2>1, <3>1
    <3>3. ASSUME NEW j \in 1..(n - 1), t[j] \in S
          PROVE  j = i - 1 \/ \E k \in 1..j : t[k] \in E
      <4>1. j + 1 = i \/ \E k \in 1..(j + 1) : q[k] \in E
        BY <1>1, <2>1, <3>3
      <4> QED
        BY <1>2, <4>1
    <3> QED
      BY <1>1, <3>1, <3>2, <3>3 DEF One
  <2>3. ASSUME Head(q) \in S PROVE Head(q) \in O /\ Free(t, S, E)
    <3>1. i = 1
      <4>1. 1 \in 1..n /\ \A k \in 1..1 : q[k] \notin E
        BY <1>1
      <4> QED
        BY <1>1, <2>1, <2>3, <4>1
    <3>2. ASSUME NEW j \in 1..(n - 1), t[j] \in S PROVE \E k \in 1..j : t[k] \in E
      <4>1. \E k \in 1..(j + 1) : q[k] \in E
        BY <1>1, <2>1, <3>1, <3>2
      <4> QED
        BY <1>2, <4>1
    <3> QED
      BY <1>1, <2>1, <3>1, <3>2 DEF Free
  <2> QED
    BY <2>2, <2>3
<1> QED
  BY <1>3, <1>4, <1>5

----------------------------------------------------------------------------
(* Scripts *)

\* The object is a Scanner; else it is a Peripheral.
Scanner == "scan" \in use

\* The commands that an object with these calls writes.
Verbs ==
  IF Scanner THEN {"le", "scan", "scanend", "pasv", "pasvend", "stat"}
  ELSE {"svcs", "incl", "char", "desc", "rd", "rdu", "wr", "wrr", "conn", "disc"}
         \cup (use \cap {"local_oob"})

\* The commands that are answered with a line of their own, and the types of such lines;
\* an error is one too.
Asked ==
  {"svcs", "incl", "char", "desc", "rd", "rdu", "wr", "wrr", "local_oob",
   "le", "scan", "scanend", "pasv", "pasvend"}
Kinds == {"find", "desc", "rd", "wr", "oob", "mgmt"}

\* The waits of a script: for a notification, for the connection, for its end, for why it
\* failed, for the answer to a command.
ForEvent == Wait(Notified, TRUE, "value")
ForEnd == Wait({"stat"} \cup Notified, FALSE, "value")
ForReason == Wait({"err"} \cup Notified, TRUE, "value")
Replying == {Wait({k} \cup Notified, FALSE, "value") : k \in Kinds}
Mgmt1 == Wait({"mgmt"}, FALSE, "success")
Scanning == Wait({"mgmt"}, FALSE, "scanning")
ScanEnded == Wait({"stat"}, FALSE, "ended")

Awaited == IF Scanner THEN {Mgmt1, Scanning} ELSE Replying
Waits ==
  Awaited \cup IF Scanner THEN {Processing, ScanEnded} ELSE {ForEvent, ForEnd, ForReason, Connecting}
Writes == {Write(v) : v \in Verbs}
Steps ==
  {Start, [do |-> "quit"], [do |-> "reap"]} \cup Writes \cup Waits
    \cup IF Scanner THEN {} ELSE {Made}

Asks(s) == s.do = "write" /\ s.verb \in Asked
Opens(s) == s = Write("conn")

\* What can follow a step, and what can be the last.
Fits(a, b) ==
  /\ Asks(a) <=> b \in Awaited
  /\ a.do = "quit" <=> b.do = "reap"
  /\ a \in {ForEnd, ForReason} => b.do = "quit"
  /\ Opens(a) <=> b = Connecting
  /\ Opens(b) => a = Start
  /\ b \notin {ForReason, Start}
  /\ a = Start => b \in {Write("conn"), Write("local_oob"), Write("le")}
MayEnd(a) ==
  ~Asks(a) /\ ~Opens(a) /\ a \notin {Start, ForEnd, ForReason} /\ a.do # "quit"

Shaped(s) ==
  /\ s \in Seq(Steps)
  /\ \A i \in 1..(Len(s) - 1) : Fits(s[i], s[i + 1])
  /\ s # <<>> => MayEnd(s[Len(s)])

\* The rest of a well-formed script is well-formed.
LEMMA ShapedTail ==
  ASSUME NEW s, Shaped(s), s # <<>>
  PROVE  /\ Head(s) \in Steps /\ Shaped(Tail(s)) /\ s = <<Head(s)>> \o Tail(s)
         /\ Tail(s) # <<>> => Fits(Head(s), Head(Tail(s)))
         /\ Tail(s) = <<>> => MayEnd(Head(s))
<1> DEFINE t == Tail(s)
           n == Len(s)
<1>1. s \in Seq(Steps) /\ Head(s) \in Steps /\ t \in Seq(Steps) /\ s = <<Head(s)>> \o t
  BY HeadQueue DEF Shaped
<1>2. /\ n \in Nat \ {0} /\ Len(t) = n - 1 /\ s[1] = Head(s)
      /\ \A i \in 1..(n - 1) : t[i] = s[i + 1]
  BY <1>1, HeadTailProperties, EmptySeq
<1>3. t # <<>> => n > 1 /\ Head(t) = s[2]
  <2>1. t # <<>> => Len(t) \in Nat \ {0} /\ Head(t) = t[1]
    BY <1>1, EmptySeq
  <2> QED
    BY <1>2, <2>1
<1>4. t = <<>> => n = 1
  BY <1>2, EmptySeq
<1>5. \A i \in 1..(n - 2) : Fits(t[i], t[i + 1])
  <2> SUFFICES ASSUME NEW i \in 1..(n - 2) PROVE Fits(t[i], t[i + 1])
    OBVIOUS
  <2>1. t[i] = s[i + 1] /\ t[i + 1] = s[(i + 1) + 1] /\ i + 1 \in 1..(n - 1)
    BY <1>2
  <2>2. Fits(s[i + 1], s[(i + 1) + 1])
    BY <2>1 DEF Shaped
  <2> QED
    BY <2>1, <2>2
<1>6. t # <<>> => MayEnd(t[Len(t)])
  <2>1. ASSUME t # <<>> PROVE t[n - 1] = s[n]
    BY <1>2, <1>3, <2>1
  <2> QED
    BY <1>2, <2>1 DEF Shaped
<1>7. Shaped(t)
  BY <1>1, <1>2, <1>5, <1>6 DEF Shaped
<1>8. t # <<>> => Fits(s[1], s[1 + 1])
  BY <1>2, <1>3 DEF Shaped
<1>9. t = <<>> => MayEnd(s[1])
  BY <1>2, <1>4 DEF Shaped
<1> QED
  BY <1>1, <1>2, <1>3, <1>7, <1>8, <1>9

\* A step put before a well-formed script that it fits.
LEMMA ShapedCons ==
  ASSUME NEW r, Shaped(r), NEW a \in Steps,
         r # <<>> => Fits(a, Head(r)), r = <<>> => MayEnd(a)
  PROVE  /\ Shaped(<<a>> \o r) /\ <<a>> \o r # <<>>
         /\ Head(<<a>> \o r) = a /\ Tail(<<a>> \o r) = r
<1> DEFINE s == <<a>> \o r
           n == Len(r)
<1>1. r \in Seq(Steps) /\ <<a>> \in Seq(Steps) /\ Len(<<a>>) = 1 /\ <<a>>[1] = a
  BY DEF Shaped
<1>2. /\ s \in Seq(Steps) /\ Len(s) = 1 + n /\ n \in Nat
      /\ \A i \in 1..(1 + n) : s[i] = IF i <= 1 THEN <<a>>[i] ELSE r[i - 1]
  BY <1>1, ConcatProperties
<1>3. s[1] = a /\ \A i \in 1..n : s[i + 1] = r[i]
  BY <1>1, <1>2
<1>4. s # <<>> /\ Head(s) = a
  BY <1>2, <1>3, EmptySeq
<1>5. Tail(s) = r
  <2>1. Tail(s) \in Seq(Steps) /\ Len(Tail(s)) = n /\ \A i \in 1..n : Tail(s)[i] = s[i + 1]
    BY <1>2, <1>4, HeadTailProperties
  <2> QED
    BY <1>1, <1>3, <2>1, SeqEqual
<1>6. r # <<>> => n > 0 /\ Head(r) = r[1]
  BY <1>1, EmptySeq
<1>7. ASSUME NEW i \in 1..n PROVE Fits(s[i], s[i + 1])
  <2>1. CASE i = 1
    BY <1>2, <1>3, <1>6, <1>7, <2>1, EmptySeq
  <2>2. CASE i # 1
    <3>1. i - 1 \in 1..(n - 1) /\ s[i] = r[i - 1] /\ s[i + 1] = r[(i - 1) + 1]
      BY <1>2, <1>3, <1>7, <2>2
    <3> QED
      BY <3>1 DEF Shaped
  <2> QED
    BY <2>1, <2>2
<1>8. MayEnd(s[1 + n])
  <2>1. CASE r = <<>>
    BY <1>2, <1>3, <2>1, EmptySeq
  <2>2. CASE r # <<>>
    BY <1>2, <1>3, <1>6, <2>2 DEF Shaped
  <2> QED
    BY <2>1, <2>2
<1> QED
  BY <1>2, <1>4, <1>5, <1>7, <1>8 DEF Shaped

\* A script without a step is well-formed.
LEMMA ShapedEmpty == Shaped(<<>>)
BY EmptySeq DEF Shaped

\* Three sequences in a row, put together from the left and from the right.
ThreeLeft(s1, s2, s3) == (s1 \o s2) \o s3
ThreeRight(s1, s2, s3) == s1 \o (s2 \o s3)

\* Both ways give the same sequence.
LEMMA ConcatThree ==
  ASSUME NEW T, NEW s1 \in Seq(T), NEW s2 \in Seq(T), NEW s3 \in Seq(T)
  PROVE  ThreeLeft(s1, s2, s3) = ThreeRight(s1, s2, s3)
BY ConcatAssociative DEF ThreeLeft, ThreeRight

\* Two steps put before a script.
LEMMA TwoBefore ==
  ASSUME NEW T, NEW a \in T, NEW b \in T, NEW r \in Seq(T)
  PROVE  <<a, b>> \o r = <<a>> \o (<<b>> \o r)
<1>1. <<a>> \in Seq(T) /\ <<b>> \in Seq(T) /\ <<a, b>> \in Seq(T)
  OBVIOUS
<1>2. <<a>> \o <<b>> = <<a, b>>
  <2>1. /\ Len(<<a>>) = 1 /\ Len(<<b>>) = 1 /\ Len(<<a, b>>) = 2
        /\ <<a>>[1] = a /\ <<b>>[1] = b /\ <<a, b>>[1] = a /\ <<a, b>>[2] = b
    OBVIOUS
  <2> DEFINE s == <<a>> \o <<b>>
  <2>2. /\ s \in Seq(T) /\ Len(s) = 2
        /\ \A i \in 1..2 : s[i] = IF i <= 1 THEN <<a>>[i] ELSE <<b>>[i - 1]
    BY <1>1, <2>1, ConcatProperties
  <2>3. s[1] = a /\ s[2] = b
    BY <2>1, <2>2
  <2>4. \A i \in 1..2 : i = 1 \/ i = 2
    OBVIOUS
  <2> HIDE DEF s
  <2>5. s = <<a, b>>
    BY <1>1, <2>1, <2>2, <2>3, <2>4, SeqEqual
  <2> QED
    BY <2>5 DEF s
<1>3. (<<a>> \o <<b>>) \o r = <<a>> \o (<<b>> \o r)
  <2>1. ThreeLeft(<<a>>, <<b>>, r) = ThreeRight(<<a>>, <<b>>, r)
    BY <1>1, ConcatThree
  <2> QED
    BY <2>1 DEF ThreeLeft, ThreeRight
<1> QED
  BY <1>2, <1>3

\* What the waits of a script wait for.
LEMMA WaitKinds ==
  /\ ForEvent.do = "wait" /\ ForEnd.do = "wait" /\ ForReason.do = "wait" /\ Connecting.do = "wait"
  /\ Processing.do = "wait" /\ ScanEnded.do = "wait"
  /\ \A w \in Waits : w.do = "wait"
  /\ Awaited \cap {ForEvent, ForEnd, ForReason, Connecting, Processing, ScanEnded} = {}
  /\ ForEnd # ForReason /\ ForEnd # ForEvent /\ ForReason # ForEvent
  /\ Connecting \notin {ForEvent, ForEnd, ForReason}
  /\ {Processing, ScanEnded} \cap {ForEvent, ForEnd, ForReason, Connecting} = {}
<1> USE DEF Wait, Notified, Kinds
<1>0. \A w \in Waits : w.do = "wait"
  BY DEF Waits, Awaited, Mgmt1, Scanning, Replying, Processing, ScanEnded, ForEvent, ForEnd,
     ForReason, Connecting
<1>1. /\ ForEvent.do = "wait" /\ ForEnd.do = "wait" /\ ForReason.do = "wait" /\ Connecting.do = "wait"
      /\ Processing.do = "wait" /\ ScanEnded.do = "wait"
  BY DEF Processing, ScanEnded, ForEvent, ForEnd, ForReason, Connecting
<1>4. \A w \in Awaited : ~w.timed /\ w.then # "connecting" /\ w.then # "ended"
                         /\ "stat" \notin w.want /\ "err" \notin w.want
  BY DEF Awaited, Mgmt1, Scanning, Replying
<1>5. /\ ForEvent.timed /\ ForReason.timed /\ Processing.timed
      /\ "stat" \in ForEnd.want /\ Connecting.then = "connecting" /\ ScanEnded.then = "ended"
  BY DEF Processing, ScanEnded, ForEvent, ForEnd, ForReason, Connecting
<1>6. /\ ~ForEnd.timed /\ "err" \in ForReason.want /\ "err" \notin ForEvent.want
      /\ ForEvent.then = "value" /\ ForEnd.then = "value" /\ ForReason.then = "value"
      /\ Processing.then = "process"
  BY DEF Processing, ForEvent, ForEnd, ForReason
<1> HIDE DEF Wait, Notified, Kinds
<1>7. Awaited \cap {ForEvent, ForEnd, ForReason, Connecting, Processing, ScanEnded} = {}
  BY <1>4, <1>5
<1>8. /\ ForEnd # ForReason /\ ForEnd # ForEvent /\ ForReason # ForEvent
      /\ Connecting \notin {ForEvent, ForEnd, ForReason}
      /\ {Processing, ScanEnded} \cap {ForEvent, ForEnd, ForReason, Connecting} = {}
  BY <1>5, <1>6
<1> QED
  BY <1>0, <1>1, <1>7, <1>8

\* The kinds of steps are apart.
LEMMA StepKinds ==
  /\ Waits \subseteq Steps /\ Awaited \subseteq Waits
  /\ \A s \in Steps : s.do = "wait" <=> s \in Waits
  /\ \A s \in Steps : s.do = "write" <=> s \in Writes
  /\ \A s : s.do = "wait" => ~Asks(s) /\ ~Opens(s) /\ s # Start /\ s # Made
  /\ \A v : /\ Write(v).do = "write" /\ Write(v) # Start /\ Write(v) # Made
            /\ Asks(Write(v)) <=> v \in Asked
            /\ Opens(Write(v)) <=> v = "conn"
  /\ Start.do = "start" /\ Made.do = "made"
  /\ \A s : s.do = "start" /\ s \in Steps => s = Start
  /\ ~Asks(Start) /\ ~Opens(Start) /\ ~Asks(Made) /\ ~Opens(Made) /\ Start # Made
<1>1. \A w \in Waits : w.do = "wait"
  BY WaitKinds
<1>2. \A s \in Writes : s.do = "write"
  BY DEF Writes, Write
<1>3. Start.do = "start" /\ Made.do = "made"
  BY DEF Start, Made
<1>4. /\ [do |-> "quit"].do = "quit" /\ [do |-> "reap"].do = "reap"
  OBVIOUS
<1>5. /\ \A s \in Steps : s.do = "wait" <=> s \in Waits
      /\ \A s \in Steps : s.do = "write" <=> s \in Writes
      /\ \A s \in Steps : s.do = "start" => s = Start
  BY <1>1, <1>2, <1>3, <1>4 DEF Steps
<1>6. \A v : Write(v).do = "write" /\ Write(v).verb = v
  BY DEF Write
<1>7. \A s : Asks(s) \/ Opens(s) => s.do = "write"
  BY <1>6 DEF Asks, Opens
<1>8. \A v : /\ Asks(Write(v)) <=> v \in Asked
             /\ Opens(Write(v)) <=> v = "conn"
  BY <1>6 DEF Asks, Opens
<1>9. Waits \subseteq Steps /\ Awaited \subseteq Waits
  BY DEF Steps, Waits
<1> QED
  BY <1>3, <1>5, <1>6, <1>7, <1>8, <1>9

\* What can follow a step that asks for nothing.
Loose(r) ==
  r # <<>> => /\ Head(r) \notin Awaited \cup {Connecting, ForReason, Start}
              /\ Head(r).do # "reap" /\ ~Opens(Head(r))

\* Before such a script there can be an answer, a wait that may be the last, or a step
\* that does not ask.
LEMMA BeforeLoose ==
  ASSUME NEW r, Shaped(r), Loose(r),
         NEW a \in Steps,
         \/ a \in Waits \ {ForEnd, ForReason, Connecting}
         \/ a = Made \/ a = Write("stat") \/ a = Write("disc")
  PROVE  Shaped(<<a>> \o r) /\ Head(<<a>> \o r) = a /\ Tail(<<a>> \o r) = r /\ <<a>> \o r # <<>>
<1>1. /\ ~Asks(a) /\ ~Opens(a) /\ a.do \notin {"quit", "reap"}
      /\ a \notin {Start, ForEnd, ForReason, Connecting}
  <2>1. CASE a \in Waits \ {ForEnd, ForReason, Connecting}
    <3>1. a.do = "wait"
      BY <2>1, WaitKinds
    <3> QED
      BY <2>1, <3>1, StepKinds
  <2>2. CASE a = Made
    BY <2>2, WaitKinds, StepKinds
  <2>3. CASE a = Write("stat")
    <3>1. "stat" \notin Asked
      BY DEF Asked
    <3> QED
      BY <2>3, <3>1, WaitKinds, StepKinds
  <2>4. CASE a = Write("disc")
    <3>1. "disc" \notin Asked
      BY DEF Asked
    <3> QED
      BY <2>4, <3>1, WaitKinds, StepKinds
  <2> QED
    BY <2>1, <2>2, <2>3, <2>4
<1>2. r # <<>> => Fits(a, Head(r))
  BY <1>1 DEF Fits, Loose
<1>3. r = <<>> => MayEnd(a)
  BY <1>1 DEF MayEnd
<1> QED
  BY <1>2, <1>3, ShapedCons

\* The rest of a script after a step that does not ask is loose.
LEMMA RestLoose ==
  ASSUME NEW s, Shaped(s), s # <<>>, ~Asks(Head(s)), ~Opens(Head(s)),
         Head(s) # Start, Head(s).do # "quit"
  PROVE  Shaped(Tail(s)) /\ Loose(Tail(s))
<1>1. Shaped(Tail(s)) /\ (Tail(s) # <<>> => Fits(Head(s), Head(Tail(s))))
  BY ShapedTail
<1> QED
  BY <1>1 DEF Loose, Fits

\* An answering command and its wait before a loose script.
LEMMA AskBefore ==
  ASSUME NEW r, Shaped(r), Loose(r), NEW v \in Verbs \cap Asked, NEW w \in Awaited
  PROVE  /\ Shaped(<<Write(v), w>> \o r) /\ Head(<<Write(v), w>> \o r) = Write(v)
         /\ <<Write(v), w>> \o r # <<>> /\ Loose(<<Write(v), w>> \o r)
<1> DEFINE a == Write(v)
           t == <<w>> \o r
<1>1. a \in Steps /\ w \in Steps /\ w \in Waits /\ r \in Seq(Steps)
  BY DEF Steps, Writes, Waits, Shaped
<1>2. w \notin {ForEnd, ForReason, Connecting}
  BY WaitKinds
<1>3. Shaped(t) /\ Head(t) = w /\ t # <<>>
  BY <1>1, <1>2, BeforeLoose
<1>4. a.do = "write" /\ Asks(a) /\ a # Start /\ ~Opens(a) /\ a \notin Waits
  <2>1. v # "conn"
    BY DEF Asked
  <2> QED
    BY <1>1, <2>1, StepKinds
<1>5. w.do = "wait" /\ w # Start /\ ~Opens(w)
  BY <1>1, WaitKinds, StepKinds
<1>6. a \notin {ForEnd, ForReason, Connecting}
  BY <1>4, WaitKinds
<1>7. Fits(a, w)
  BY <1>2, <1>4, <1>5, <1>6 DEF Fits
<1>8. <<a, w>> \o r = <<a>> \o t
  BY <1>1, TwoBefore
<1>9. Shaped(<<a>> \o t) /\ Head(<<a>> \o t) = a /\ <<a>> \o t # <<>>
  BY <1>1, <1>3, <1>7, ShapedCons
<1>10. a \notin Awaited
  BY <1>4, StepKinds
<1>11. Loose(<<a>> \o t)
  BY <1>4, <1>6, <1>9, <1>10 DEF Loose
<1> QED
  BY <1>8, <1>9, <1>11

\* Scripts of one and of two steps.
LEMMA OneStep ==
  ASSUME NEW a \in Steps, MayEnd(a)
  PROVE  Shaped(<<a>>) /\ Head(<<a>>) = a /\ Tail(<<a>>) = <<>> /\ <<a>> # <<>>
<1>1. Len(<<a>>) = 1 /\ <<a>>[1] = a /\ <<a>> \in Seq(Steps)
  OBVIOUS
<1>2. \A i \in 1..(Len(<<a>>) - 1) : Fits(<<a>>[i], <<a>>[i + 1])
  BY <1>1
<1> QED
  BY <1>1, <1>2 DEF Shaped

\* A script of two steps.
LEMMA TwoSteps ==
  ASSUME NEW a \in Steps, NEW b \in Steps, Fits(a, b), MayEnd(b)
  PROVE  Shaped(<<a, b>>) /\ Head(<<a, b>>) = a /\ <<a, b>> # <<>>
<1> DEFINE s == <<a, b>>
<1>1. Len(s) = 2 /\ s[1] = a /\ s[2] = b /\ s \in Seq(Steps) /\ Head(s) = a /\ s # <<>>
  OBVIOUS
<1>2. \A i \in 1..(Len(s) - 1) : i = 1
  BY <1>1
<1> HIDE DEF s
<1>3. \A i \in 1..(Len(s) - 1) : Fits(s[i], s[i + 1])
  BY <1>1, <1>2
<1>4. Shaped(s)
  BY <1>1, <1>3 DEF Shaped
<1> QED
  BY <1>1, <1>4 DEF s

\* The script of _stopHelper.
LEMMA StopIsLoose ==
  Shaped(StopHelper) /\ Loose(StopHelper) /\ StopHelper # <<>> /\ Head(StopHelper).do = "quit"
<1> DEFINE q == [do |-> "quit"]
           r == [do |-> "reap"]
<1>1. q.do = "quit" /\ r.do = "reap" /\ q \in Steps /\ r \in Steps
  BY DEF Steps
<1>2. q \notin Waits /\ r \notin Waits /\ q # Start /\ r # Start
  BY <1>1, WaitKinds, StepKinds
<1>3. ~Asks(q) /\ ~Opens(q) /\ ~Asks(r) /\ ~Opens(r)
  BY <1>1, StepKinds DEF Asks, Opens
<1>4. {q, r} \cap {ForEnd, ForReason, ForEvent, Connecting} = {}
  BY <1>1, WaitKinds
<1>5. q \notin Awaited /\ r \notin Awaited
  BY <1>2, StepKinds
<1> HIDE DEF q, r
<1>6. Fits(q, r)
  BY <1>1, <1>2, <1>3, <1>4, <1>5 DEF Fits
<1>7. MayEnd(r)
  BY <1>1, <1>2, <1>3, <1>4 DEF MayEnd
<1>8. StopHelper = <<q, r>>
  BY DEF StopHelper, q, r
<1>9. Shaped(<<q, r>>) /\ Head(<<q, r>>) = q /\ <<q, r>> # <<>>
  BY <1>1, <1>6, <1>7, TwoSteps
<1> QED
  BY <1>1, <1>2, <1>3, <1>4, <1>5, <1>8, <1>9 DEF Loose

\* The wait for the end of the connection, or for why it failed, before the stop of the helper.
LEMMA EndBefore ==
  ASSUME NEW a \in {ForEnd, ForReason}, ~Scanner
  PROVE  Shaped(<<a>> \o StopHelper) /\ Head(<<a>> \o StopHelper) = a
         /\ Tail(<<a>> \o StopHelper) = StopHelper /\ <<a>> \o StopHelper # <<>>
<1>1. a \in Steps /\ a.do = "wait" /\ a \notin Awaited /\ a # Connecting
  BY WaitKinds DEF Steps, Waits
<1> DEFINE q == Head(StopHelper)
<1>2. q.do = "quit" /\ q \notin Awaited \cup {Connecting, ForReason, Start} /\ ~Opens(q)
  BY StopIsLoose DEF Loose
<1>3. ~Asks(a) /\ ~Opens(a) /\ a # Start
  BY <1>1, StepKinds
<1>4. Fits(a, q)
  BY <1>1, <1>2, <1>3 DEF Fits
<1> QED
  BY <1>1, <1>4, StopIsLoose, ShapedCons

\* disconnect().
LEMMA DisconnectScript ==
  ASSUME ~Scanner
  PROVE  Shaped(Script("disconnect")) /\ Loose(Script("disconnect"))
<1> DEFINE a == Write("disc")
           t == <<ForEnd>> \o StopHelper
<1>1. Script("disconnect") = <<a, ForEnd>> \o StopHelper
  BY DEF Script, Request, Wants, ForEnd
<1>2. Shaped(t) /\ Head(t) = ForEnd /\ t # <<>>
  BY EndBefore
<1>3. a \in Steps /\ ForEnd \in Steps /\ StopHelper \in Seq(Steps)
  BY StopIsLoose DEF Steps, Writes, Waits, Verbs, Shaped
<1>4. Loose(t)
  BY <1>2, WaitKinds, StepKinds DEF Loose
<1>5. Shaped(<<a>> \o t) /\ Head(<<a>> \o t) = a
  BY <1>2, <1>3, <1>4, BeforeLoose
<1>6. <<a, ForEnd>> \o StopHelper = <<a>> \o t
  BY <1>3, TwoBefore
<1>7. a.do = "write" /\ a # Start /\ ~Opens(a)
  BY StepKinds
<1>8. a \notin Awaited \cup {Connecting, ForReason, Start}
  BY <1>7, WaitKinds, StepKinds
<1> QED
  BY <1>1, <1>5, <1>6, <1>7, <1>8 DEF Loose

\* What is left when a call raises.
LEMMA RaisedIsLoose ==
  ASSUME Shaped(script), script # <<>>
  PROVE  Shaped(Raised) /\ Loose(Raised)
<1>1. Shaped(<<>>) /\ Loose(<<>>)
  BY ShapedEmpty DEF Loose
<1>2. script[Len(script)] \in Steps
  BY EmptySeq DEF Shaped
<1>3. Scanner => Made \notin Steps
  <2>1. Made.do = "made" /\ \A w \in Waits : w.do = "wait"
    BY StepKinds, WaitKinds
  <2>2. \A w \in Writes : w.do = "write"
    BY DEF Writes, Write
  <2>3. /\ Start.do = "start" /\ [do |-> "quit"].do = "quit" /\ [do |-> "reap"].do = "reap"
    BY DEF Start
  <2> QED
    BY <2>1, <2>2, <2>3 DEF Steps
<1> QED
  BY <1>1, <1>2, <1>3, DisconnectScript DEF Raised

\* A command of the management socket before a loose script.
LEMMA MgmtBefore ==
  ASSUME NEW r, Shaped(r), Loose(r), Scanner, NEW v \in {"le", "scan", "scanend", "pasv", "pasvend"}
  PROVE  /\ Shaped(MgmtCmd2(v) \o r) /\ Loose(MgmtCmd2(v) \o r)
         /\ Head(MgmtCmd2(v) \o r) = Write(v) /\ MgmtCmd2(v) \o r # <<>>
<1>1. v \in Verbs \cap Asked /\ Mgmt1 \in Awaited
  BY DEF Verbs, Asked, Awaited
<1>2. MgmtCmd2(v) = <<Write(v), Mgmt1>>
  BY DEF MgmtCmd2, Mgmt1
<1> QED
  BY <1>1, <1>2, AskBefore

Calls == use \ {"passive", "foreign"}

\* A Scanner and a Peripheral have other calls.
LEMMA CallsApart ==
  ASSUME use \in Uses, Unambiguous
  PROVE  /\ Scanner => Calls = {"scan"}
         /\ ~Scanner => Calls \subseteq {"connect", "disconnect", "waitForNotifications", "svcs",
                                         "incl", "char", "desc", "rd", "rdu", "wr", "wrr", "local_oob"}
BY UsesAssumption DEF Scanner, Calls, Unambiguous

\* The start of the helper, before a command that may follow it.
LEMMA StartBefore ==
  ASSUME NEW r, Shaped(r), r # <<>>,
         Head(r) \in {Write("conn"), Write("local_oob"), Write("le")}
  PROVE  /\ Shaped(<<Start>> \o r) /\ <<Start>> \o r # <<>>
         /\ Head(<<Start>> \o r) = Start /\ Tail(<<Start>> \o r) = r
<1>1. Start \in Steps /\ Start.do = "start"
  BY StepKinds DEF Steps
<1>2. /\ Head(r).do = "write" /\ Head(r) # Start /\ Head(r) \notin Waits
  BY StepKinds, WaitKinds
<1>3. Head(r) \notin Awaited /\ Head(r) # Connecting /\ Head(r) # ForReason
  BY <1>2, StepKinds, WaitKinds
<1>4. Start \notin {ForEnd, ForReason}
  BY <1>1, WaitKinds
<1>5. Fits(Start, Head(r))
  BY <1>1, <1>2, <1>3, <1>4, StepKinds DEF Fits
<1> QED
  BY <1>1, <1>5, ShapedCons

\* The script of a Peripheral that connects.
LEMMA ConnectScript ==
  ASSUME ~Scanner
  PROVE  Shaped(Script("connect")) /\ Script("connect") # <<>> /\ Head(Script("connect")) = Start
<1> DEFINE w == Write("conn")
           s == <<Start, w, Connecting, Made>>
<1>1. Start \in Steps /\ w \in Steps /\ Connecting \in Steps /\ Made \in Steps
  BY DEF Steps, Writes, Waits, Verbs
<1>2. /\ Start.do = "start" /\ w.do = "write" /\ Connecting.do = "wait" /\ Made.do = "made"
  BY StepKinds, WaitKinds
<1>3. /\ ~Asks(Start) /\ ~Opens(Start) /\ ~Asks(Made) /\ ~Opens(Made)
      /\ ~Asks(Connecting) /\ ~Opens(Connecting) /\ ~Asks(w) /\ Opens(w)
  <2>1. "conn" \notin Asked
    BY DEF Asked
  <2> QED
    BY <1>2, <2>1, StepKinds
<1>4. /\ \A x \in {Start, w, Connecting, Made} : x \notin {ForEnd, ForReason}
      /\ \A x \in {Start, w, Made} : x # Connecting /\ x \notin Awaited
      /\ \A x \in {w, Made, Connecting} : x # Start
      /\ Connecting \notin Awaited
  BY <1>2, WaitKinds, StepKinds
<1> DEFINE St == Start
           Co == Connecting
           Ma == Made
<1>5. Fits(Start, w)
  BY <1>2, <1>3, <1>4 DEF Fits
<1>6. Fits(w, Connecting)
  BY <1>2, <1>3, <1>4 DEF Fits
<1>7. Fits(Connecting, Made)
  BY <1>2, <1>3, <1>4 DEF Fits
<1>8. MayEnd(Made)
  BY <1>2, <1>3, <1>4 DEF MayEnd
<1> HIDE DEF w
<1>9. /\ Len(s) = 4 /\ s[1] = Start /\ s[2] = w /\ s[3] = Connecting /\ s[4] = Made
      /\ Head(s) = Start /\ s # <<>>
  OBVIOUS
<1>10. s \in Seq(Steps)
  BY <1>1
<1>11. Script("connect") = s
  BY DEF Script, w
<1> HIDE DEF s
<1>12. \A i \in 1..(Len(s) - 1) : i = 1 \/ i = 2 \/ i = 3
  BY <1>9
<1>13. \A i \in 1..(Len(s) - 1) : Fits(s[i], s[i + 1])
  BY <1>5, <1>6, <1>7, <1>9, <1>12
<1>14. Shaped(s)
  BY <1>8, <1>9, <1>10, <1>13 DEF Shaped
<1> QED
  BY <1>9, <1>11, <1>14

\* Five scripts in a row, put together from the left and from the right.
FromLeft(s1, s2, s3, s4, s5) == s1 \o s2 \o s3 \o s4 \o s5
FromRight(s1, s2, s3, s4, s5) == s1 \o (s2 \o (s3 \o (s4 \o s5)))

\* Both ways give the same script.
LEMMA ConcatFive ==
  ASSUME NEW T, NEW s1 \in Seq(T), NEW s2 \in Seq(T), NEW s3 \in Seq(T), NEW s4 \in Seq(T),
         NEW s5 \in Seq(T)
  PROVE  FromLeft(s1, s2, s3, s4, s5) = FromRight(s1, s2, s3, s4, s5)
<1>1. /\ s1 \o s2 \in Seq(T) /\ (s1 \o s2) \o s3 \in Seq(T) /\ s4 \o s5 \in Seq(T)
      /\ s3 \o (s4 \o s5) \in Seq(T)
  BY ConcatProperties
<1>2. ((s1 \o s2) \o s3) \o (s4 \o s5) = (((s1 \o s2) \o s3) \o s4) \o s5
  <2> DEFINE x == (s1 \o s2) \o s3
  <2> HIDE DEF x
  <2>1. x \in Seq(T)
    BY <1>1 DEF x
  <2>2. (x \o s4) \o s5 = x \o (s4 \o s5)
    <3>1. ThreeLeft(x, s4, s5) = ThreeRight(x, s4, s5)
      BY <2>1, ConcatThree
    <3> QED
      BY <3>1 DEF ThreeLeft, ThreeRight
  <2> QED
    BY <2>2 DEF x
<1>3. ((s1 \o s2) \o s3) \o (s4 \o s5) = (s1 \o s2) \o (s3 \o (s4 \o s5))
  <2> DEFINE x == s1 \o s2
             y == s4 \o s5
  <2> HIDE DEF x, y
  <2>1. x \in Seq(T) /\ y \in Seq(T)
    BY <1>1 DEF x, y
  <2>2. (x \o s3) \o y = x \o (s3 \o y)
    <3>1. ThreeLeft(x, s3, y) = ThreeRight(x, s3, y)
      BY <2>1, ConcatThree
    <3> QED
      BY <3>1 DEF ThreeLeft, ThreeRight
  <2> QED
    BY <2>2 DEF x, y
<1>4. (s1 \o s2) \o (s3 \o (s4 \o s5)) = s1 \o (s2 \o (s3 \o (s4 \o s5)))
  <2> DEFINE y == s3 \o (s4 \o s5)
  <2> HIDE DEF y
  <2>1. y \in Seq(T)
    BY <1>1 DEF y
  <2>2. (s1 \o s2) \o y = s1 \o (s2 \o y)
    <3>1. ThreeLeft(s1, s2, y) = ThreeRight(s1, s2, y)
      BY <2>1, ConcatThree
    <3> QED
      BY <3>1 DEF ThreeLeft, ThreeRight
  <2> QED
    BY <2>2 DEF y
<1> QED
  BY <1>2, <1>3, <1>4 DEF FromLeft, FromRight

\* The script of a scan.
LEMMA ScanScript ==
  ASSUME Scanner
  PROVE  Shaped(Script("scan")) /\ Script("scan") # <<>> /\ Head(Script("scan")) = Start
<1> DEFINE sv == ScanVerb(Passive)
           ev == EndVerb(Passive)
           A == MgmtCmd2("le")
           B == <<Write(sv), Scanning, Processing>>
           C == MgmtCmd2(ev)
           D == StopHelper
           t1 == C \o D
           t2 == <<Processing>> \o t1
           t3 == B \o t1
           t4 == A \o t3
<1>1. sv \in {"scan", "pasv"} /\ ev \in {"scanend", "pasvend"}
  BY DEF ScanVerb, EndVerb
<1>2. Script("scan") = <<Start>> \o A \o B \o C \o D
  BY DEF Script, Scanning
<1> HIDE DEF sv, ev
<1>3. Write(sv) \in Steps /\ Write(ev) \in Steps /\ Write("le") \in Steps /\ Scanning \in Steps /\ Mgmt1 \in Steps
      /\ Processing \in Steps /\ Start \in Steps /\ Processing \in Waits /\ Scanning \in Awaited
  BY <1>1 DEF Steps, Writes, Waits, Verbs, Awaited
<1>4. A = <<Write("le"), Mgmt1>> /\ C = <<Write(ev), Mgmt1>>
  BY DEF MgmtCmd2, Mgmt1
<1>5. A \in Seq(Steps) /\ B \in Seq(Steps) /\ C \in Seq(Steps) /\ D \in Seq(Steps)
      /\ <<Start>> \in Seq(Steps)
  <2>1. D \in Seq(Steps)
    BY StopIsLoose DEF Shaped
  <2>2. /\ <<Write("le"), Mgmt1>> \in Seq(Steps) /\ <<Write(ev), Mgmt1>> \in Seq(Steps)
        /\ B \in Seq(Steps) /\ <<Start>> \in Seq(Steps)
    BY <1>3
  <2> HIDE DEF A, B, C, D
  <2> QED
    BY <1>4, <2>1, <2>2
<1>6. Shaped(t1) /\ Loose(t1)
  BY <1>1, StopIsLoose, MgmtBefore
<1>7. Shaped(t2) /\ Head(t2) = Processing /\ t2 # <<>>
  BY <1>3, <1>6, WaitKinds, BeforeLoose
<1>8. Loose(t2)
  BY <1>7, WaitKinds, StepKinds DEF Loose
<1>9. Shaped(<<Write(sv), Scanning>> \o t2) /\ Loose(<<Write(sv), Scanning>> \o t2)
  <2>1. sv \in Verbs \cap Asked
    BY <1>1 DEF Verbs, Asked
  <2> QED
    BY <1>3, <1>7, <1>8, <2>1, AskBefore
<1>10. t3 = <<Write(sv), Scanning>> \o t2
  <2> DEFINE P == <<Write(sv), Scanning>>
             Q == <<Processing>>
             U == P \o Q
  <2>1. /\ P \in Seq(Steps) /\ Q \in Seq(Steps) /\ Len(P) = 2 /\ Len(Q) = 1 /\ Len(B) = 3
        /\ P[1] = Write(sv) /\ P[2] = Scanning /\ Q[1] = Processing
        /\ B[1] = Write(sv) /\ B[2] = Scanning /\ B[3] = Processing
    BY <1>3
  <2> HIDE DEF P, Q, B
  <2>2. /\ U \in Seq(Steps) /\ Len(U) = 3
        /\ \A i \in 1..3 : U[i] = IF i <= 2 THEN P[i] ELSE Q[i - 2]
    BY <2>1, ConcatProperties
  <2> HIDE DEF U
  <2>3. U[1] = B[1] /\ U[2] = B[2] /\ U[3] = B[3]
    BY <2>1, <2>2
  <2>4. \A i \in 1..3 : i = 1 \/ i = 2 \/ i = 3
    OBVIOUS
  <2>5. U = B
    BY <1>5, <2>1, <2>2, <2>3, <2>4, SeqEqual
  <2>6. t1 \in Seq(Steps)
    BY <1>6 DEF Shaped
  <2> HIDE DEF t1
  <2>7. (P \o Q) \o t1 = P \o (Q \o t1)
    <3>1. ThreeLeft(P, Q, t1) = ThreeRight(P, Q, t1)
      BY <2>1, <2>6, ConcatThree
    <3> QED
      BY <3>1 DEF ThreeLeft, ThreeRight
  <2> QED
    BY <2>5, <2>7 DEF U, P, Q
<1>11. Shaped(t4) /\ Head(t4) = Write("le") /\ t4 # <<>>
  BY <1>9, <1>10, MgmtBefore
<1>12. Shaped(<<Start>> \o t4) /\ Head(<<Start>> \o t4) = Start /\ <<Start>> \o t4 # <<>>
  BY <1>11, StartBefore
<1>13. <<Start>> \o A \o B \o C \o D = <<Start>> \o t4
  <2> DEFINE S == <<Start>>
  <2> HIDE DEF A, B, C, D, S
  <2>1. S \in Seq(Steps)
    BY <1>5 DEF S
  <2>2. /\ A \in Seq(Steps) /\ B \in Seq(Steps) /\ C \in Seq(Steps) /\ D \in Seq(Steps)
    BY <1>5
  <2>3. FromLeft(S, A, B, C, D) = FromRight(S, A, B, C, D)
    BY <2>1, <2>2, ConcatFive
  <2> QED
    BY <2>3 DEF S, FromLeft, FromRight
<1> QED
  BY <1>2, <1>12, <1>13

\* A command of a Peripheral and the wait for its answer.
LEMMA RequestScript ==
  ASSUME ~Scanner,
         NEW v \in {"svcs", "incl", "char", "desc", "rd", "rdu", "wr", "wrr"} \cup (use \cap {"local_oob"})
  PROVE  Shaped(Request(v)) /\ Loose(Request(v)) /\ Request(v) # <<>> /\ Head(Request(v)) = Write(v)
<1>1. v \in Verbs \cap Asked
  BY DEF Verbs, Asked
<1> DEFINE w == Wait(Wants(v) \cup Notified, FALSE, "value")
<1>2. \E k \in Kinds : Wants(v) = {k}
  BY DEF Kinds, Wants
<1>3. w \in Awaited
  BY <1>2 DEF Awaited, Replying
<1>4. Request(v) = <<Write(v), w>>
  BY DEF Request
<1> HIDE DEF w
<1>5. Shaped(<<>>) /\ Loose(<<>>)
  BY ShapedEmpty DEF Loose
<1>6. Write(v) \in Steps /\ w \in Steps
  BY <1>1, <1>3, StepKinds DEF Steps, Writes
<1>7. w.do = "wait" /\ w \notin {ForEnd, ForReason, Connecting} /\ w # Start
  BY <1>3, WaitKinds, StepKinds
<1>8. Write(v).do = "write" /\ Write(v) # Start /\ Asks(Write(v)) /\ ~Opens(Write(v))
  <2>1. v # "conn"
    BY <1>1 DEF Asked
  <2> QED
    BY <1>1, <2>1, StepKinds
<1>9. Write(v) \notin {ForEnd, ForReason, Connecting} \cup Awaited
  BY <1>8, WaitKinds, StepKinds
<1>10. ~Asks(w) /\ ~Opens(w)
  BY <1>7, StepKinds
<1>11. Fits(Write(v), w) /\ MayEnd(w)
  BY <1>3, <1>7, <1>8, <1>9, <1>10 DEF Fits, MayEnd
<1>12. Shaped(<<Write(v), w>>) /\ Head(<<Write(v), w>>) = Write(v) /\ <<Write(v), w>> # <<>>
  BY <1>6, <1>11, TwoSteps
<1> QED
  BY <1>4, <1>8, <1>9, <1>12 DEF Loose

\* The script of a public call.
LEMMA ScriptShaped ==
  ASSUME use \in Uses, Unambiguous, NEW call \in Calls
  PROVE  /\ Shaped(Script(call)) /\ Script(call) # <<>>
         /\ Loose(Script(call)) \/ Head(Script(call)) = Start
         /\ Head(Script(call)) = Start => call \in Opening \cup {"local_oob"}
         /\ call = "local_oob" => Head(Tail(Script(call))) = Write("local_oob")
<1>1. CASE Scanner
  BY <1>1, ScanScript, CallsApart DEF Opening
<1>2. CASE ~Scanner
  <2>1. CASE call = "connect"
    BY <1>2, <2>1, ConnectScript DEF Opening
  <2>2. CASE call = "disconnect"
    <3>1. Script(call) # <<>> /\ Head(Script(call)) # Start
      <4>1. Script(call) = <<Write("disc"), ForEnd>> \o StopHelper
        BY <2>2 DEF Script, Request, Wants, ForEnd
      <4>2. Write("disc") \in Steps /\ ForEnd \in Steps /\ StopHelper \in Seq(Steps)
        BY <1>2, StopIsLoose DEF Steps, Writes, Waits, Verbs, Shaped
      <4> DEFINE a == Write("disc")
      <4>3. a # Start
        BY StepKinds
      <4> HIDE DEF a
      <4>4. /\ <<a, ForEnd>> \in Seq(Steps) /\ Len(<<a, ForEnd>>) = 2 /\ <<a, ForEnd>>[1] = a
        BY <4>2 DEF a
      <4>5. Len(<<a, ForEnd>> \o StopHelper) > 0 /\ (<<a, ForEnd>> \o StopHelper)[1] = a
            /\ <<a, ForEnd>> \o StopHelper \in Seq(Steps)
        BY <4>2, <4>4, ConcatProperties
      <4>6. <<a, ForEnd>> \o StopHelper # <<>> /\ Head(<<a, ForEnd>> \o StopHelper) = a
        BY <4>5, EmptySeq
      <4> QED
        BY <4>1, <4>3, <4>6 DEF a
    <3> QED
      BY <1>2, <2>2, <3>1, DisconnectScript
  <2>3. CASE call = "waitForNotifications"
    <3>1. Script(call) = <<ForEvent>>
      BY <2>3 DEF Script, ForEvent
    <3>2. ForEvent \in Steps /\ ForEvent.do = "wait" /\ ForEvent \notin {ForEnd, ForReason, Connecting}
          /\ ForEvent \notin Awaited
      BY <1>2, WaitKinds DEF Steps, Waits
    <3>3. MayEnd(ForEvent)
      BY <3>2, StepKinds DEF MayEnd
    <3>4. Loose(<<ForEvent>>)
      BY <3>2, StepKinds DEF Loose
    <3> QED
      BY <2>3, <3>1, <3>2, <3>3, <3>4, OneStep, StepKinds
  <2>4. CASE call = "local_oob"
    <3>1. "local_oob" \in use
      BY <2>4 DEF Calls
    <3>2. Script(call) = <<Start>> \o Request("local_oob")
      BY <2>4 DEF Script
    <3>3. Shaped(Request("local_oob")) /\ Request("local_oob") # <<>>
          /\ Head(Request("local_oob")) = Write("local_oob")
      BY <1>2, <3>1, RequestScript
    <3> QED
      BY <2>4, <3>2, <3>3, StartBefore
  <2>5. CASE call \in {"svcs", "incl", "char", "desc", "rd", "rdu", "wr", "wrr"}
    <3>1. Script(call) = Request(call)
      BY <2>5 DEF Script
    <3>2. Shaped(Request(call)) /\ Loose(Request(call)) /\ Request(call) # <<>>
          /\ Head(Request(call)) = Write(call)
      BY <1>2, <2>5, RequestScript
    <3> QED
      BY <2>5, <3>1, <3>2, StepKinds
  <2> QED
    BY <1>2, <2>1, <2>2, <2>3, <2>4, <2>5, CallsApart
<1> QED
  BY <1>1, <1>2

\* What the waits do with the line they wait for.
LEMMA WaitFacts ==
  /\ Mgmt1.then = "success" /\ Mgmt1.want = {"mgmt"} /\ ~Mgmt1.timed
  /\ Scanning.then = "scanning" /\ Scanning.want = {"mgmt"} /\ ~Scanning.timed
  /\ Processing.then = "process" /\ Processing.want = {"scan", "stat"} /\ Processing.timed
  /\ ScanEnded.then = "ended" /\ ScanEnded.want = {"stat"} /\ ~ScanEnded.timed
  /\ ForEvent.then = "value" /\ ForEvent.want = {"ntfy"} /\ ForEvent.timed
  /\ ForEnd.then = "value" /\ ForEnd.want = {"stat", "ntfy"} /\ ~ForEnd.timed
  /\ ForReason.then = "value" /\ ForReason.want = {"err", "ntfy"} /\ ForReason.timed
  /\ Connecting.then = "connecting" /\ Connecting.want = {"stat", "ntfy"} /\ ~Connecting.timed
  /\ \A w \in Replying : w.then = "value" /\ ~w.timed /\ \E k \in Kinds : w.want = {k, "ntfy"}
<1> USE DEF Wait, Notified
<1>1. Mgmt1.then = "success" /\ Mgmt1.want = {"mgmt"} /\ ~Mgmt1.timed
  BY DEF Mgmt1
<1>2. Scanning.then = "scanning" /\ Scanning.want = {"mgmt"} /\ ~Scanning.timed
  BY DEF Scanning
<1>3. Processing.then = "process" /\ Processing.want = {"scan", "stat"} /\ Processing.timed
  BY DEF Processing
<1>4. ScanEnded.then = "ended" /\ ScanEnded.want = {"stat"} /\ ~ScanEnded.timed
  BY DEF ScanEnded
<1>5. ForEvent.then = "value" /\ ForEvent.want = {"ntfy"} /\ ForEvent.timed
  BY DEF ForEvent
<1>6. ForEnd.then = "value" /\ ForEnd.want = {"stat", "ntfy"} /\ ~ForEnd.timed
  BY DEF ForEnd
<1>7. ForReason.then = "value" /\ ForReason.want = {"err", "ntfy"} /\ ForReason.timed
  BY DEF ForReason
<1>8. Connecting.then = "connecting" /\ Connecting.want = {"stat", "ntfy"} /\ ~Connecting.timed
  BY DEF Connecting
<1>9. \A w \in Replying : w.then = "value" /\ ~w.timed /\ \E k \in Kinds : w.want = {k, "ntfy"}
  BY DEF Replying
<1> QED
  BY <1>1, <1>2, <1>3, <1>4, <1>5, <1>6, <1>7, <1>8, <1>9

\* The waits of a Scanner and those of a Peripheral, told apart by what they do with a line.
LEMMA WaitThens ==
  \A w \in Waits :
    \/ Scanner /\ w = Mgmt1 /\ w.then = "success" /\ w.want = {"mgmt"} /\ ~w.timed
    \/ Scanner /\ w = Scanning /\ w.then = "scanning" /\ w.want = {"mgmt"} /\ ~w.timed
    \/ Scanner /\ w = Processing /\ w.then = "process" /\ w.want = {"scan", "stat"} /\ w.timed
    \/ Scanner /\ w = ScanEnded /\ w.then = "ended" /\ w.want = {"stat"} /\ ~w.timed
    \/ ~Scanner /\ w = ForEvent /\ w.then = "value" /\ w.want = {"ntfy"} /\ w.timed
    \/ ~Scanner /\ w = ForEnd /\ w.then = "value" /\ w.want = {"stat", "ntfy"} /\ ~w.timed
    \/ ~Scanner /\ w = ForReason /\ w.then = "value" /\ w.want = {"err", "ntfy"} /\ w.timed
    \/ ~Scanner /\ w = Connecting /\ w.then = "connecting" /\ w.want = {"stat", "ntfy"} /\ ~w.timed
    \/ /\ ~Scanner /\ w \in Replying /\ w.then = "value" /\ ~w.timed
       /\ \E k \in Kinds : w.want = {k, "ntfy"}
<1>10. \A w \in Waits :
         \/ Scanner /\ w \in {Mgmt1, Scanning, Processing, ScanEnded}
         \/ ~Scanner /\ (w \in Replying \/ w \in {ForEvent, ForEnd, ForReason, Connecting})
  BY DEF Waits, Awaited
<1>11. ASSUME NEW w \in Waits, Scanner
       PROVE \/ w = Mgmt1 \/ w = Scanning \/ w = Processing \/ w = ScanEnded
  BY <1>10, <1>11
<1>12. ASSUME NEW w \in Waits, ~Scanner
       PROVE \/ w \in Replying \/ w = ForEvent \/ w = ForEnd \/ w = ForReason \/ w = Connecting
  BY <1>10, <1>12
<1> QED
  BY WaitFacts, <1>11, <1>12

\* A script that waits.
Waiting == Shaped(script) /\ script # <<>> /\ Head(script).do = "wait"

\* The wait of a script, and what is left after it.
LEMMA WaitRest ==
  ASSUME Waiting
  PROVE  /\ wait \in Waits /\ script = <<wait>> \o Rest /\ Rest \in Seq(Steps)
         /\ Shaped(Rest) /\ Loose(Rest)
         /\ wait \in {ForEnd, ForReason} => Rest # <<>> /\ Head(Rest).do = "quit"
<1>1. /\ Head(script) \in Steps /\ Shaped(Tail(script)) /\ script = <<Head(script)>> \o Tail(script)
      /\ Tail(script) # <<>> => Fits(Head(script), Head(Tail(script)))
      /\ Tail(script) = <<>> => MayEnd(Head(script))
  BY ShapedTail DEF Waiting
<1>2. Head(script) \in Waits
  BY <1>1, StepKinds DEF Waiting
<1>3. Loose(Tail(script))
  BY <1>2, RestLoose, StepKinds DEF Waiting
<1>4. Head(script) \in {ForEnd, ForReason} => Tail(script) # <<>> /\ Head(Tail(script)).do = "quit"
  BY <1>1 DEF Fits, MayEnd
<1> QED
  BY <1>1, <1>2, <1>3, <1>4 DEF wait, Rest, Shaped

\* After None.
LEMMA NoneShaped ==
  ASSUME Waiting
  PROVE  Shaped(AfterNone(wait, Rest)) /\ Loose(AfterNone(wait, Rest))
<1>1. Shaped(Raised) /\ Loose(Raised) /\ Shaped(Rest) /\ Loose(Rest)
  BY WaitRest, RaisedIsLoose DEF Waiting
<1>2. ASSUME wait.then = "process"
      PROVE  Shaped(<<Write("stat")>> \o Rest) /\ Loose(<<Write("stat")>> \o Rest)
  <2>1. Scanner
    BY <1>2, WaitRest, WaitThens
  <2> DEFINE a == Write("stat")
  <2>2. a \in Steps
    BY <2>1 DEF Steps, Writes, Verbs
  <2>3. Shaped(<<a>> \o Rest) /\ Head(<<a>> \o Rest) = a
    BY <1>1, <2>2, BeforeLoose
  <2>4. a.do = "write" /\ a # Start /\ ~Opens(a)
    BY StepKinds
  <2>5. a \notin Awaited \cup {Connecting, ForReason, Start}
    BY <2>4, WaitKinds, StepKinds
  <2> QED
    BY <2>3, <2>4, <2>5 DEF Loose
<1> QED
  BY <1>1, <1>2 DEF AfterNone

\* Four scripts in a row.
FourLeft(s1, s2, s3, s4) == s1 \o s2 \o s3 \o s4
FourRight(s1, s2, s3, s4) == s1 \o (s2 \o (s3 \o s4))

\* The same of four scripts.
LEMMA ConcatFour ==
  ASSUME NEW T, NEW s1 \in Seq(T), NEW s2 \in Seq(T), NEW s3 \in Seq(T), NEW s4 \in Seq(T)
  PROVE  FourLeft(s1, s2, s3, s4) = FourRight(s1, s2, s3, s4)
<1>1. s1 \o s2 \in Seq(T) /\ s3 \o s4 \in Seq(T)
  BY ConcatProperties
<1> DEFINE x == s1 \o s2
           y == s3 \o s4
<1>2. x \in Seq(T) /\ y \in Seq(T)
  BY <1>1
<1> HIDE DEF x, y
<1>3. (x \o s3) \o s4 = x \o (s3 \o s4)
  <2>1. ThreeLeft(x, s3, s4) = ThreeRight(x, s3, s4)
    BY <1>2, ConcatThree
  <2> QED
    BY <2>1 DEF ThreeLeft, ThreeRight
<1>4. (s1 \o s2) \o y = s1 \o (s2 \o y)
  <2>1. ThreeLeft(s1, s2, y) = ThreeRight(s1, s2, y)
    BY <1>2, ConcatThree
  <2> QED
    BY <2>1 DEF ThreeLeft, ThreeRight
<1> QED
  BY <1>3, <1>4 DEF x, y, FourLeft, FourRight

\* A command of the management socket is a script of a Scanner.
LEMMA MgmtInSeq ==
  ASSUME Scanner, NEW v \in {"le", "scan", "scanend", "pasv", "pasvend"}
  PROVE  MgmtCmd2(v) \in Seq(Steps)
<1> DEFINE a == Write(v)
           b == Mgmt1
<1>1. a \in Steps /\ b \in Steps
  BY DEF Steps, Writes, Waits, Verbs, Awaited
<1> HIDE DEF a, b
<1>2. <<a, b>> \in Seq(Steps)
  BY <1>1
<1>3. MgmtCmd2(v) = <<a, b>>
  BY DEF MgmtCmd2, Mgmt1, a, b
<1> QED
  BY <1>2, <1>3

\* A sequence of one entry.
LEMMA OneInSeq ==
  ASSUME NEW T, NEW a \in T
  PROVE  <<a>> \in Seq(T)
OBVIOUS

\* After a line that was wanted.
LEMMA AfterShaped ==
  ASSUME Waiting, Unambiguous, NEW line, line.rsp \in wait.want,
         line.rsp = "ntfy" => line.code = ""
  PROVE  /\ Shaped(After(wait, line, Rest))
         /\ wait \in Awaited =>
              IF line.rsp = "ntfy" THEN After(wait, line, Rest) = script
              ELSE Loose(After(wait, line, Rest))
         /\ wait \in {ForEvent, Processing, ScanEnded} => Loose(After(wait, line, Rest))
         /\ wait = Connecting =>
              \/ /\ After(wait, line, Rest) = script
                 /\ line.rsp = "ntfy" \/ line.code = "tryconn"
              \/ /\ line.rsp = "stat" /\ line.code = "conn" /\ Loose(After(wait, line, Rest))
              \/ /\ line.rsp = "stat" /\ line.code \notin {"tryconn", "conn"}
                 /\ After(wait, line, Rest) # <<>> /\ Head(After(wait, line, Rest)) = ForReason
         /\ wait \in {ForEnd, ForReason} =>
              IF line.rsp = "ntfy" THEN After(wait, line, Rest) = script
              ELSE /\ After(wait, line, Rest) # <<>> /\ Head(After(wait, line, Rest)).do = "quit"
                   /\ Loose(After(wait, line, Rest))
<1> DEFINE R == After(wait, line, Rest)
<1>0. wait \in Waits /\ Shaped(script) /\ Shaped(Rest) /\ Loose(Rest) /\ script = <<wait>> \o Rest
  BY WaitRest DEF Waiting
<1>00. Head(script) = wait /\ script # <<>>
  BY DEF Waiting, wait
<1>a. Scanner /\ (wait = Mgmt1 \/ wait = Scanning) => wait \in Awaited
  BY DEF Awaited
<1>1. CASE Scanner /\ wait = Mgmt1
  <2>1. R = Rest \/ R = StopHelper
    BY <1>1, <1>0, WaitFacts DEF After
  <2>2. wait.want = {"mgmt"}
    BY <1>1, <1>0, WaitFacts
  <2> QED
    BY <1>0, <1>1, <1>a, <2>1, <2>2, WaitKinds, StopIsLoose
<1>2. CASE Scanner /\ wait = Scanning
  <2> DEFINE ev == EndVerb(Passive)
             sv == ScanVerb(Passive)
             M1 == MgmtCmd2(ev)
             M2 == MgmtCmd2(sv)
             N == <<ScanEnded>>
             t1 == M2 \o Rest
             t2 == N \o t1
             t3 == M1 \o t2
  <2>1. wait.then = "scanning" /\ wait.want = {"mgmt"}
    BY <1>0, <1>2, WaitFacts
  <2>2. R = Rest \/ R = M1 \o N \o M2 \o Rest
    BY <2>1 DEF After, ScanEnded
  <2>3. ev \in {"scanend", "pasvend"} /\ sv \in {"scan", "pasv"}
    BY DEF EndVerb, ScanVerb
  <2> HIDE DEF ev, sv
  <2>4. Shaped(t1) /\ Loose(t1)
    BY <1>0, <1>2, <2>3, MgmtBefore
  <2>5. ScanEnded \in Waits /\ ScanEnded \in Steps /\ ScanEnded.do = "wait"
    BY <1>2, WaitKinds DEF Waits, Steps
  <2>6. Shaped(t2) /\ Head(t2) = ScanEnded
    BY <2>4, <2>5, WaitKinds, BeforeLoose
  <2>7. Loose(t2)
    BY <2>5, <2>6, WaitKinds, StepKinds DEF Loose
  <2>8. Shaped(t3) /\ Loose(t3)
    BY <1>2, <2>3, <2>6, <2>7, MgmtBefore
  <2>9. M1 \o N \o M2 \o Rest = t3
    <3>1. M1 \in Seq(Steps) /\ M2 \in Seq(Steps)
      BY <1>2, <2>3, MgmtInSeq
    <3>2. N \in Seq(Steps)
      BY <2>5, OneInSeq
    <3> HIDE DEF M1, M2, N
    <3>3. Rest \in Seq(Steps)
      BY WaitRest
    <3>4. FourLeft(M1, N, M2, Rest) = FourRight(M1, N, M2, Rest)
      BY <3>1, <3>2, <3>3, ConcatFour, ZenonT(30)
    <3> QED
      BY <3>4 DEF FourLeft, FourRight
  <2> QED
    BY <1>0, <1>2, <1>a, <2>1, <2>2, <2>8, <2>9, WaitKinds
<1>3. CASE Scanner /\ wait = Processing
  <2>1. wait.then = "process"
    BY <1>0, <1>3, WaitFacts
  <2> DEFINE M == MgmtCmd2(ScanVerb(Passive))
  <2>2. R = script \/ R = M \o script
    BY <1>0, <2>1 DEF After
  <2>3. Loose(script)
    BY <1>0, <1>00, <1>3, WaitKinds, StepKinds DEF Loose, Waiting
  <2>4. ScanVerb(Passive) \in {"scan", "pasv"}
    BY DEF ScanVerb
  <2>5. Shaped(M \o script) /\ Loose(M \o script)
    BY <1>0, <1>3, <2>3, <2>4, MgmtBefore
  <2> QED
    BY <1>0, <1>3, <2>2, <2>3, <2>5, WaitKinds
<1>4. CASE Scanner /\ wait = ScanEnded
  <2>1. R = Rest \/ R = <<>>
    BY <1>0, <1>4, WaitFacts DEF After
  <2> QED
    BY <1>0, <1>4, <2>1, WaitKinds, ShapedEmpty DEF Loose
<1>5. CASE ~Scanner /\ wait = ForEvent
  <2>1. wait.then = "value" /\ wait.want = Notified
    BY <1>0, <1>5, WaitFacts DEF Notified
  <2>2. R = Rest
    BY <2>1 DEF After
  <2> QED
    BY <1>0, <1>5, <2>2, WaitKinds
<1>6. CASE ~Scanner /\ wait \in {ForEnd, ForReason}
  <2>0. "stat" \in ForEnd.want /\ "err" \in ForReason.want /\ "stat" \notin Notified /\ "err" \notin Notified
    BY WaitFacts DEF Notified
  <2>1. wait.then = "value" /\ wait.want # Notified
    <3>1. CASE wait = ForEnd
      BY <2>0, <3>1, WaitFacts
    <3>2. CASE wait = ForReason
      BY <2>0, <3>2, WaitFacts
    <3> QED
      BY <1>6, <3>1, <3>2
  <2>2. R = IF line.rsp = "ntfy" THEN script ELSE Rest
    BY <1>0, <2>1 DEF After
  <2> QED
    BY <1>0, <1>6, <2>2, WaitRest, WaitKinds
<1>7. CASE ~Scanner /\ wait = Connecting
  <2>1. wait.then = "connecting" /\ wait.want = {"stat", "ntfy"}
    BY <1>0, <1>7, WaitFacts
  <2>2. ~MtuWanted
    BY DEF Unambiguous, MtuWanted
  <2>3. <<>> \o Rest = Rest
    BY WaitRest, ConcatEmptySeq
  <2>4. CASE line.rsp = "ntfy"
    <3>1. R = script
      BY <1>0, <2>1, <2>4 DEF After
    <3> QED
      BY <1>0, <1>7, <2>4, <3>1, WaitKinds
  <2>5. CASE line.rsp = "stat"
    <3>1. R = IF line.code = "tryconn" THEN script
              ELSE IF line.code = "conn" THEN Rest
              ELSE <<ForReason>> \o StopHelper
      BY <1>0, <1>7, <2>1, <2>2, <2>3, <2>5 DEF After, ForReason
    <3> QED
      BY <1>0, <1>7, <2>5, <3>1, EndBefore, WaitKinds
  <2> QED
    BY <2>1, <2>4, <2>5
<1>8. CASE ~Scanner /\ wait \in Replying
  <2>1. wait.then = "value" /\ wait.want # Notified
    BY <1>0, <1>8, WaitFacts, WaitKinds DEF Notified, Kinds, Awaited
  <2>2. R = IF line.rsp = "ntfy" THEN script ELSE Rest
    BY <1>0, <2>1 DEF After
  <2>3. wait \in Awaited
    BY <1>8 DEF Awaited
  <2> QED
    BY <1>0, <1>8, <2>2, <2>3, WaitKinds
<1> QED
  BY <1>0, <1>1, <1>2, <1>3, <1>4, <1>5, <1>6, <1>7, <1>8, WaitThens

----------------------------------------------------------------------------
(* What is on its way *)

Pipe == buf \o output

States == {"disc", "tryconn", "conn", "scan"}
Codes ==
  States \cup {"", "success", "connfail", "nomgmt", "atterr", "badparam", "badstate", "busy", "callfail",
               "decodeerr", "mgmterr", "notfound", "sendfail"}

\* The lines of the helper: a notification is an event, and so is the state but for a Scanner,
\* which asks for it.
Lines ==
  {l \in [rsp : {"find", "desc", "rd", "wr", "oob", "mgmt", "stat", "err", "ntfy", "scan"},
          code : Codes, n : Nat] :
     /\ l.rsp = "ntfy" => l.n = 0 /\ l.code = "" /\ ~Scanner
     /\ l.rsp = "stat" => l.n = 0 \/ Scanner}
Commands == [verb : Verbs \cup {"quit"}, n : Nat, ok : BOOLEAN]
Procedures == {c \in Commands : c.verb \in {"svcs", "incl", "char", "desc", "rd", "rdu", "wrr"}}
Replies == [kind : {"reply"}, status : {"success", "busy", "failed"}, cmd : Commands]
Messages == Replies \cup [kind : {"discovering"}, on : BOOLEAN] \cup [kind : {"found"}]

Typed ==
  /\ input \in Seq(Commands)
  /\ inFlight \in Seq(Procedures) /\ late \in Seq(Procedures)
  /\ mgmtOut \in Seq(Commands) /\ mgmtIn \in Seq(Messages)
  /\ buf \in Seq(Lines) /\ output \in Seq(Lines)
  /\ Scanner => link = "none" /\ inFlight = <<>> /\ late = <<>>

\* Lines that answer a command, those that answer the last one, and the line after which the
\* connection of a Peripheral is over.
Answers == {l \in Lines : l.rsp \in Kinds \cup {"err"}}
Own == {l \in Answers : l.n = sent}
Enders == {l \in Lines : ~Scanner /\ l.rsp = "stat" /\ l.code = "disc"}

Asking == {c \in Commands : c.verb \in Asked}
OwnAsking == {c \in Asking : c.n = sent}
OwnReplies == {m \in Replies : m.cmd.n = sent}

NoInput == Free(input, Asking, {})
NoReply == Free(mgmtIn, Replies, {})

\* No command will be answered; one will be, the last.
NoneAsked == NoInput /\ inFlight = <<>> /\ late = <<>> /\ mgmtOut = <<>> /\ NoReply
Alone(q) == Len(q) = 1 /\ Head(q).n = sent
OneAsked ==
  \/ /\ One(input, Asking, OwnAsking, {})
     /\ inFlight = <<>> /\ late = <<>> /\ mgmtOut = <<>> /\ NoReply
  \/ NoInput /\ Alone(inFlight) /\ late = <<>> /\ mgmtOut = <<>> /\ NoReply
  \/ NoInput /\ inFlight = <<>> /\ Alone(late) /\ mgmtOut = <<>> /\ NoReply
  \/ NoInput /\ inFlight = <<>> /\ late = <<>> /\ Alone(mgmtOut) /\ NoReply
  \/ /\ NoInput /\ inFlight = <<>> /\ late = <<>> /\ mgmtOut = <<>>
     /\ One(mgmtIn, Replies, OwnReplies, {})

Over == Has(Pipe, Enders)
FreePipe == Free(Pipe, Answers, Enders)
OnePipe == One(Pipe, Answers, Own, Enders)

\* No answer is on its way; one is, to the last command.
Idle == FreePipe /\ (Over \/ NoneAsked)
Busy ==
  \/ OnePipe /\ (Over \/ NoneAsked)
  \/ FreePipe /\ OneAsked

\* The answers in the pipe are errors, and to no command.
Plain(l) == l.rsp \notin Kinds /\ (l.rsp = "err" => l.n = 0)
Unasked == \A i \in 1..Len(Pipe) : Plain(Pipe[i])
\* The device is not said to be connected.
NotUp == \A i \in 1..Len(Pipe) : Pipe[i].rsp = "stat" => Pipe[i].code # "conn"

\* What a step of the helper does to what is on its way: nothing is answered, but for a
\* connection that ends, or a command is.
Quiet ==
  /\ Over => Over'
  /\ FreePipe => FreePipe'
  /\ OnePipe => OnePipe'
  /\ Unasked => Unasked'
  /\ NoneAsked => NoneAsked'
  /\ OneAsked => OneAsked' \/ Over'
Answered ==
  /\ Over => Over'
  /\ FreePipe /\ Over => FreePipe'
  /\ OnePipe /\ Over => OnePipe'
  /\ ~NoneAsked
  /\ OneAsked => NoneAsked' /\ (FreePipe /\ ~Over => OnePipe')

\* Whatever a step of the helper does, an answer is not on its way unless it was, or was asked for.
LEMMA Flow ==
  ASSUME Quiet \/ Answered
  PROVE  /\ Idle => Idle'
         /\ Idle \/ Busy => Idle' \/ Busy'
         /\ NoneAsked /\ Unasked => NoneAsked' /\ Unasked'
BY DEF Quiet, Answered, Idle, Busy

\* The sorts of line, of command and of message are those of the object and of its last command.
LEMMA SameSets ==
  ASSUME use' = use, sent' = sent
  PROVE  /\ Scanner' = Scanner /\ Lines' = Lines /\ Commands' = Commands /\ Procedures' = Procedures
         /\ Replies' = Replies /\ Messages' = Messages
         /\ Answers' = Answers /\ Own' = Own /\ Enders' = Enders /\ Asking' = Asking
         /\ OwnAsking' = OwnAsking /\ OwnReplies' = OwnReplies
<1>1. Scanner' = Scanner /\ Verbs' = Verbs
  BY DEF Scanner, Verbs
<1>2. Lines' = Lines /\ Commands' = Commands
  BY <1>1 DEF Lines, Commands
<1>3. Procedures' = Procedures /\ Replies' = Replies
  BY <1>2 DEF Procedures, Replies
<1>4. Answers' = Answers /\ Enders' = Enders /\ Asking' = Asking /\ Messages' = Messages
  BY <1>1, <1>2, <1>3 DEF Answers, Enders, Asking, Messages
<1> QED
  BY <1>1, <1>2, <1>3, <1>4 DEF Own, OwnAsking, OwnReplies

\* The sorts of line are apart.
LEMMA SetsApart ==
  /\ Answers \cap Enders = {} /\ Own \subseteq Answers /\ Asking \cap {} = {}
  /\ OwnAsking \subseteq Asking /\ OwnReplies \subseteq Replies /\ Replies \cap {} = {}
  /\ Answers \subseteq Lines /\ Enders \subseteq Lines
BY DEF Answers, Enders, Own, OwnAsking, OwnReplies, Kinds

----------------------------------------------------------------------------
(* What the helper says *)

\* A line is added to the pipe.
LEMMA Said ==
  ASSUME Typed, NEW l \in Lines, buf' = buf, output' = output \o <<l>>
  PROVE  Pipe' = Append(Pipe, l) /\ output' \in Seq(Lines) /\ Pipe \in Seq(Lines)
<1> DEFINE s == <<l>>
<1>1. buf \in Seq(Lines) /\ output \in Seq(Lines)
  BY DEF Typed
<1>2. s \in Seq(Lines)
  BY OneInSeq
<1>3. Pipe \o s = Append(Pipe, l)
  <2>1. Pipe \in Seq(Lines)
    BY <1>1, ConcatProperties DEF Pipe
  <2> HIDE DEF Pipe
  <2> QED
    BY <2>1, AppendIsConcat
<1> HIDE DEF s
<1>4. (buf \o output) \o s = buf \o (output \o s)
  <2>1. ThreeLeft(buf, output, s) = ThreeRight(buf, output, s)
    BY <1>1, <1>2, ConcatThree
  <2> QED
    BY <2>1 DEF ThreeLeft, ThreeRight
<1>5. output \o s \in Seq(Lines) /\ buf \o output \in Seq(Lines)
  BY <1>1, <1>2, ConcatProperties
<1>6. output' = output \o s
  BY DEF s
<1> QED
  BY <1>3, <1>4, <1>5, <1>6 DEF Pipe

\* Nothing is said.
LEMMA SaidNothing ==
  ASSUME Typed, buf' = buf, output' = output, use' = use, sent' = sent
  PROVE  /\ Over' = Over /\ FreePipe' = FreePipe /\ OnePipe' = OnePipe /\ Unasked' = Unasked
         /\ NotUp' = NotUp /\ Pipe' = Pipe
BY SameSets DEF Over, FreePipe, OnePipe, Unasked, NotUp, Pipe

\* What one line, of either sort, does to the pipe.
LEMMA OneMore ==
  ASSUME NEW p \in Seq(Lines), NEW l \in Lines
  PROVE  LET q == Append(p, l)
         IN /\ Has(p, Enders) \/ l \in Enders => Has(q, Enders)
            /\ Free(p, Answers, Enders) /\ (l \notin Answers \/ Has(p, Enders)) => Free(q, Answers, Enders)
            /\ One(p, Answers, Own, Enders) /\ (l \notin Answers \/ Has(p, Enders))
                 => One(q, Answers, Own, Enders)
            /\ Free(p, Answers, Enders) /\ l \in Own /\ ~Has(p, Enders) => One(q, Answers, Own, Enders)
BY SetsApart, PipeAppend

\* The lines of the pipe and one more.
LEMMA OneMoreLine ==
  ASSUME NEW p \in Seq(Lines), NEW l \in Lines
  PROVE  /\ \A i \in 1..Len(Append(p, l)) : Append(p, l)[i] = l \/ \E j \in 1..Len(p) : Append(p, l)[i] = p[j]
         /\ Append(p, l) \in Seq(Lines)
BY AppendProperties

\* A line that answers nothing.
LEMMA SaidLoose ==
  ASSUME Typed, NEW l \in Lines \ Answers, buf' = buf, output' = output \o <<l>>,
         use' = use, sent' = sent
  PROVE  /\ output' \in Seq(Lines)
         /\ Over \/ l \in Enders => Over'
         /\ FreePipe => FreePipe'
         /\ OnePipe => OnePipe'
         /\ Unasked => Unasked'
         /\ NotUp /\ (l.rsp = "stat" => l.code # "conn") => NotUp'
<1>1. Pipe' = Append(Pipe, l) /\ output' \in Seq(Lines) /\ Pipe \in Seq(Lines)
  BY Said
<1>2. Plain(l)
  BY DEF Answers, Plain
<1>3. (Unasked => Unasked') /\ (NotUp /\ (l.rsp = "stat" => l.code # "conn") => NotUp')
  <2> DEFINE q == Append(Pipe, l)
  <2>1. \A i \in 1..Len(q) : q[i] = l \/ \E j \in 1..Len(Pipe) : q[i] = Pipe[j]
    BY <1>1, OneMoreLine
  <2> HIDE DEF q
  <2>2. Pipe' = q
    BY <1>1 DEF q
  <2> QED
    BY <1>2, <2>1, <2>2 DEF Unasked, NotUp
<1> QED
  BY <1>1, <1>3, OneMore, SameSets DEF Over, FreePipe, OnePipe

\* An answer.
LEMMA SaidAnswer ==
  ASSUME Typed, NEW l \in Answers, buf' = buf, output' = output \o <<l>>,
         use' = use, sent' = sent
  PROVE  /\ output' \in Seq(Lines)
         /\ Over => Over'
         /\ FreePipe /\ Over => FreePipe'
         /\ OnePipe /\ Over => OnePipe'
         /\ FreePipe /\ ~Over /\ l \in Own => OnePipe'
         /\ NotUp => NotUp'
<1>1. Pipe' = Append(Pipe, l) /\ output' \in Seq(Lines) /\ Pipe \in Seq(Lines)
  BY Said, SetsApart
<1>2. l.rsp # "stat" /\ l \in Lines
  BY DEF Answers, Kinds
<1>3. NotUp => NotUp'
  <2> DEFINE q == Append(Pipe, l)
  <2>1. \A i \in 1..Len(q) : q[i] = l \/ \E j \in 1..Len(Pipe) : q[i] = Pipe[j]
    BY <1>1, <1>2, OneMoreLine
  <2> HIDE DEF q
  <2>2. Pipe' = q
    BY <1>1 DEF q
  <2> QED
    BY <1>2, <2>1, <2>2 DEF NotUp
<1> QED
  BY <1>1, <1>2, <1>3, OneMore, SameSets DEF Over, FreePipe, OnePipe

----------------------------------------------------------------------------
(* What the helper takes up *)

\* The head of the queue of the command lines is taken.
LEMMA TakenInput ==
  ASSUME Typed, input # <<>>, input' = Tail(input), use' = use, sent' = sent
  PROVE  /\ cmd \in Commands /\ input' \in Seq(Commands)
         /\ NoInput => cmd \notin Asking /\ NoInput'
         /\ cmd \notin Asking /\ One(input, Asking, OwnAsking, {}) => One(input', Asking, OwnAsking, {})
         /\ cmd \in Asking /\ One(input, Asking, OwnAsking, {}) => cmd.n = sent /\ NoInput'
<1>1. Head(input) \in Commands /\ Tail(input) \in Seq(Commands) /\ input \in Seq(Commands)
  BY HeadQueue DEF Typed
<1>2. /\ Free(input, Asking, {}) => Head(input) \notin Asking /\ Free(Tail(input), Asking, {})
      /\ One(input, Asking, OwnAsking, {}) /\ Head(input) \notin Asking
           => One(Tail(input), Asking, OwnAsking, {})
      /\ One(input, Asking, OwnAsking, {}) /\ Head(input) \in Asking
           => Head(input) \in OwnAsking /\ Free(Tail(input), Asking, {})
  BY <1>1, SetsApart, PipeTail
<1>3. NoInput' = Free(Tail(input), Asking, {})
  BY SameSets DEF NoInput
<1> QED
  BY <1>1, <1>2, <1>3 DEF NoInput, cmd, OwnAsking

\* The head of what the kernel has sent is taken.
LEMMA TakenReply ==
  ASSUME Typed, mgmtIn # <<>>, mgmtIn' = Tail(mgmtIn), use' = use, sent' = sent
  PROVE  /\ Head(mgmtIn) \in Messages /\ mgmtIn' \in Seq(Messages)
         /\ NoReply => Head(mgmtIn) \notin Replies /\ NoReply'
         /\ Head(mgmtIn) \notin Replies /\ One(mgmtIn, Replies, OwnReplies, {})
              => One(mgmtIn', Replies, OwnReplies, {})
         /\ Head(mgmtIn) \in Replies /\ One(mgmtIn, Replies, OwnReplies, {})
              => Head(mgmtIn).cmd.n = sent /\ NoReply'
<1>1. Head(mgmtIn) \in Messages /\ Tail(mgmtIn) \in Seq(Messages) /\ mgmtIn \in Seq(Messages)
  BY HeadQueue DEF Typed
<1>2. /\ Free(mgmtIn, Replies, {}) => Head(mgmtIn) \notin Replies /\ Free(Tail(mgmtIn), Replies, {})
      /\ One(mgmtIn, Replies, OwnReplies, {}) /\ Head(mgmtIn) \notin Replies
           => One(Tail(mgmtIn), Replies, OwnReplies, {})
      /\ One(mgmtIn, Replies, OwnReplies, {}) /\ Head(mgmtIn) \in Replies
           => Head(mgmtIn) \in OwnReplies /\ Free(Tail(mgmtIn), Replies, {})
  BY <1>1, SetsApart, PipeTail
<1>3. NoReply' = Free(Tail(mgmtIn), Replies, {})
  BY SameSets DEF NoReply
<1> QED
  BY <1>1, <1>2, <1>3 DEF NoReply, OwnReplies

\* A message that is no reply comes in; a reply does.
LEMMA CameIn ==
  ASSUME NEW p \in Seq(Messages), NEW m \in Messages
  PROVE  /\ Append(p, m) \in Seq(Messages)
         /\ m \notin Replies /\ Free(p, Replies, {}) => Free(Append(p, m), Replies, {})
         /\ m \notin Replies /\ One(p, Replies, OwnReplies, {}) => One(Append(p, m), Replies, OwnReplies, {})
         /\ m \in OwnReplies /\ Free(p, Replies, {}) => One(Append(p, m), Replies, OwnReplies, {})
<1>1. ~Has(p, {})
  BY DEF Has
<1> QED
  BY <1>1, SetsApart, PipeAppend, AppendProperties

\* A queue of one entry, once that is taken.
LEMMA LoneTail ==
  ASSUME NEW T, NEW q \in Seq(T), Len(q) = 1
  PROVE  q # <<>> /\ Tail(q) = <<>> /\ Head(q) \in T
<1>1. q # <<>>
  BY EmptySeq
<1>2. Tail(q) \in Seq(T) /\ Len(Tail(q)) = 0 /\ Head(q) \in T
  BY <1>1, HeadTailProperties
<1> QED
  BY <1>1, <1>2, EmptySeq

\* What a step does to the pipe: it says nothing that answers, or it answers command n.
PipeQuiet ==
  (Over => Over') /\ (FreePipe => FreePipe') /\ (OnePipe => OnePipe') /\ (Unasked => Unasked')
PipeAnswered(n) ==
  /\ (Over => Over') /\ (FreePipe /\ Over => FreePipe') /\ (OnePipe /\ Over => OnePipe')
  /\ n = sent /\ FreePipe /\ ~Over => OnePipe'

Kept == use' = use /\ sent' = sent /\ buf' = buf

\* A sequence of two entries, put together from one of each.
LEMMA Pair ==
  ASSUME NEW T, NEW a \in T, NEW b \in T
  PROVE  /\ <<a>> \o <<b>> = <<a, b>> /\ <<a>> \o <<>> = <<a>>
         /\ \A s \in Seq(T) : s \o <<a, b>> = (s \o <<a>>) \o <<b>>
<1>1. <<a>> \in Seq(T) /\ <<b>> \in Seq(T) /\ <<a, b>> \in Seq(T)
  OBVIOUS
<1>2. <<a>> \o <<b>> = <<a, b>>
  <2>1. /\ Len(<<a>>) = 1 /\ Len(<<b>>) = 1 /\ Len(<<a, b>>) = 2
        /\ <<a>>[1] = a /\ <<b>>[1] = b /\ <<a, b>>[1] = a /\ <<a, b>>[2] = b
    OBVIOUS
  <2> DEFINE s == <<a>> \o <<b>>
  <2>2. /\ s \in Seq(T) /\ Len(s) = 2
        /\ \A i \in 1..2 : s[i] = IF i <= 1 THEN <<a>>[i] ELSE <<b>>[i - 1]
    BY <1>1, <2>1, ConcatProperties
  <2>3. s[1] = a /\ s[2] = b
    BY <2>1, <2>2
  <2>4. \A i \in 1..2 : i = 1 \/ i = 2
    OBVIOUS
  <2> HIDE DEF s
  <2>5. s = <<a, b>>
    BY <1>1, <2>1, <2>2, <2>3, <2>4, SeqEqual
  <2> QED
    BY <2>5 DEF s
<1>3. <<a>> \o <<>> = <<a>>
  BY <1>1, ConcatEmptySeq
<1>4. ASSUME NEW s \in Seq(T) PROVE s \o <<a, b>> = (s \o <<a>>) \o <<b>>
  <2> DEFINE u == <<a>>
  <2>1. u \in Seq(T) /\ u \o <<b>> = <<a, b>>
    BY <1>1, <1>2
  <2> HIDE DEF u
  <2>2. Append(s \o u, b) = s \o (u \o <<b>>)
    BY <1>4, <2>1, ConcatAppend
  <2> DEFINE p == s \o u
  <2>3. p \in Seq(T)
    BY <1>4, <2>1, ConcatProperties
  <2> HIDE DEF p
  <2>4. Append(p, b) = p \o <<b>>
    BY <2>3, AppendIsConcat
  <2> QED
    BY <2>1, <2>2, <2>4 DEF u, p
<1> QED
  BY <1>2, <1>3, <1>4

\* Two lines.
LEMMA SaidTwo ==
  ASSUME Typed, NEW a \in Lines, NEW b \in Lines, Kept, output' = output \o <<a, b>>
  PROVE  /\ output' \in Seq(Lines)
         /\ a \notin Answers /\ b \notin Answers => PipeQuiet /\ (a \in Enders \/ b \in Enders => Over')
         /\ a \in Answers /\ b \notin Answers => PipeAnswered(a.n)
         /\ a \in Enders /\ Plain(b) => PipeQuiet /\ Over'
         /\ NotUp /\ (a.rsp = "stat" => a.code # "conn") /\ (b.rsp = "stat" => b.code # "conn") => NotUp'
<1> DEFINE p == Append(Pipe, a)
           q == Append(p, b)
<1>1. buf \in Seq(Lines) /\ output \in Seq(Lines) /\ Pipe \in Seq(Lines)
  BY ConcatProperties DEF Typed, Pipe
<1>2. output' = (output \o <<a>>) \o <<b>>
  BY <1>1, Pair
<1>3. Append(buf \o output, a) = buf \o (output \o <<a>>)
  BY <1>1, ConcatAppend
<1>4. output \o <<a>> \in Seq(Lines)
  <2>1. <<a>> \in Seq(Lines)
    BY OneInSeq
  <2> QED
    BY <1>1, <2>1, ConcatProperties
<1> DEFINE t == output \o <<a>>
<1>5. t \in Seq(Lines) /\ output' = t \o <<b>> /\ p = buf \o t
  BY <1>2, <1>3, <1>4 DEF Pipe
<1> HIDE DEF t, p
<1>6. Append(buf \o t, b) = buf \o (t \o <<b>>)
  BY <1>1, <1>5, ConcatAppend
<1>7. Pipe' = q
  BY <1>5, <1>6 DEF Pipe, Kept
<1>8. output' \in Seq(Lines)
  <2>1. <<b>> \in Seq(Lines)
    BY OneInSeq
  <2> QED
    BY <1>5, <2>1, ConcatProperties
<1>9. p \in Seq(Lines) /\ q \in Seq(Lines)
  BY <1>1, OneMoreLine DEF p
<1>10. /\ Has(Pipe, Enders) \/ a \in Enders => Has(p, Enders)
       /\ Free(Pipe, Answers, Enders) /\ (a \notin Answers \/ Has(Pipe, Enders)) => Free(p, Answers, Enders)
       /\ One(Pipe, Answers, Own, Enders) /\ (a \notin Answers \/ Has(Pipe, Enders))
            => One(p, Answers, Own, Enders)
       /\ Free(Pipe, Answers, Enders) /\ a \in Own /\ ~Has(Pipe, Enders) => One(p, Answers, Own, Enders)
  BY <1>1, OneMore DEF p
<1>11. /\ Has(p, Enders) \/ b \in Enders => Has(q, Enders)
       /\ Free(p, Answers, Enders) /\ (b \notin Answers \/ Has(p, Enders)) => Free(q, Answers, Enders)
       /\ One(p, Answers, Own, Enders) /\ (b \notin Answers \/ Has(p, Enders))
            => One(q, Answers, Own, Enders)
  BY <1>9, OneMore
<1>12. /\ \A i \in 1..Len(q) : \/ q[i] = b \/ q[i] = a
                               \/ \E j \in 1..Len(Pipe) : q[i] = Pipe[j]
  <2>1. \A i \in 1..Len(q) : q[i] = b \/ \E j \in 1..Len(p) : q[i] = p[j]
    BY <1>9, OneMoreLine
  <2>2. \A i \in 1..Len(p) : p[i] = a \/ \E j \in 1..Len(Pipe) : p[i] = Pipe[j]
    BY <1>1, OneMoreLine DEF p
  <2> HIDE DEF q
  <2> QED
    BY <2>1, <2>2
<1> HIDE DEF q
<1>13. /\ Over' <=> Has(q, Enders)
       /\ FreePipe' <=> Free(q, Answers, Enders)
       /\ OnePipe' <=> One(q, Answers, Own, Enders)
  BY <1>7, SameSets DEF Over, FreePipe, OnePipe, Kept
<1>14. /\ NotUp /\ (a.rsp = "stat" => a.code # "conn") /\ (b.rsp = "stat" => b.code # "conn") => NotUp'
       /\ Unasked /\ Plain(a) /\ Plain(b) => Unasked'
  BY <1>7, <1>12 DEF NotUp, Unasked
<1>15. (a \notin Answers => Plain(a)) /\ (b \notin Answers => Plain(b))
  BY DEF Answers, Plain
<1>16. ASSUME a \notin Answers, b \notin Answers
       PROVE  PipeQuiet /\ (a \in Enders \/ b \in Enders => Over')
  BY <1>10, <1>11, <1>13, <1>14, <1>15, <1>16 DEF PipeQuiet, Over, FreePipe, OnePipe
<1>17. ASSUME a \in Answers, b \notin Answers PROVE PipeAnswered(a.n)
  BY <1>10, <1>11, <1>13, <1>17 DEF PipeAnswered, Over, FreePipe, OnePipe, Own
<1>18. ASSUME a \in Enders, Plain(b) PROVE PipeQuiet /\ Over'
  <2>1. a \notin Answers
    BY <1>18, SetsApart
  <2> QED
    BY <1>10, <1>11, <1>13, <1>14, <1>15, <1>18, <2>1 DEF PipeQuiet, Over, FreePipe, OnePipe
<1> QED
  BY <1>8, <1>14, <1>16, <1>17, <1>18

----------------------------------------------------------------------------
(* What a step does to what is on its way, by what it takes and what it    *)
(* says                                                                    *)

Pending == <<inFlight, late, mgmtOut, mgmtIn>>

\* Nothing is taken, nothing is answered.
LEMMA NothingTaken ==
  ASSUME Typed, Kept, UNCHANGED <<input, Pending>>, PipeQuiet
  PROVE  Quiet
<1>1. NoInput' = NoInput /\ NoReply' = NoReply
  BY SameSets DEF NoInput, NoReply, Kept, Pending
<1>2. NoneAsked' = NoneAsked /\ OneAsked' = OneAsked
  BY <1>1, SameSets DEF NoneAsked, OneAsked, Alone, Kept, Pending
<1> QED
  BY <1>2 DEF Quiet, PipeQuiet

\* A command line is taken that is not answered.
LEMMA TakenQuietly ==
  ASSUME Typed, Kept, input # <<>>, input' = Tail(input), cmd \notin Asking,
         UNCHANGED Pending, PipeQuiet
  PROVE  Quiet
<1>1. NoReply' = NoReply
  BY SameSets DEF NoReply, Kept, Pending
<1>2. NoneAsked => NoneAsked'
  BY <1>1, TakenInput DEF NoneAsked, Kept, Pending
<1>3. OneAsked => OneAsked'
  BY <1>1, TakenInput, SameSets DEF OneAsked, Alone, Kept, Pending
<1> QED
  BY <1>2, <1>3 DEF Quiet, PipeQuiet

\* The command is taken: none of those that may be asked is left.
LEMMA TakenAsked ==
  ASSUME Typed, Kept, input # <<>>, input' = Tail(input), cmd \in Asking
  PROVE  /\ ~NoneAsked /\ cmd \in Commands
         /\ OneAsked => /\ cmd.n = sent /\ NoInput' /\ NoReply
                        /\ inFlight = <<>> /\ late = <<>> /\ mgmtOut = <<>>
BY TakenInput DEF NoneAsked, OneAsked, Kept

\* A command is taken and answered at once.
LEMMA TakenAnswered ==
  ASSUME Typed, Kept, input # <<>>, input' = Tail(input), cmd \in Asking,
         UNCHANGED Pending, PipeAnswered(cmd.n)
  PROVE  Answered
<1>1. NoReply' = NoReply
  BY SameSets DEF NoReply, Kept, Pending
<1> QED
  BY <1>1, TakenAsked DEF NoneAsked, Answered, PipeAnswered, Pending

\* A queue of one entry, put in an empty one.
LEMMA LoneAppend ==
  ASSUME NEW T, NEW x \in T
  PROVE  Append(<<>>, x) \in Seq(T) /\ Len(Append(<<>>, x)) = 1 /\ Head(Append(<<>>, x)) = x
<1>1. /\ Append(<<>>, x) \in Seq(T) /\ Len(Append(<<>>, x)) = 1 /\ Append(<<>>, x)[1] = x
  BY EmptySeq, AppendProperties
<1> QED
  BY <1>1

\* It is begun, or sent to the kernel.
LEMMA TakenBegun ==
  ASSUME Typed, Kept, input # <<>>, input' = Tail(input), cmd \in Asking, PipeQuiet,
         UNCHANGED <<late, mgmtIn>>,
         \/ inFlight' = Append(inFlight, cmd) /\ UNCHANGED mgmtOut
         \/ mgmtOut' = Append(mgmtOut, cmd) /\ UNCHANGED inFlight
  PROVE  Quiet
<1>1. NoReply' = NoReply
  BY SameSets DEF NoReply, Kept
<1>2. Append(<<>>, cmd) \in Seq(Commands) /\ Len(Append(<<>>, cmd)) = 1 /\ Head(Append(<<>>, cmd)) = cmd
  BY TakenAsked, LoneAppend
<1>3. OneAsked => OneAsked'
  <2> SUFFICES ASSUME OneAsked PROVE OneAsked'
    OBVIOUS
  <2>1. /\ cmd.n = sent /\ NoInput' /\ NoReply'
        /\ inFlight = <<>> /\ late' = <<>> /\ mgmtOut = <<>>
    BY <1>1, TakenAsked
  <2>2. CASE inFlight' = Append(inFlight, cmd) /\ UNCHANGED mgmtOut
    <3>1. Alone(inFlight)' /\ mgmtOut' = <<>>
      BY <1>2, <2>1, <2>2 DEF Alone, Kept
    <3> QED
      BY <2>1, <3>1 DEF OneAsked
  <2>3. CASE mgmtOut' = Append(mgmtOut, cmd) /\ UNCHANGED inFlight
    <3>1. Alone(mgmtOut)' /\ inFlight' = <<>>
      BY <1>2, <2>1, <2>3 DEF Alone, Kept
    <3> QED
      BY <2>1, <3>1 DEF OneAsked
  <2> QED
    BY <2>2, <2>3
<1> QED
  BY <1>3, TakenAsked DEF Quiet, PipeQuiet

\* The device or the kernel has answered.
LEMMA ProcedureAnswered ==
  ASSUME Typed, Kept,
         UNCHANGED <<input, mgmtOut, mgmtIn>>,
         \/ /\ inFlight # <<>> /\ inFlight' = Tail(inFlight) /\ UNCHANGED late
            /\ PipeAnswered(Head(inFlight).n)
         \/ /\ late # <<>> /\ late' = Tail(late) /\ UNCHANGED inFlight
            /\ PipeAnswered(Head(late).n)
  PROVE  Answered
<1>1. NoReply' = NoReply /\ NoInput' = NoInput
  BY SameSets DEF NoReply, NoInput, Kept
<1>2. inFlight \in Seq(Procedures) /\ late \in Seq(Procedures)
  BY DEF Typed
<1>3. CASE /\ inFlight # <<>> /\ inFlight' = Tail(inFlight) /\ UNCHANGED late
           /\ PipeAnswered(Head(inFlight).n)
  <2>1. ~NoneAsked
    BY <1>3 DEF NoneAsked
  <2>2. ASSUME OneAsked PROVE NoneAsked' /\ Head(inFlight).n = sent
    <3>1. NoInput /\ Alone(inFlight) /\ late = <<>> /\ mgmtOut = <<>> /\ NoReply
      BY <1>3, <2>2 DEF OneAsked
    <3>2. Tail(inFlight) = <<>>
      BY <1>2, <3>1, LoneTail DEF Alone
    <3> QED
      BY <1>1, <1>3, <3>1, <3>2 DEF NoneAsked, Alone
  <2> QED
    BY <1>3, <2>1, <2>2 DEF Answered, PipeAnswered
<1>4. CASE /\ late # <<>> /\ late' = Tail(late) /\ UNCHANGED inFlight
           /\ PipeAnswered(Head(late).n)
  <2>1. ~NoneAsked
    BY <1>4 DEF NoneAsked
  <2>2. ASSUME OneAsked PROVE NoneAsked' /\ Head(late).n = sent
    <3>1. NoInput /\ Alone(late) /\ inFlight = <<>> /\ mgmtOut = <<>> /\ NoReply
      BY <1>4, <2>2 DEF OneAsked
    <3>2. Tail(late) = <<>>
      BY <1>2, <3>1, LoneTail DEF Alone
    <3> QED
      BY <1>1, <1>4, <3>1, <3>2 DEF NoneAsked, Alone
  <2> QED
    BY <1>4, <2>1, <2>2 DEF Answered, PipeAnswered
<1> QED
  BY <1>3, <1>4

\* A reply of the kernel is taken and passed on.
LEMMA ReplyAnswered ==
  ASSUME Typed, Kept, UNCHANGED <<input, inFlight, late, mgmtOut>>,
         mgmtIn # <<>>, mgmtIn' = Tail(mgmtIn), Head(mgmtIn) \in Replies,
         PipeAnswered(Head(mgmtIn).cmd.n)
  PROVE  Answered
<1>1. NoInput' = NoInput
  BY SameSets DEF NoInput, Kept
<1>2. ~NoneAsked
  BY TakenReply DEF NoneAsked, Kept
<1>3. OneAsked => NoneAsked' /\ Head(mgmtIn).cmd.n = sent
  BY <1>1, TakenReply DEF NoneAsked, OneAsked, Kept
<1> QED
  BY <1>2, <1>3 DEF Answered, PipeAnswered

\* An event of the kernel is taken.
LEMMA EventTaken ==
  ASSUME Typed, Kept, UNCHANGED <<input, inFlight, late, mgmtOut>>,
         mgmtIn # <<>>, mgmtIn' = Tail(mgmtIn), Head(mgmtIn) \notin Replies, PipeQuiet
  PROVE  Quiet
<1>1. NoInput' = NoInput
  BY SameSets DEF NoInput, Kept
<1>2. NoneAsked => NoneAsked'
  BY <1>1, TakenReply DEF NoneAsked, Kept
<1>3. OneAsked => OneAsked'
  BY <1>1, TakenReply, SameSets DEF OneAsked, Alone, Kept
<1> QED
  BY <1>2, <1>3 DEF Quiet, PipeQuiet

\* An event of the kernel comes in.
LEMMA EventCame ==
  ASSUME Typed, Kept, UNCHANGED <<input, inFlight, late, mgmtOut>>,
         NEW m \in Messages \ Replies, mgmtIn' = Append(mgmtIn, m), PipeQuiet
  PROVE  Quiet /\ mgmtIn' \in Seq(Messages)
<1>1. NoInput' = NoInput
  BY SameSets DEF NoInput, Kept
<1>2. mgmtIn \in Seq(Messages)
  BY DEF Typed
<1>3. NoneAsked => NoneAsked'
  BY <1>1, <1>2, CameIn, SameSets DEF NoneAsked, NoReply, Kept
<1>4. OneAsked => OneAsked'
  BY <1>1, <1>2, CameIn, SameSets DEF OneAsked, NoReply, Alone, Kept
<1> QED
  BY <1>2, <1>3, <1>4, CameIn DEF Quiet, PipeQuiet

\* The kernel replies, with or without an event.
LEMMA ReplyCame ==
  ASSUME Typed, Kept, UNCHANGED <<input, inFlight, late>>, PipeQuiet,
         mgmtOut # <<>>, mgmtOut' = Tail(mgmtOut),
         NEW r \in Replies, r.cmd = Head(mgmtOut), NEW e \in Messages \ Replies,
         \/ mgmtIn' = Append(mgmtIn, r)
         \/ mgmtIn' = mgmtIn \o <<r, e>>
         \/ mgmtIn' = mgmtIn \o <<e, r>>
  PROVE  Quiet /\ mgmtIn' \in Seq(Messages) /\ mgmtOut' \in Seq(Commands)
<1> DEFINE M == mgmtIn
<1>1. NoInput' = NoInput
  BY SameSets DEF NoInput, Kept
<1>2. M \in Seq(Messages) /\ mgmtOut \in Seq(Commands) /\ r \in Messages /\ e \in Messages
  BY DEF Typed, Messages
<1>3. Tail(mgmtOut) \in Seq(Commands)
  BY <1>2, HeadQueue
<1>4. \/ M' = Append(M, r) \/ M' = Append(Append(M, r), e) \/ M' = Append(Append(M, e), r)
  <2>1. \A x, y \in Messages : M \o <<x, y>> = Append(Append(M, x), y)
    <3> SUFFICES ASSUME NEW x \in Messages, NEW y \in Messages
                 PROVE  M \o <<x, y>> = Append(Append(M, x), y)
      OBVIOUS
    <3>1. M \o <<x, y>> = (M \o <<x>>) \o <<y>>
      BY <1>2, Pair
    <3>2. M \o <<x>> = Append(M, x)
      BY <1>2, AppendIsConcat
    <3>3. Append(M, x) \in Seq(Messages)
      BY <1>2, CameIn
    <3> DEFINE a == Append(M, x)
    <3>4. a \in Seq(Messages) /\ M \o <<x>> = a
      BY <3>2, <3>3
    <3> HIDE DEF a
    <3>5. a \o <<y>> = Append(a, y)
      BY <3>4, AppendIsConcat
    <3>6. M \o <<x, y>> = a \o <<y>>
      BY <3>1, <3>4
    <3> QED
      BY <3>5, <3>6 DEF a
  <2> QED
    BY <1>2, <2>1
<1>5. M' \in Seq(Messages)
  BY <1>2, <1>4, CameIn
<1>6. ASSUME OneAsked PROVE OneAsked'
  <2>1. /\ NoInput /\ inFlight = <<>> /\ late = <<>> /\ Alone(mgmtOut) /\ NoReply
    BY <1>6 DEF OneAsked
  <2>2. Tail(mgmtOut) = <<>> /\ Head(mgmtOut).n = sent
    BY <1>2, <2>1, LoneTail DEF Alone
  <2>3. r \in OwnReplies
    BY <2>2 DEF OwnReplies
  <2>4. Free(M, Replies, {})
    BY <2>1 DEF NoReply
  <2>5. One(Append(M, r), Replies, OwnReplies, {}) /\ Append(M, r) \in Seq(Messages)
        /\ Free(Append(M, e), Replies, {}) /\ Append(M, e) \in Seq(Messages)
    BY <1>2, <2>3, <2>4, CameIn
  <2>6. One(Append(Append(M, r), e), Replies, OwnReplies, {})
    BY <1>2, <2>5, CameIn
  <2>7. One(Append(Append(M, e), r), Replies, OwnReplies, {})
    BY <1>2, <2>3, <2>5, CameIn
  <2>8. One(M', Replies, OwnReplies, {})
    BY <1>4, <2>5, <2>6, <2>7
  <2>9. One(M, Replies, OwnReplies, {})'
    BY <2>8, SameSets DEF Kept
  <2> QED
    BY <1>1, <2>1, <2>2, <2>9 DEF OneAsked
<1> QED
  BY <1>3, <1>5, <1>6 DEF Quiet, PipeQuiet, NoneAsked

----------------------------------------------------------------------------
(* The steps of the helper *)

\* The helper does not come to life, says when a connection ends, has a connection only in a
\* state that is not the end of one, and says that it has one only then.
Tells ==
  /\ alive' => alive
  /\ ~Scanner /\ connState' = "disc" => connState = "disc" \/ Over'
  /\ link' # "none" => link # "none" \/ connState' # "disc"
  /\ ~Scanner /\ connState' # "conn" /\ NotUp => NotUp'

\* Of its own state.
Sound == Typed /\ connState \in States /\ use \in Uses /\ Unambiguous /\ sent \in Nat

Stepped == Typed' /\ (Quiet \/ Answered) /\ Tells

\* Errors, and the lines of the management commands, are answers.
LEMMA ErrorSort ==
  ASSUME NEW code \in Codes, NEW n \in Nat
  PROVE  /\ Err(code, n) \in Answers /\ Err(code, n).n = n
         /\ Mgmt(code, n) \in Answers /\ Mgmt(code, n).n = n
BY DEF Line, Err, Mgmt, Lines, Answers, Kinds

\* So are the lines of a kind of their own.
LEMMA AnswerSort ==
  ASSUME NEW rsp \in Kinds, NEW n \in Nat
  PROVE  Line(rsp, "", n) \in Answers /\ Line(rsp, "", n).n = n
BY DEF Line, Lines, Answers, Kinds, Codes

\* A state is not, and that of no connection ends one.
LEMMA StatSort ==
  ASSUME NEW state \in States, NEW n \in Nat, n = 0 \/ Scanner
  PROVE  /\ Stat(state, n) \in Lines \ Answers
         /\ Stat(state, n).rsp = "stat" /\ Stat(state, n).code = state
         /\ ~Scanner /\ state = "disc" => Stat(state, n) \in Enders
BY DEF Line, Stat, Lines, Answers, Kinds, Codes, Enders

\* Events are not either.
LEMMA EventSort ==
  /\ Line("scan", "", 0) \in Lines \ Answers /\ Line("scan", "", 0).rsp = "scan"
  /\ ~Scanner => Line("ntfy", "", 0) \in Lines \ Answers /\ Line("ntfy", "", 0).rsp = "ntfy"
BY DEF Line, Lines, Answers, Kinds, Codes

\* What the head of the command lines is.
LEMMA VerbSorts ==
  ASSUME Typed, input # <<>>
  PROVE  /\ cmd \in Commands /\ cmd.n \in Nat /\ cmd.verb \in Verbs \cup {"quit"}
         /\ cmd \in Asking <=> cmd.verb \in Asked
<1>1. Head(input) \in Commands
  BY HeadQueue DEF Typed
<1>2. cmd \in Commands
  BY <1>1 DEF cmd
<1>3. cmd.n \in Nat /\ cmd.verb \in Verbs \cup {"quit"}
  BY <1>2 DEF Commands
<1> QED
  BY <1>2, <1>3 DEF Asking

\* A line that answers nothing, and an answer.
LEMMA SaysLoose ==
  ASSUME Typed, Kept, NEW l \in Lines \ Answers, output' = output \o <<l>>
  PROVE  /\ output' \in Seq(Lines) /\ PipeQuiet /\ (l \in Enders => Over')
         /\ NotUp /\ (l.rsp = "stat" => l.code # "conn") => NotUp'
BY SaidLoose DEF PipeQuiet, Kept

\* An answer.
LEMMA SaysAnswer ==
  ASSUME Typed, Kept, NEW l \in Answers, output' = output \o <<l>>
  PROVE  /\ output' \in Seq(Lines) /\ PipeAnswered(l.n) /\ (NotUp => NotUp')
<1>1. l.n = sent => l \in Own
  BY DEF Own
<1> QED
  BY <1>1, SaidAnswer DEF PipeAnswered, Kept

\* No line.
LEMMA SaysNothing ==
  ASSUME Typed, Kept, output' = output
  PROVE  output' \in Seq(Lines) /\ PipeQuiet /\ (NotUp => NotUp')
<1>1. Over' = Over /\ FreePipe' = FreePipe /\ OnePipe' = OnePipe /\ Unasked' = Unasked /\ NotUp' = NotUp
  BY SaidNothing DEF Kept
<1> QED
  BY <1>1 DEF PipeQuiet, Typed

\* The connection and the scan are not touched.
LEMMA SameConn ==
  ASSUME UNCHANGED connState, UNCHANGED link, alive' => alive,
         ~Scanner /\ connState # "conn" /\ NotUp => NotUp'
  PROVE  Tells
BY DEF Tells

\* What a command line does that is taken and answered at once.
LEMMA TypedNext ==
  ASSUME Typed, Kept, input' \in Seq(Commands), output' \in Seq(Lines),
         inFlight' \in Seq(Procedures), late' \in Seq(Procedures), mgmtOut' \in Seq(Commands),
         mgmtIn' \in Seq(Messages),
         Scanner => link' = "none" /\ inFlight' = <<>> /\ late' = <<>>
  PROVE  Typed'
BY SameSets DEF Typed, Kept

\* A command that is answered at once (l.1017 and the like).
LEMMA AtOnce ==
  ASSUME Sound, Kept, input # <<>>, input' = Tail(input), cmd \in Asking,
         UNCHANGED <<alive, conn, mgmtOut, mgmtIn>>,
         NEW l \in Answers, l.n = cmd.n, output' = output \o <<l>>
  PROVE  Stepped
<1>1. output' \in Seq(Lines) /\ PipeAnswered(cmd.n) /\ (NotUp => NotUp')
  BY SaysAnswer DEF Sound
<1>2. Answered
  BY <1>1, TakenAnswered DEF Sound, conn, Pending
<1>3. Tells
  BY <1>1, SameConn DEF conn
<1>4. Typed'
  BY <1>1, TakenInput, TypedNext DEF Sound, Typed, conn, Kept
<1> QED
  BY <1>2, <1>3, <1>4 DEF Stepped

\* A command that is sent to the kernel.
LEMMA SendsOn ==
  ASSUME Sound, Kept, input # <<>>, input' = Tail(input), cmd \in Asking,
         UNCHANGED <<alive, conn, mgmtIn, output>>,
         mgmtOut' = Append(mgmtOut, cmd)
  PROVE  Stepped
<1>1. output' \in Seq(Lines) /\ PipeQuiet /\ (NotUp => NotUp')
  BY SaysNothing DEF Sound
<1>2. Quiet
  BY <1>1, TakenBegun DEF Sound, conn
<1>3. Tells
  BY <1>1, SameConn DEF conn
<1>4. mgmtOut' \in Seq(Commands)
  BY VerbSorts, AppendProperties DEF Sound, Typed
<1>5. Typed'
  BY <1>1, <1>4, TakenInput, TypedNext DEF Sound, Typed, conn, Kept
<1> QED
  BY <1>2, <1>3, <1>5 DEF Stepped

\* CmdStatus.
LEMMA StepStatus ==
  ASSUME Sound, UNCHANGED client, CmdStatus
  PROVE  Stepped
<1> USE DEF Sound
<1>1. /\ input # <<>> /\ input' = Tail(input) /\ cmd.verb = "stat" /\ Kept
      /\ output' = output \o <<Stat(connState, cmd.n)>> /\ UNCHANGED <<alive, conn, mgmt>>
  BY DEF CmdStatus, Take, Answer, Say, cmd, client, Kept
<1>2. Scanner /\ cmd \notin Asking /\ cmd.n \in Nat
  BY <1>1, VerbSorts, CallsApart DEF Verbs, Asked
<1>3. Stat(connState, cmd.n) \in Lines \ Answers
  BY <1>2, StatSort
<1>4. output' \in Seq(Lines) /\ PipeQuiet
  BY <1>1, <1>3, SaysLoose
<1>5. Quiet
  BY <1>1, <1>2, <1>4, TakenQuietly DEF conn, mgmt, Pending
<1>6. Tells
  BY <1>1, <1>2 DEF Tells, conn
<1>7. Typed'
  BY <1>1, <1>4, TakenInput, TypedNext DEF Typed, conn, mgmt, Kept
<1> QED
  BY <1>5, <1>6, <1>7 DEF Stepped

\* The connection ends, if there is one.
LEMMA Disconnected ==
  ASSUME Sound, Kept, DisconnectIo, alive' => alive,
         UNCHANGED <<mgmtOut, mgmtIn>>,
         \/ UNCHANGED input
         \/ input # <<>> /\ input' = Tail(input) /\ cmd \notin Asking
  PROVE  Stepped
<1> USE DEF Sound
<1>1. input' \in Seq(Commands)
  BY TakenInput DEF Typed, Kept
<1>2. CASE connState = "disc"
  <2>1. UNCHANGED <<conn, output>>
    BY <1>2 DEF DisconnectIo, Silent
  <2>2. output' \in Seq(Lines) /\ PipeQuiet /\ (NotUp => NotUp')
    BY <2>1, SaysNothing
  <2>3. Quiet
    BY <2>1, <2>2, TakenQuietly, NothingTaken DEF conn, Pending
  <2>4. Tells
    BY <2>1, <2>2, SameConn DEF conn
  <2>5. Typed'
    BY <1>1, <2>1, <2>2, TypedNext DEF Typed, conn
  <2> QED
    BY <2>3, <2>4, <2>5 DEF Stepped
<1>3. CASE connState # "disc"
  <2> DEFINE rest == RemoveAll(inFlight, {c \in ToSet(inFlight) : ~IsDiscovery(c)})
             l == Stat("disc", 0)
  <2>1. /\ link' = "none" /\ inFlight' = <<>> /\ late' = late \o rest
        /\ connState' = "disc" /\ output' = output \o (<<l>> \o <<>>)
    BY <1>3 DEF DisconnectIo, SetState, Say
  <2>2. l \in Lines \ Answers /\ (~Scanner => l \in Enders) /\ (l.rsp = "stat" => l.code # "conn")
    BY StatSort DEF States
  <2>3. output' = output \o <<l>>
    BY <2>1, <2>2, Pair
  <2> HIDE DEF l
  <2>4. output' \in Seq(Lines) /\ PipeQuiet /\ (~Scanner => Over') /\ (NotUp => NotUp')
    BY <2>2, <2>3, SaysLoose
  <2>5. late \in Seq(Procedures) /\ inFlight \in Seq(Procedures) /\ rest \in Seq(Procedures)
    BY RemoveAllQueue DEF Typed
  <2> HIDE DEF rest
  <2>6. late' \in Seq(Procedures)
    BY <2>1, <2>5, ConcatProperties
  <2>7. ASSUME inFlight = <<>> PROVE late' = late
    <3>1. rest = <<>>
      <4>1. ToSet(rest) = {}
        <5>1. ToSet(rest) = ToSet(inFlight) \ {c \in ToSet(inFlight) : ~IsDiscovery(c)}
          BY <2>5, RemoveAllQueue DEF rest
        <5> QED
          BY <2>7, <5>1, EmptyQueue
      <4> QED
        BY <2>5, <4>1, EmptyQueue
    <3> QED
      BY <2>1, <2>5, <3>1, ConcatEmptySeq
  <2>8. Typed'
    BY <1>1, <2>1, <2>4, <2>6, <2>7, TypedNext DEF Typed
  <2>9. Tells
    BY <2>1, <2>4 DEF Tells
  <2>10. NoInput => NoInput'
    BY TakenInput, SameSets DEF Kept, NoInput
  <2>11. NoReply' = NoReply
    BY SameSets DEF Kept, NoReply
  <2>12. NoneAsked => NoneAsked'
    BY <2>1, <2>7, <2>10, <2>11 DEF NoneAsked
  <2>13. OneAsked => OneAsked' \/ Over'
    <3>1. CASE ~Scanner
      BY <2>4, <3>1
    <3>2. CASE Scanner
      <4>1. inFlight = <<>> /\ late = <<>> /\ inFlight' = <<>> /\ late' = <<>>
        BY <2>1, <2>7, <3>2 DEF Typed
      <4>2. One(input, Asking, OwnAsking, {}) => One(input, Asking, OwnAsking, {})'
        BY TakenInput, SameSets DEF Kept
      <4>3. One(mgmtIn, Replies, OwnReplies, {})' = One(mgmtIn, Replies, OwnReplies, {})
        BY SameSets DEF Kept
      <4> QED
        BY <2>10, <2>11, <4>1, <4>2, <4>3 DEF OneAsked, Alone, Kept
    <3> QED
      BY <3>1, <3>2
  <2>14. Quiet
    BY <2>4, <2>12, <2>13 DEF Quiet, PipeQuiet
  <2> QED
    BY <2>8, <2>9, <2>14 DEF Stepped
<1> QED
  BY <1>2, <1>3

\* The commands disc and quit.
LEMMA StepDisconnect ==
  ASSUME Sound, UNCHANGED client, CmdDisconnect \/ CmdExit
  PROVE  Stepped
<1>1. /\ input # <<>> /\ input' = Tail(input) /\ cmd.verb \in {"disc", "quit"} /\ Kept /\ DisconnectIo
      /\ UNCHANGED mgmt /\ (alive' => alive)
  BY DEF CmdDisconnect, CmdExit, Take, cmd, client, Kept
<1>2. cmd \notin Asking
  BY <1>1, VerbSorts DEF Sound, Asked
<1> QED
  BY <1>1, <1>2, Disconnected DEF mgmt

\* CmdConnect.
LEMMA StepConnect ==
  ASSUME Sound, UNCHANGED client, CmdConnect
  PROVE  Stepped
<1> USE DEF Sound
<1>1. /\ input # <<>> /\ input' = Tail(input) /\ cmd.verb = "conn" /\ Kept /\ UNCHANGED <<alive, mgmt>>
  BY DEF CmdConnect, Take, cmd, client, Kept
<1>2. ~Scanner /\ cmd \notin Asking
  BY <1>1, VerbSorts DEF Verbs, Asked
<1>3. input' \in Seq(Commands)
  BY <1>1, TakenInput DEF Kept
<1>4. CASE connState # "disc" /\ Silent /\ UNCHANGED conn
  <2>1. output' \in Seq(Lines) /\ PipeQuiet /\ (NotUp => NotUp')
    BY <1>1, <1>4, SaysNothing DEF Silent
  <2>2. Quiet
    BY <1>1, <1>2, <1>4, <2>1, TakenQuietly DEF conn, mgmt, Pending
  <2>3. Tells
    BY <1>1, <1>4, <2>1, SameConn DEF conn
  <2>4. Typed'
    BY <1>1, <1>2, <1>3, <1>4, <2>1, TypedNext DEF Typed, conn, mgmt
  <2> QED
    BY <2>2, <2>3, <2>4 DEF Stepped
<1>5. CASE /\ connState' = "tryconn" /\ link' = "connecting" /\ Say(<<Stat("tryconn", 0)>>)
           /\ UNCHANGED <<attrib, mtuSet, inFlight, late>>
  <2>1. output' \in Seq(Lines) /\ PipeQuiet /\ (NotUp => NotUp')
    <3>1. Stat("tryconn", 0) \in Lines \ Answers /\ Stat("tryconn", 0).code # "conn"
      BY StatSort DEF States
    <3> QED
      BY <1>1, <1>5, <3>1, SaysLoose DEF Say
  <2>2. Quiet
    BY <1>1, <1>2, <1>5, <2>1, TakenQuietly DEF mgmt, Pending
  <2>3. Tells
    BY <1>1, <1>5, <2>1 DEF Tells
  <2>4. Typed'
    BY <1>1, <1>2, <1>3, <1>5, <2>1, TypedNext DEF Typed, mgmt
  <2> QED
    BY <2>2, <2>3, <2>4 DEF Stepped
<1>6. CASE /\ UNCHANGED <<connState, link>> /\ Say(<<Stat("tryconn", 0), Stat("disc", 0)>>)
           /\ UNCHANGED <<attrib, mtuSet, inFlight, late>>
  <2>1. /\ Stat("tryconn", 0) \in Lines \ Answers /\ Stat("disc", 0) \in Lines \ Answers
        /\ Stat("tryconn", 0).code # "conn" /\ Stat("disc", 0).code # "conn"
    BY StatSort DEF States
  <2>2. output' \in Seq(Lines) /\ PipeQuiet /\ (NotUp => NotUp')
    BY <1>1, <1>6, <2>1, SaidTwo DEF Say
  <2>3. Quiet
    BY <1>1, <1>2, <1>6, <2>2, TakenQuietly DEF mgmt, Pending
  <2>4. Tells
    BY <1>1, <1>6, <2>2, SameConn
  <2>5. Typed'
    BY <1>1, <1>2, <1>3, <1>6, <2>2, TypedNext DEF Typed, mgmt
  <2> QED
    BY <2>3, <2>4, <2>5 DEF Stepped
<1> QED
  BY <1>4, <1>5, <1>6 DEF CmdConnect

\* The commands that start a procedure of gatt.c, or are refused.
LEMMA StepGatt ==
  ASSUME Sound, UNCHANGED client, CmdDiscover \/ CmdCharDesc \/ CmdRead \/ CmdWriteRsp
  PROVE  Stepped
<1> USE DEF Sound
<1> DEFINE V == {"svcs", "incl", "char", "desc", "rd", "rdu", "wrr"}
<1>1. Gatt({"svcs", "incl", "char"}) \/ Gatt({"desc"}) \/ Gatt({"rd", "rdu"}) \/ Gatt({"wrr"})
  BY DEF CmdDiscover, CmdCharDesc, CmdRead, CmdWriteRsp
<1>2. /\ input # <<>> /\ input' = Tail(input) /\ cmd.verb \in V /\ Kept
      /\ UNCHANGED <<alive, connState, attrib, link, mtuSet, late, mgmt>>
      /\ \/ Say(<<Err("badstate", cmd.n)>>) /\ UNCHANGED inFlight
         \/ Say(<<Err("badparam", cmd.n)>>) /\ UNCHANGED inFlight
         \/ inFlight' = Append(inFlight, cmd) /\ UNCHANGED output
  BY <1>1 DEF Gatt, Take, Begin, Silent, cmd, client, Kept
<1>3. cmd \in Asking /\ cmd.n \in Nat /\ ~Scanner
  BY <1>2, VerbSorts DEF Asked, Verbs
<1>4. CASE (Say(<<Err("badstate", cmd.n)>>) \/ Say(<<Err("badparam", cmd.n)>>)) /\ UNCHANGED inFlight
  <2>1. PICK code \in Codes : output' = output \o <<Err(code, cmd.n)>>
    BY <1>4 DEF Say, Codes
  <2>2. Err(code, cmd.n) \in Answers /\ Err(code, cmd.n).n = cmd.n
    BY <1>3, ErrorSort
  <2> QED
    BY <1>2, <1>3, <1>4, <2>1, <2>2, AtOnce DEF conn, mgmt
<1>5. CASE inFlight' = Append(inFlight, cmd) /\ UNCHANGED output
  <2>1. output' \in Seq(Lines) /\ PipeQuiet /\ (NotUp => NotUp')
    BY <1>2, <1>5, SaysNothing
  <2>2. Quiet
    BY <1>2, <1>3, <1>5, <2>1, TakenBegun DEF mgmt
  <2>3. Tells
    BY <1>2, <2>1, SameConn
  <2>4. cmd \in Procedures /\ inFlight \in Seq(Procedures)
    BY <1>2, VerbSorts DEF Procedures, Typed
  <2>5. inFlight' \in Seq(Procedures)
    BY <1>5, <2>4, AppendProperties
  <2>6. Typed'
    BY <1>2, <1>3, <2>1, <2>5, TakenInput, TypedNext DEF Typed, mgmt, Kept
  <2> QED
    BY <2>2, <2>3, <2>6 DEF Stepped
<1> QED
  BY <1>2, <1>4, <1>5

\* The commands that are answered at once.
LEMMA StepWrite ==
  ASSUME Sound, UNCHANGED client, CmdWrite
  PROVE  Stepped
<1> USE DEF Sound
<1> DEFINE l == CASE connState # "conn" -> Err("badstate", cmd.n)
                  [] connState = "conn" /\ ~cmd.ok -> Err("badparam", cmd.n)
                  [] OTHER -> Line("wr", "", cmd.n)
<1>1. /\ input # <<>> /\ input' = Tail(input) /\ cmd.verb = "wr" /\ Kept
      /\ UNCHANGED <<alive, conn, mgmt>> /\ output' = output \o <<l>>
  BY DEF CmdWrite, Take, Answer, Say, cmd, client, Kept
<1>2. cmd \in Asking /\ cmd.n \in Nat
  BY <1>1, VerbSorts DEF Asked
<1>3. l \in Answers /\ l.n = cmd.n
  <2>1. /\ Err("badstate", cmd.n) \in Answers /\ Err("badstate", cmd.n).n = cmd.n
        /\ Err("badparam", cmd.n) \in Answers /\ Err("badparam", cmd.n).n = cmd.n
    BY <1>2, ErrorSort DEF Codes
  <2>2. Line("wr", "", cmd.n) \in Answers /\ Line("wr", "", cmd.n).n = cmd.n
    BY <1>2, AnswerSort DEF Kinds
  <2> QED
    BY <2>1, <2>2
<1> HIDE DEF l
<1> QED
  BY <1>1, <1>2, <1>3, AtOnce DEF conn, mgmt

\* Commands that are not written here.
LEMMA NotWritten ==
  ASSUME Sound, Take({"mtu"}) \/ Take({"secu"}) \/ Take({"pair"}) \/ Take({"unpair"})
  PROVE  FALSE
BY VerbSorts DEF Sound, Take, Verbs, cmd

\* The commands of the management socket, refused, sent or not sent.
LEMMA StepMgmtCmd ==
  ASSUME Sound, UNCHANGED client, NEW verbs, NEW refusals, NEW unsent,
         MgmtCmd(verbs, refusals, unsent), cmd.verb \in Asked,
         \A l \in refusals : l \in Answers /\ l.n = cmd.n,
         unsent \in Answers, unsent.n = cmd.n
  PROVE  Stepped
<1>1. /\ input # <<>> /\ input' = Tail(input) /\ Kept
      /\ UNCHANGED <<alive, conn, master, mgmtIn, kernelScan, hciScan>>
      /\ \/ (\E l \in refusals \cup {unsent} : output' = output \o <<l>>) /\ UNCHANGED mgmtOut
         \/ mgmtOut' = Append(mgmtOut, cmd) /\ UNCHANGED output
  BY DEF MgmtCmd, Take, Say, MgmtSend, Silent, client, Kept
<1>2. cmd \in Asking
  BY <1>1, VerbSorts DEF Sound
<1>3. CASE (\E l \in refusals \cup {unsent} : output' = output \o <<l>>) /\ UNCHANGED mgmtOut
  <2>1. PICK l \in refusals \cup {unsent} : output' = output \o <<l>>
    BY <1>3
  <2>2. l \in Answers /\ l.n = cmd.n
    BY <2>1
  <2> QED
    BY <1>1, <1>2, <1>3, <2>1, <2>2, AtOnce
<1>4. CASE mgmtOut' = Append(mgmtOut, cmd) /\ UNCHANGED output
  BY <1>1, <1>2, <1>4, SendsOn
<1> QED
  BY <1>1, <1>3, <1>4

\* Those that the object writes.
LEMMA StepMgmt ==
  ASSUME Sound, UNCHANGED client, CmdMode \/ CmdOob \/ CmdScan
  PROVE  Stepped
<1>1. input # <<>> /\ cmd.verb \in {"le", "pairable", "remote_oob", "local_oob", "scan", "scanend"}
  BY DEF CmdMode, CmdOob, CmdScan, MgmtCmd, Take, cmd
<1>2. cmd.verb \in Asked /\ cmd.n \in Nat
  BY <1>1, VerbSorts DEF Sound, Verbs, Asked
<1>3. /\ \A code \in {"nomgmt", "badparam", "sendfail"} :
              Err(code, cmd.n) \in Answers /\ Err(code, cmd.n).n = cmd.n
      /\ \A code \in {"badparam", "notfound", "success", "sendfail"} :
              Mgmt(code, cmd.n) \in Answers /\ Mgmt(code, cmd.n).n = cmd.n
  <2>1. {"nomgmt", "badparam", "sendfail", "notfound", "success"} \subseteq Codes
    BY DEF Codes
  <2> QED
    BY <1>2, <2>1, ErrorSort
<1>4. CASE CmdMode
  <2> DEFINE R == NoMgmt \cup Unless(cmd.ok, {Mgmt("badparam", cmd.n)})
  <2>1. \A l \in R : l \in Answers /\ l.n = cmd.n
    BY <1>3 DEF NoMgmt, Unless
  <2>2. MgmtCmd({"le", "pairable"}, R, Mgmt("success", cmd.n))
    BY <1>4 DEF CmdMode
  <2> HIDE DEF R
  <2> QED
    BY <1>2, <1>3, <2>1, <2>2, StepMgmtCmd
<1>5. CASE CmdOob
  <2> DEFINE R == NoMgmt \cup Unless(cmd.ok, {Mgmt("badparam", cmd.n), Mgmt("notfound", cmd.n)})
                 \cup Unless(cmd.ok \/ ~master, {Err("badparam", cmd.n)})
  <2>1. \A l \in R : l \in Answers /\ l.n = cmd.n
    BY <1>3 DEF NoMgmt, Unless
  <2>2. MgmtCmd({"remote_oob", "local_oob"}, R, Err("sendfail", cmd.n))
    BY <1>5 DEF CmdOob
  <2> HIDE DEF R
  <2> QED
    BY <1>2, <1>3, <2>1, <2>2, StepMgmtCmd
<1>6. CASE CmdScan
  <2> DEFINE R == IF cmd.ok THEN NoMgmt ELSE {Mgmt("badparam", cmd.n)}
  <2>1. \A l \in R : l \in Answers /\ l.n = cmd.n
    BY <1>3 DEF NoMgmt
  <2>2. MgmtCmd({"scan", "scanend"}, R, Mgmt("sendfail", cmd.n))
    BY <1>6 DEF CmdScan
  <2> HIDE DEF R
  <2> QED
    BY <1>2, <1>3, <2>1, <2>2, StepMgmtCmd
<1> QED
  BY <1>4, <1>5, <1>6

\* The passive scan.
LEMMA StepPassive ==
  ASSUME Sound, UNCHANGED client, CmdPasv \/ CmdPasvEnd
  PROVE  Stepped
<1> USE DEF Sound
<1>1. /\ input # <<>> /\ input' = Tail(input) /\ cmd.verb \in {"pasv", "pasvend"} /\ Kept
      /\ UNCHANGED <<alive, attrib, link, mtuSet, inFlight, late, mgmtOut, mgmtIn>>
  BY DEF CmdPasv, CmdPasvEnd, Take, cmd, client, Kept, mgmt
<1>2. cmd \in Asking /\ cmd.n \in Nat /\ Scanner
  BY <1>1, VerbSorts DEF Asked, Verbs
<1>3. /\ \A code \in {"success", "badstate"} :
              Mgmt(code, cmd.n) \in Answers /\ Mgmt(code, cmd.n).n = cmd.n
      /\ \A state \in {"scan", "disc"} : Stat(state, 0) \in Lines \ Answers
  <2>1. {"success", "badstate"} \subseteq Codes /\ {"scan", "disc"} \subseteq States
    BY DEF Codes, States
  <2> QED
    BY <1>2, <2>1, ErrorSort, StatSort
<1>4. \/ \E code \in {"success", "badstate"}, state \in {"scan", "disc"} :
            output' = output \o <<Mgmt(code, cmd.n), Stat(state, 0)>>
      \/ output' = output \o <<Mgmt("badstate", cmd.n)>>
  BY DEF CmdPasv, CmdPasvEnd, Say
<1>5. output' \in Seq(Lines) /\ PipeAnswered(cmd.n)
  <2>1. CASE \E code \in {"success", "badstate"}, state \in {"scan", "disc"} :
            output' = output \o <<Mgmt(code, cmd.n), Stat(state, 0)>>
    <3>1. PICK code \in {"success", "badstate"}, state \in {"scan", "disc"} :
            output' = output \o <<Mgmt(code, cmd.n), Stat(state, 0)>>
      BY <2>1
    <3> DEFINE a == Mgmt(code, cmd.n)
               b == Stat(state, 0)
    <3>2. a \in Answers /\ a \in Lines /\ a.n = cmd.n /\ b \in Lines \ Answers
      BY <1>3, SetsApart
    <3>3. output' = output \o <<a, b>>
      BY <3>1
    <3> HIDE DEF a, b
    <3>4. output' \in Seq(Lines) /\ PipeAnswered(a.n)
      BY <1>1, <3>2, <3>3, SaidTwo
    <3> QED
      BY <3>2, <3>4
  <2>2. CASE output' = output \o <<Mgmt("badstate", cmd.n)>>
    <3> DEFINE a == Mgmt("badstate", cmd.n)
    <3>1. a \in Answers /\ a.n = cmd.n
      BY <1>3
    <3>2. output' = output \o <<a>>
      BY <2>2
    <3> HIDE DEF a
    <3>3. output' \in Seq(Lines) /\ PipeAnswered(a.n)
      BY <1>1, <3>1, <3>2, SaysAnswer
    <3> QED
      BY <3>1, <3>3
  <2> QED
    BY <1>4, <2>1, <2>2
<1>6. Answered
  BY <1>1, <1>2, <1>5, TakenAnswered DEF Pending
<1>7. Tells
  BY <1>1, <1>2 DEF Tells
<1>8. Typed'
  BY <1>1, <1>5, TakenInput, TypedNext DEF Typed, Kept
<1> QED
  BY <1>6, <1>7, <1>8 DEF Stepped

\* The command lines, together.
LEMMA StepCommandLine ==
  ASSUME Sound, UNCHANGED client, CommandLine
  PROVE  Stepped
<1>1. CASE CmdMtu \/ CmdSecLevel \/ CmdPair \/ CmdUnpair
  BY <1>1, NotWritten DEF CmdMtu, CmdSecLevel, CmdPair, CmdUnpair, MgmtCmd
<1> QED
  BY <1>1, StepStatus, StepConnect, StepDisconnect, StepGatt, StepWrite, StepMgmt, StepPassive
     DEF CommandLine

----------------------------------------------------------------------------
(* What the device and the kernel do *)

\* The connection is made.
LEMMA StepConnected ==
  ASSUME Sound, UNCHANGED client, Connected
  PROVE  Stepped
<1> USE DEF Sound
<1>1. /\ link = "connecting" /\ link' = "up" /\ connState' = "conn"
      /\ output' = output \o (<<Stat("conn", 0)>> \o <<>>) /\ Kept
      /\ UNCHANGED <<alive, inFlight, late, mgmt, input>>
  BY DEF Connected, SetState, Say, client, Kept
<1> DEFINE l == Stat("conn", 0)
<1>2. l \in Lines \ Answers
  BY StatSort DEF States
<1>3. output' = output \o <<l>>
  BY <1>1, <1>2, Pair
<1> HIDE DEF l
<1>4. output' \in Seq(Lines) /\ PipeQuiet
  BY <1>1, <1>2, <1>3, SaysLoose
<1>5. Quiet
  BY <1>1, <1>4, NothingTaken DEF mgmt, Pending
<1>6. Tells
  BY <1>1 DEF Tells
<1>7. Typed'
  BY <1>1, <1>4, TypedNext DEF Typed, mgmt
<1> QED
  BY <1>5, <1>6, <1>7 DEF Stepped

\* It is not.
LEMMA StepConnectFailed ==
  ASSUME Sound, UNCHANGED client, ConnectFailed
  PROVE  Stepped
<1> USE DEF Sound
<1>1. /\ link = "connecting" /\ link' = "none" /\ connState' = "disc"
      /\ output' = output \o (<<Stat("disc", 0)>> \o <<Err("connfail", 0)>>) /\ Kept
      /\ UNCHANGED <<alive, inFlight, late, mgmt, input>>
  BY DEF ConnectFailed, SetState, Say, client, Kept
<1>2. ~Scanner
  BY <1>1 DEF Typed
<1> DEFINE l == Stat("disc", 0)
           e == Err("connfail", 0)
<1>3. l \in Lines /\ l \in Enders /\ l.code = "disc"
  BY <1>2, StatSort DEF States
<1>4. e \in Answers /\ e \in Lines /\ e.n = 0
  BY ErrorSort, SetsApart DEF Codes
<1>5. e.rsp = "err" /\ Plain(e)
  BY DEF Err, Line, Plain, Kinds
<1>6. output' = output \o <<l, e>>
  BY <1>1, <1>3, <1>4, Pair
<1> HIDE DEF l, e
<1>7. output' \in Seq(Lines) /\ PipeQuiet /\ Over' /\ (NotUp => NotUp')
  BY <1>1, <1>3, <1>4, <1>5, <1>6, SaidTwo
<1>8. Quiet
  BY <1>1, <1>7, NothingTaken DEF mgmt, Pending
<1>9. Tells
  BY <1>1, <1>7 DEF Tells
<1>10. Typed'
  BY <1>1, <1>7, TypedNext DEF Typed, mgmt
<1> QED
  BY <1>8, <1>9, <1>10 DEF Stepped

\* The watcher of the socket.
LEMMA StepWatcher ==
  ASSUME Sound, UNCHANGED client, ChannelWatcher
  PROVE  Stepped
<1> USE DEF Sound
<1>1. Kept /\ UNCHANGED <<alive, mgmt, input>> /\ link = "lost"
  BY DEF ChannelWatcher, client, Kept
<1>2. CASE connState # "disc" /\ DisconnectIo
  BY <1>1, <1>2, Disconnected DEF mgmt
<1>3. CASE /\ connState = "disc"
           /\ link' = "none" /\ inFlight' = <<>> /\ late' = late \o inFlight
           /\ Silent /\ UNCHANGED <<connState, attrib, mtuSet>>
  <2>1. output' \in Seq(Lines) /\ PipeQuiet /\ (NotUp => NotUp') /\ ~Scanner
    BY <1>1, <1>3, SaysNothing DEF Silent, Typed
  <2>2. late \in Seq(Procedures) /\ inFlight \in Seq(Procedures)
    BY DEF Typed
  <2>3. late' \in Seq(Procedures)
    BY <1>3, <2>2, ConcatProperties
  <2>4. /\ inFlight = <<>> => late' = late
        /\ late = <<>> => late' = inFlight
    BY <1>3, <2>2, ConcatEmptySeq
  <2>5. NoInput' = NoInput /\ NoReply' = NoReply
    BY <1>1, SameSets DEF Kept, NoInput, NoReply, mgmt
  <2>6. NoneAsked => NoneAsked'
    BY <1>1, <1>3, <2>4, <2>5 DEF NoneAsked, mgmt
  <2>7. OneAsked => OneAsked'
    <3> SUFFICES ASSUME OneAsked PROVE OneAsked'
      OBVIOUS
    <3>1. /\ One(input, Asking, OwnAsking, {})' = One(input, Asking, OwnAsking, {})
          /\ One(mgmtIn, Replies, OwnReplies, {})' = One(mgmtIn, Replies, OwnReplies, {})
          /\ mgmtOut' = mgmtOut /\ sent' = sent
      BY <1>1, SameSets DEF Kept, mgmt
    <3>2. CASE Alone(inFlight)
      <4>1. inFlight # <<>>
        BY <3>2 DEF Alone
      <4>2. late = <<>> /\ mgmtOut = <<>> /\ NoInput /\ NoReply
        BY <4>1 DEF OneAsked
      <4>3. Alone(late)'
        BY <2>4, <3>1, <3>2, <4>2 DEF Alone
      <4> QED
        BY <1>3, <2>5, <3>1, <4>2, <4>3 DEF OneAsked
    <3>3. CASE ~Alone(inFlight)
      <4>1. inFlight = <<>>
        BY <3>3 DEF OneAsked
      <4>2. late' = late /\ inFlight' = inFlight
        BY <1>3, <2>4, <4>1
      <4> QED
        BY <2>5, <3>1, <4>2 DEF OneAsked, Alone
    <3> QED
      BY <3>2, <3>3
  <2>8. Quiet
    BY <2>1, <2>6, <2>7 DEF Quiet, PipeQuiet
  <2>9. Tells
    BY <1>1, <1>3, <2>1 DEF Tells
  <2>10. Typed'
    BY <1>1, <1>3, <2>1, <2>3, TypedNext, EmptySeq DEF Typed, mgmt
  <2> QED
    BY <2>8, <2>9, <2>10 DEF Stepped
<1> QED
  BY <1>2, <1>3 DEF ChannelWatcher

\* The error of a procedure whose connection is given up.
LEMMA StepLate ==
  ASSUME Sound, UNCHANGED client, LateError
  PROVE  Stepped
<1> USE DEF Sound
<1>1. /\ late # <<>> /\ late' = Tail(late) /\ Kept
      /\ output' = output \o <<Err("atterr", Head(late).n)>>
      /\ UNCHANGED <<alive, connState, attrib, link, mtuSet, inFlight, mgmt, input>>
  BY DEF LateError, Say, client, Kept
<1>2. late \in Seq(Procedures) /\ ~Scanner
  BY <1>1 DEF Typed
<1>3. Head(late) \in Procedures /\ Tail(late) \in Seq(Procedures)
  BY <1>1, <1>2, HeadQueue
<1> DEFINE l == Err("atterr", Head(late).n)
<1>4. Head(late).n \in Nat
  BY <1>3 DEF Procedures, Commands
<1>5. l \in Answers /\ l.n = Head(late).n
  BY <1>4, ErrorSort DEF Codes
<1>6. output' = output \o <<l>>
  BY <1>1
<1> HIDE DEF l
<1>7. output' \in Seq(Lines) /\ PipeAnswered(Head(late).n) /\ (NotUp => NotUp')
  BY <1>1, <1>5, <1>6, SaysAnswer
<1>8. Answered
  BY <1>1, <1>7, ProcedureAnswered DEF mgmt
<1>9. Tells
  BY <1>1, <1>7, SameConn
<1>10. Typed'
  BY <1>1, <1>2, <1>3, <1>7, TypedNext DEF Typed, mgmt
<1> QED
  BY <1>8, <1>9, <1>10 DEF Stepped

\* A procedure ends.
LEMMA StepGattDone ==
  ASSUME Sound, UNCHANGED client, GattDone
  PROVE  Stepped
<1> USE DEF Sound
<1> DEFINE c == Head(inFlight)
<1>1. /\ inFlight # <<>> /\ inFlight' = Tail(inFlight) /\ Kept
      /\ \/ output' = output \o <<Success(c)>>
         \/ \E code \in Failures(c) : output' = output \o <<Err(code, c.n)>>
      /\ UNCHANGED <<alive, connState, attrib, link, mtuSet, late, mgmt, input>>
  BY DEF GattDone, Say, client, Kept
<1>2. inFlight \in Seq(Procedures) /\ ~Scanner
  BY <1>1 DEF Typed
<1>3. c \in Procedures /\ Tail(inFlight) \in Seq(Procedures)
  BY <1>1, <1>2, HeadQueue
<1>4. c.n \in Nat /\ c.verb \in {"svcs", "incl", "char", "desc", "rd", "rdu", "wrr"}
  BY <1>3 DEF Procedures, Commands
<1> HIDE DEF c
<1>5. \E l \in Answers : l.n = c.n /\ output' = output \o <<l>>
  <2>1. CASE output' = output \o <<Success(c)>>
    <3>1. \E rsp \in {"find", "desc", "rd", "wr"} : Success(c) = Line(rsp, "", c.n)
      BY <1>4 DEF Success
    <3>2. PICK rsp \in {"find", "desc", "rd", "wr"} : Success(c) = Line(rsp, "", c.n)
      BY <3>1
    <3>3. rsp \in Kinds
      BY DEF Kinds
    <3>4. Line(rsp, "", c.n) \in Answers /\ Line(rsp, "", c.n).n = c.n
      BY <1>4, <3>3, AnswerSort
    <3> QED
      BY <2>1, <3>2, <3>4
  <2>2. ASSUME NEW code \in Failures(c), output' = output \o <<Err(code, c.n)>>
        PROVE  \E l \in Answers : l.n = c.n /\ output' = output \o <<l>>
    <3>1. code \in Codes
      BY <1>4, <2>2 DEF Failures, Codes
    <3> QED
      BY <1>4, <2>2, <3>1, ErrorSort
  <2> QED
    BY <1>1, <2>1, <2>2
<1>6. PICK l \in Answers : l.n = c.n /\ output' = output \o <<l>>
  BY <1>5
<1>7. output' \in Seq(Lines) /\ PipeAnswered(c.n) /\ (NotUp => NotUp')
  BY <1>1, <1>6, SaysAnswer
<1>8. Answered
  BY <1>1, <1>7, ProcedureAnswered DEF mgmt, c
<1>9. Tells
  BY <1>1, <1>7, SameConn
<1>10. Typed'
  BY <1>1, <1>2, <1>3, <1>7, TypedNext DEF Typed, mgmt
<1> QED
  BY <1>8, <1>9, <1>10 DEF Stepped

\* What the kernel sends, by its kind.
LEMMA MessageKinds ==
  /\ \A m \in Messages : m.kind = "reply" <=> m \in Replies
  /\ \A m \in Replies : m.cmd \in Commands /\ m.status \in {"success", "busy", "failed"}
  /\ \A on \in BOOLEAN : Discovering(on) \in Messages \ Replies
  /\ Found \in Messages \ Replies
BY DEF Messages, Replies, Discovering, Found

\* A reply of the kernel.
LEMMA StepMgmtReply ==
  ASSUME Sound, UNCHANGED client, MgmtReply
  PROVE  Stepped
<1> USE DEF Sound
<1> DEFINE r == Head(mgmtIn)
<1>1. /\ mgmtIn # <<>> /\ r.kind = "reply" /\ mgmtIn' = Tail(mgmtIn) /\ Kept
      /\ UNCHANGED <<alive, conn, mgmtOut, input>>
  BY DEF MgmtReply, client, Kept
<1>2. r \in Messages /\ Tail(mgmtIn) \in Seq(Messages)
  BY <1>1, HeadQueue DEF Typed
<1>3. r \in Replies /\ r.cmd \in Commands /\ r.status \in {"success", "busy", "failed"}
  BY <1>1, <1>2, MessageKinds
<1>4. r.cmd.n \in Nat /\ r.cmd.verb # "remote_oob"
  BY <1>3 DEF Commands, Verbs
<1>5. \/ \E code \in {"mgmterr", "busy", "success"} : Say(<<Mgmt(code, r.cmd.n)>>)
      \/ Say(<<Line("oob", "", r.cmd.n)>>)
  BY <1>3, <1>4 DEF MgmtReply
<1> HIDE DEF r
<1>6. \E l \in Answers : l.n = r.cmd.n /\ output' = output \o <<l>>
  <2>1. CASE Say(<<Line("oob", "", r.cmd.n)>>)
    BY <1>4, <2>1, AnswerSort DEF Say, Kinds
  <2>2. ASSUME NEW code \in {"mgmterr", "busy", "success"}, Say(<<Mgmt(code, r.cmd.n)>>)
        PROVE  \E l \in Answers : l.n = r.cmd.n /\ output' = output \o <<l>>
    <3>1. code \in Codes
      BY DEF Codes
    <3> QED
      BY <1>4, <2>2, <3>1, ErrorSort DEF Say
  <2> QED
    BY <1>5, <2>1, <2>2
<1>7. PICK l \in Answers : l.n = r.cmd.n /\ output' = output \o <<l>>
  BY <1>6
<1>8. output' \in Seq(Lines) /\ PipeAnswered(r.cmd.n) /\ (NotUp => NotUp')
  BY <1>1, <1>7, SaysAnswer
<1>9. Answered
  BY <1>1, <1>3, <1>8, ReplyAnswered DEF conn, r
<1>10. Tells
  BY <1>1, <1>8, SameConn DEF conn
<1>11. Typed'
  BY <1>1, <1>2, <1>8, TypedNext DEF Typed, conn
<1> QED
  BY <1>9, <1>10, <1>11 DEF Stepped

\* The kernel starts or ends a scan.
LEMMA StepMgmtScanning ==
  ASSUME Sound, UNCHANGED client, MgmtScanning
  PROVE  Stepped
<1> USE DEF Sound
<1> DEFINE s == IF Head(mgmtIn).on THEN "scan" ELSE "disc"
           l == Stat(s, 0)
<1>1. /\ mgmtIn # <<>> /\ Head(mgmtIn).kind = "discovering" /\ mgmtIn' = Tail(mgmtIn) /\ Kept
      /\ UNCHANGED <<alive, link, inFlight, late, mgmtOut, input>>
      /\ connState' = s /\ output' = output \o (<<l>> \o <<>>)
  BY DEF MgmtScanning, SetState, Say, client, Kept
<1>2. Head(mgmtIn) \in Messages /\ Tail(mgmtIn) \in Seq(Messages)
  BY <1>1, HeadQueue DEF Typed
<1>3. Head(mgmtIn) \notin Replies
  BY <1>1, <1>2, MessageKinds
<1>4. s \in States /\ s # "conn"
  BY DEF States
<1> HIDE DEF s
<1>5. /\ l \in Lines \ Answers /\ l.code = s /\ (~Scanner /\ s = "disc" => l \in Enders)
  BY <1>4, StatSort
<1>6. output' = output \o <<l>>
  BY <1>1, <1>5, Pair
<1> HIDE DEF l
<1>7. /\ output' \in Seq(Lines) /\ PipeQuiet /\ (NotUp => NotUp')
      /\ (~Scanner /\ s = "disc" => Over')
  BY <1>1, <1>4, <1>5, <1>6, SaysLoose
<1>8. Quiet
  BY <1>1, <1>3, <1>7, EventTaken
<1>9. Tells
  BY <1>1, <1>7 DEF Tells
<1>10. Typed'
  BY <1>1, <1>2, <1>7, TypedNext DEF Typed
<1> QED
  BY <1>8, <1>9, <1>10 DEF Stepped

\* The kernel has found a device.
LEMMA StepDeviceFound ==
  ASSUME Sound, UNCHANGED client, MgmtDeviceFound
  PROVE  Stepped
<1> USE DEF Sound
<1> DEFINE l == Line("scan", "", 0)
<1>1. /\ mgmtIn # <<>> /\ Head(mgmtIn).kind = "found" /\ mgmtIn' = Tail(mgmtIn) /\ Kept
      /\ UNCHANGED <<alive, conn, mgmtOut, input>>
      /\ output' = output \o <<l>> \/ output' = output
  BY DEF MgmtDeviceFound, Say, Silent, client, Kept
<1>2. Head(mgmtIn) \in Messages /\ Tail(mgmtIn) \in Seq(Messages)
  BY <1>1, HeadQueue DEF Typed
<1>3. Head(mgmtIn) \notin Replies
  BY <1>1, <1>2, MessageKinds
<1>4. l \in Lines \ Answers /\ l.rsp = "scan"
  BY EventSort
<1> HIDE DEF l
<1>5. output' \in Seq(Lines) /\ PipeQuiet /\ (NotUp => NotUp')
  BY <1>1, <1>4, SaysLoose, SaysNothing
<1>6. Quiet
  BY <1>1, <1>3, <1>5, EventTaken DEF conn
<1>7. Tells
  BY <1>1, <1>5, SameConn DEF conn
<1>8. Typed'
  BY <1>1, <1>2, <1>5, TypedNext DEF Typed, conn
<1> QED
  BY <1>6, <1>7, <1>8 DEF Stepped

\* The kernel replies.
LEMMA StepKernelReplies ==
  ASSUME Sound, UNCHANGED client, KernelReplies
  PROVE  Stepped
<1> USE DEF Sound
<1> DEFINE e == Discovering(Head(mgmtOut).verb = "scan")
<1>1. /\ mgmtOut # <<>> /\ mgmtOut' = Tail(mgmtOut) /\ Kept
      /\ UNCHANGED <<alive, conn, input, output>>
      /\ \E status \in {"success", "busy", "failed"} :
           LET r == Reply(status)
           IN mgmtIn' = Append(mgmtIn, r) \/ mgmtIn' = mgmtIn \o <<r, e>> \/ mgmtIn' = mgmtIn \o <<e, r>>
  BY DEF KernelReplies, client, Kept
<1>2. PICK status \in {"success", "busy", "failed"} :
           LET r == Reply(status)
           IN mgmtIn' = Append(mgmtIn, r) \/ mgmtIn' = mgmtIn \o <<r, e>> \/ mgmtIn' = mgmtIn \o <<e, r>>
  BY <1>1
<1> DEFINE r == Reply(status)
<1>3. Head(mgmtOut) \in Commands
  BY <1>1, HeadQueue DEF Typed
<1>4. r \in Replies /\ r.cmd = Head(mgmtOut)
  BY <1>3 DEF Reply, Replies
<1>5. e \in Messages \ Replies
  BY MessageKinds
<1>6. mgmtIn' = Append(mgmtIn, r) \/ mgmtIn' = mgmtIn \o <<r, e>> \/ mgmtIn' = mgmtIn \o <<e, r>>
  BY <1>2
<1> HIDE DEF r, e
<1>7. output' \in Seq(Lines) /\ PipeQuiet /\ (NotUp => NotUp')
  BY <1>1, SaysNothing
<1>8. Quiet /\ mgmtIn' \in Seq(Messages) /\ mgmtOut' \in Seq(Commands)
  BY <1>1, <1>4, <1>5, <1>6, <1>7, ReplyCame DEF conn
<1>9. Tells
  BY <1>1, <1>7, SameConn DEF conn
<1>10. Typed'
  BY <1>1, <1>7, <1>8, TypedNext DEF Typed, conn
<1> QED
  BY <1>8, <1>9, <1>10 DEF Stepped

\* It sends an event.
LEMMA StepKernelEvent ==
  ASSUME Sound, UNCHANGED client, NEW e \in {Discovering(TRUE), Discovering(FALSE), Found},
         KernelEvent(e)
  PROVE  Stepped
<1> USE DEF Sound
<1>1. mgmtIn' = Append(mgmtIn, e) /\ UNCHANGED <<alive, conn, mgmtOut, input, output>> /\ Kept
  BY DEF KernelEvent, client, Kept
<1>2. e \in Messages \ Replies
  BY MessageKinds
<1>3. output' \in Seq(Lines) /\ PipeQuiet /\ (NotUp => NotUp')
  BY <1>1, SaysNothing
<1>4. Quiet /\ mgmtIn' \in Seq(Messages)
  BY <1>1, <1>2, <1>3, EventCame DEF conn
<1>5. Tells
  BY <1>1, <1>3, SameConn DEF conn
<1>6. Typed'
  BY <1>1, <1>3, <1>4, TypedNext DEF Typed, conn
<1> QED
  BY <1>4, <1>5, <1>6 DEF Stepped

\* Steps that take nothing.
LEMMA StepEvents ==
  ASSUME Sound, UNCHANGED client, LinkLost \/ Abort \/ EventsHandler \/ HciReport \/ HciScanEnds
  PROVE  Stepped
<1> USE DEF Sound
<1>1. /\ Kept /\ UNCHANGED <<input, inFlight, late, mgmtOut, mgmtIn>> /\ (alive' => alive)
  BY DEF LinkLost, Abort, EventsHandler, HciReport, HciScanEnds, mgmt, conn, client, Kept
<1>2. ASSUME output' \in Seq(Lines), PipeQuiet, Tells, link' = "none" \/ link' = link \/ ~Scanner
      PROVE  Stepped
  <2>1. Quiet
    BY <1>1, <1>2, NothingTaken DEF Pending
  <2>2. Typed'
    BY <1>1, <1>2, TypedNext DEF Typed
  <2> QED
    BY <1>2, <2>1, <2>2 DEF Stepped
<1>3. CASE LinkLost \/ Abort
  <2>1. /\ UNCHANGED <<connState, output>>
        /\ \/ link' = "lost" /\ link = "up"
           \/ link' = "none"
    BY <1>3 DEF LinkLost, Abort
  <2>2. output' \in Seq(Lines) /\ PipeQuiet /\ (NotUp => NotUp')
    BY <1>1, <2>1, SaysNothing
  <2>3. link = "up" => ~Scanner
    BY DEF Typed
  <2>4. Tells
    BY <1>1, <2>1, <2>2 DEF Tells
  <2> QED
    BY <1>2, <2>1, <2>2, <2>3, <2>4
<1>4. CASE EventsHandler \/ HciReport
  <2> DEFINE n == Line("ntfy", "", 0)
             s == Line("scan", "", 0)
  <2>1. /\ UNCHANGED <<connState, link>>
        /\ \/ link = "up" /\ output' = output \o <<n>>
           \/ output' = output \o <<s>>
    BY <1>4 DEF EventsHandler, HciReport, Say, conn
  <2>2. /\ link = "up" => n \in Lines \ Answers /\ n.rsp = "ntfy"
        /\ s \in Lines \ Answers /\ s.rsp = "scan"
    BY EventSort DEF Typed
  <2> HIDE DEF n, s
  <2>3. output' \in Seq(Lines) /\ PipeQuiet /\ (NotUp => NotUp')
    BY <1>1, <2>1, <2>2, SaysLoose
  <2>4. Tells
    BY <1>1, <2>1, <2>3, SameConn
  <2> QED
    BY <1>2, <2>1, <2>3, <2>4
<1>5. CASE HciScanEnds
  <2> DEFINE l == Stat("disc", 0)
  <2>1. /\ UNCHANGED link
        /\ \/ connState' = "disc" /\ output' = output \o (<<l>> \o <<>>)
           \/ UNCHANGED <<connState, output>>
    BY <1>5 DEF HciScanEnds, SetState, Say, Silent
  <2>2. l \in Lines \ Answers /\ l.code = "disc" /\ (~Scanner => l \in Enders)
    BY StatSort DEF States
  <2>3. \/ connState' = "disc" /\ output' = output \o <<l>>
        \/ UNCHANGED <<connState, output>>
    BY <2>1, <2>2, Pair
  <2> HIDE DEF l
  <2>4. /\ output' \in Seq(Lines) /\ PipeQuiet /\ (NotUp => NotUp')
        /\ \/ connState' = "disc" /\ (~Scanner => Over')
           \/ UNCHANGED connState
    BY <1>1, <2>2, <2>3, SaysLoose, SaysNothing
  <2>5. Tells
    BY <1>1, <2>1, <2>4 DEF Tells
  <2> QED
    BY <1>2, <2>1, <2>4, <2>5
<1> QED
  BY <1>3, <1>4, <1>5

\* Every step of the helper and of what is around it: a line is added only for a command that
\* was asked, and the end of a connection is told.
LEMMA HelperSteps ==
  ASSUME Sound, UNCHANGED client, Work \/ Environment \/ ScanEvents
  PROVE  Stepped
<1>1. CASE ScanEvents
  BY <1>1, StepEvents, StepKernelEvent DEF ScanEvents
<1>2. CASE Environment
  BY <1>2, StepEvents DEF Environment
<1>3. CASE Work
  BY <1>3, StepCommandLine, StepConnected, StepConnectFailed, StepWatcher, StepLate, StepGattDone,
     StepMgmtReply, StepMgmtScanning, StepDeviceFound, StepKernelReplies DEF Work
<1> QED
  BY <1>1, <1>2, <1>3

----------------------------------------------------------------------------
(* The invariant *)

\* The object uses its helper.
Using == obj /\ ~stopFlag

\* It opens the connection.
AtOpening ==
  script # <<>> /\ (Opens(Head(script)) \/ Head(script) = Connecting \/ Head(script) = ForReason)

\* It goes on reading, and it waits for an answer.
Reading == Using /\ (script = <<>> \/ (Head(script).do # "quit" /\ Head(script) # ForReason))
Expecting == script # <<>> /\ Head(script) \in Awaited

\* An answer is on its way only while it is waited for.
Outstanding == Reading => Idle \/ (Expecting /\ Busy)
\* Nothing has been asked of a helper when its connection is opened.
Opened == Using /\ AtOpening => NoneAsked /\ Unasked
Phases ==
  phase # "test" =>
    Using /\ script # <<>> /\ Head(script).do = "wait" /\ (phase = "poll" => Head(script).timed)
\* A helper that is in use is kept only for OOB data.
Starting ==
  Using /\ script # <<>> /\ Head(script) = Start => Head(Tail(script)) = Write("local_oob")
\* A socket whose state is that of no connection: its end has been told.
Linked == Reading /\ ~Scanner /\ link # "none" /\ connState = "disc" => Over
\* So has any other end, but before a connection has been made.
Told ==
  /\ Reading /\ alive /\ connState = "disc"
  /\ "connect" \in use /\ "local_oob" \notin use
  /\ script = <<>> \/ Head(script) # Start
  => Over \/ (AtOpening /\ NotUp)
\* A helper that has been told to end is waited for.
Stopping == obj /\ stopFlag => ~alive \/ (script # <<>> /\ Head(script).do = "reap")
GivenOwn == given.n \in {0, given.to}

Core ==
  /\ Sound /\ Shaped(script)
  /\ Outstanding /\ Opened /\ Phases /\ Starting /\ Linked /\ Told /\ Stopping /\ GivenOwn

\* The same, without the number of the last command.
LEMMA SameUse ==
  ASSUME use' = use
  PROVE  /\ Scanner' = Scanner /\ Lines' = Lines /\ Commands' = Commands /\ Procedures' = Procedures
         /\ Messages' = Messages /\ Replies' = Replies
         /\ Answers' = Answers /\ Enders' = Enders /\ Asking' = Asking
         /\ Awaited' = Awaited /\ Steps' = Steps /\ Unambiguous' = Unambiguous
<1>1. Scanner' = Scanner /\ Verbs' = Verbs
  BY DEF Scanner, Verbs
<1>2. Lines' = Lines /\ Commands' = Commands
  BY <1>1 DEF Lines, Commands
<1>3. Procedures' = Procedures /\ Replies' = Replies
  BY <1>2 DEF Procedures, Replies
<1>4. Answers' = Answers /\ Enders' = Enders /\ Asking' = Asking /\ Messages' = Messages
  BY <1>1, <1>2, <1>3 DEF Answers, Enders, Asking, Messages
<1>5. Awaited' = Awaited
  BY <1>1 DEF Awaited
<1>6. Waits' = Waits /\ Writes' = Writes
  BY <1>1, <1>5 DEF Waits, Writes
<1>7. Steps' = Steps
  BY <1>1, <1>6 DEF Steps
<1> QED
  BY <1>1, <1>2, <1>3, <1>4, <1>5, <1>7 DEF Unambiguous

\* Whether a script is well-formed does not change while the object stays.
LEMMA ShapedNext ==
  ASSUME use' = use, Shaped(script')
  PROVE  Shaped(script)'
<1>1. Steps' = Steps /\ Awaited' = Awaited
  BY SameUse
<1>2. \A a, b : Fits(a, b)' <=> Fits(a, b)
  BY <1>1 DEF Fits
<1> QED
  BY <1>1 DEF Shaped, Fits, MayEnd

\* Nothing happens to the pipes.
LEMMA SameWay ==
  ASSUME Sound, UNCHANGED <<helper, buf, use, sent>>
  PROVE  /\ Sound' /\ Over' = Over /\ Idle' = Idle /\ Busy' = Busy
         /\ NoneAsked' = NoneAsked /\ Unasked' = Unasked /\ NotUp' = NotUp
<1>1. UNCHANGED <<connState, link, inFlight, late, mgmtOut, mgmtIn, input, output, alive>>
  BY DEF helper, conn, mgmt
<1>2. Pipe' = Pipe
  BY <1>1 DEF Pipe
<1>3. NoInput' = NoInput /\ NoReply' = NoReply
  BY <1>1, SameSets DEF NoInput, NoReply
<1>4. NoneAsked' = NoneAsked /\ OneAsked' = OneAsked
  BY <1>1, <1>3, SameSets DEF NoneAsked, OneAsked, Alone
<1>5. Over' = Over /\ FreePipe' = FreePipe /\ OnePipe' = OnePipe /\ Unasked' = Unasked /\ NotUp' = NotUp
  BY <1>2, SameSets DEF Over, FreePipe, OnePipe, Unasked, NotUp
<1>6. Idle' = Idle /\ Busy' = Busy
  BY <1>4, <1>5 DEF Idle, Busy
<1>7. Typed'
  BY <1>1, SameSets DEF Typed, Sound
<1>8. Sound'
  BY <1>1, <1>7, SameUse DEF Sound
<1> QED
  BY <1>4, <1>5, <1>6, <1>8

\* The helper's steps.
LEMMA HelperKeeps ==
  ASSUME Core, UNCHANGED client, connState' \in States, Stepped
  PROVE  Core'
<1>1. use' = use /\ sent' = sent /\ script' = script /\ obj' = obj /\ stopFlag' = stopFlag
      /\ phase' = phase /\ given' = given
  BY DEF client
<1>2. Sound'
  BY <1>1, SameUse DEF Core, Sound, Stepped
<1>3. Shaped(script)'
  BY <1>1, ShapedNext DEF Core
<1>4. /\ Using' = Using /\ AtOpening' = AtOpening /\ Reading' = Reading
      /\ Expecting' = Expecting /\ Scanner' = Scanner
  BY <1>1, SameUse DEF Using, AtOpening, Reading, Expecting
<1>5. /\ Idle => Idle'
      /\ Idle \/ Busy => Idle' \/ Busy'
      /\ NoneAsked /\ Unasked => NoneAsked' /\ Unasked'
  BY Flow DEF Stepped
<1>6. Outstanding' /\ Opened'
  BY <1>4, <1>5 DEF Core, Outstanding, Opened
<1>7. Over => Over'
  BY DEF Stepped, Quiet, Answered
<1>8. Linked'
  BY <1>4, <1>7 DEF Core, Linked, Stepped, Tells
<1>9. Told'
  <2> SUFFICES ASSUME /\ Reading' /\ alive' /\ connState' = "disc"
                      /\ "connect" \in use /\ "local_oob" \notin use
                      /\ script = <<>> \/ Head(script) # Start
               PROVE  Over' \/ (AtOpening' /\ NotUp')
    BY <1>1 DEF Told
  <2>1. ~Scanner
    BY CallsApart DEF Core, Sound, Calls
  <2>2. alive /\ (connState = "disc" \/ Over')
    BY <2>1 DEF Stepped, Tells
  <2>3. connState = "disc" => Over \/ (AtOpening /\ NotUp)
    BY <1>4, <2>2 DEF Core, Told
  <2>4. NotUp => NotUp'
    BY <2>1 DEF Stepped, Tells
  <2> QED
    BY <1>4, <1>7, <2>2, <2>3, <2>4
<1>10. Stopping'
  BY <1>1 DEF Core, Stopping, Stepped, Tells
<1>11. Phases' /\ Starting' /\ GivenOwn'
  BY <1>1, <1>4 DEF Core, Phases, Starting, GivenOwn
<1> QED
  BY <1>2, <1>3, <1>6, <1>8, <1>9, <1>10, <1>11 DEF Core

\* An object that does not use its helper.
LEMMA UnusedKeeps ==
  ASSUME Sound', Shaped(script)', phase' = "test", Stopping', GivenOwn', ~Using'
  PROVE  Core'
<1>1. ~Reading'
  BY DEF Reading
<1> QED
  BY <1>1 DEF Core, Outstanding, Opened, Phases, Starting, Linked, Told

\* A loose script asks for nothing, and opens nothing.
LEMMA LooseScript ==
  ASSUME use' = use, Loose(script')
  PROVE  /\ ~Expecting' /\ ~AtOpening'
         /\ script' # <<>> => Head(script') # Start /\ Head(script').do # "reap" /\ Head(script') # ForReason
BY SameUse DEF Loose, Expecting, AtOpening

\* The script goes on, and nothing else happens.
LEMMA LooseKeeps ==
  ASSUME Core, UNCHANGED <<helper, obj, stopFlag, buf, use, sent, given>>, phase' = "test",
         Shaped(script'), Loose(script'),
         script # <<>>, Head(script).do \notin {"quit", "reap"}, Head(script) # Start,
         Using /\ (script' = <<>> \/ Head(script').do # "quit") =>
           Head(script) \notin Awaited \cup {Connecting, ForReason} /\ ~Opens(Head(script))
  PROVE  Core'
<1>1. /\ Sound' /\ Over' = Over /\ Idle' = Idle /\ Busy' = Busy
      /\ NoneAsked' = NoneAsked /\ Unasked' = Unasked /\ NotUp' = NotUp
  BY SameWay DEF Core
<1>2. /\ ~Expecting' /\ ~AtOpening'
      /\ script' # <<>> => Head(script') # Start /\ Head(script').do # "reap"
  BY LooseScript
<1>3. /\ Using' = Using /\ Scanner' = Scanner /\ alive' = alive /\ connState' = connState /\ link' = link
  BY SameUse DEF Using, helper, conn
<1>4. Reading' => Reading /\ ~Expecting /\ ~AtOpening
  BY <1>3 DEF Reading, Expecting, AtOpening
<1>5. Outstanding' /\ Opened'
  BY <1>1, <1>2, <1>4 DEF Core, Outstanding, Opened
<1>6. Phases' /\ Starting' /\ GivenOwn'
  BY <1>2 DEF Core, Phases, Starting, GivenOwn
<1>7. Linked' /\ Told'
  BY <1>1, <1>2, <1>3, <1>4 DEF Core, Linked, Told
<1>8. Stopping'
  BY <1>3 DEF Core, Stopping
<1>9. Shaped(script)'
  BY ShapedNext
<1> QED
  BY <1>1, <1>5, <1>6, <1>7, <1>8, <1>9 DEF Core

\* _waitResp goes on to the pipe.
LEMMA PhaseKeeps ==
  ASSUME Core, UNCHANGED <<helper, obj, stopFlag, buf, use, sent, given, script>>,
         script # <<>>, Head(script).do = "wait", Using, phase' \in {"poll", "read"},
         phase' = "poll" => Head(script).timed
  PROVE  Core'
<1>1. /\ Sound' /\ Over' = Over /\ Idle' = Idle /\ Busy' = Busy
      /\ NoneAsked' = NoneAsked /\ Unasked' = Unasked /\ NotUp' = NotUp
  BY SameWay DEF Core
<1>2. /\ Using' = Using /\ Scanner' = Scanner /\ alive' = alive /\ connState' = connState /\ link' = link
  BY SameUse DEF Using, helper, conn
<1>3. /\ AtOpening' = AtOpening /\ Reading' = Reading /\ Expecting' = Expecting
  BY <1>2, SameUse DEF AtOpening, Reading, Expecting
<1>4. Outstanding' /\ Opened' /\ Linked' /\ Told'
  BY <1>1, <1>2, <1>3 DEF Core, Outstanding, Opened, Linked, Told
<1>5. Phases' /\ Starting' /\ GivenOwn' /\ Stopping'
  BY <1>2 DEF Core, Phases, Starting, GivenOwn, Stopping
<1>6. Shaped(script)'
  BY ShapedNext DEF Core
<1> QED
  BY <1>1, <1>4, <1>5, <1>6 DEF Core

----------------------------------------------------------------------------
(* The steps of the caller *)

\* A call of user code.
LEMMA CallKeeps ==
  ASSUME Core, NEW call \in Calls, Call(call)
  PROVE  Core'
<1>1. /\ script = <<>> /\ script' = Script(call) /\ phase' = "test"
      /\ UNCHANGED <<helper, obj, stopFlag, buf, use, sent, given>>
      /\ call = "local_oob" \/ (call \in Opening <=> ~obj \/ stopFlag)
  BY DEF Call, Goes
<1> DEFINE s == Script(call)
<1>2. /\ Shaped(s) /\ s # <<>> /\ (Loose(s) \/ Head(s) = Start)
      /\ Head(s) = Start => call \in Opening \cup {"local_oob"}
      /\ call = "local_oob" => Head(Tail(s)) = Write("local_oob")
  BY ScriptShaped DEF Core, Sound
<1> HIDE DEF s
<1>3. /\ Sound' /\ Over' = Over /\ Idle' = Idle /\ Busy' = Busy
      /\ NoneAsked' = NoneAsked /\ Unasked' = Unasked /\ NotUp' = NotUp
  BY <1>1, SameWay DEF Core
<1>4. /\ Using' = Using /\ Scanner' = Scanner /\ alive' = alive /\ connState' = connState /\ link' = link
  BY <1>1, SameUse DEF Using, helper, conn
<1>5. Reading' => Reading /\ ~Expecting /\ ~AtOpening
  BY <1>1, <1>4 DEF Reading, Expecting, AtOpening
<1>6. script' = s /\ script' # <<>>
  BY <1>1, <1>2 DEF s
<1>7. ~AtOpening'
  <2>1. CASE Loose(s)
    BY <1>1, <1>6, <2>1, LooseScript
  <2>2. CASE Head(s) = Start
    BY <1>6, <2>2, StepKinds, WaitKinds DEF AtOpening
  <2> QED
    BY <1>2, <2>1, <2>2
<1>8. Outstanding' /\ Opened' /\ Phases'
  BY <1>1, <1>3, <1>5, <1>7 DEF Core, Outstanding, Opened, Phases
<1>9. Starting'
  BY <1>1, <1>2, <1>4, <1>6 DEF Starting, Using, Opening
<1>10. Linked' /\ Told'
  BY <1>1, <1>3, <1>4, <1>5 DEF Core, Linked, Told
<1>11. Stopping' /\ GivenOwn'
  BY <1>1, <1>4 DEF Core, Stopping, GivenOwn
<1>12. Shaped(script)'
  BY <1>1, <1>2, <1>6, ShapedNext
<1> QED
  BY <1>3, <1>8, <1>9, <1>10, <1>11, <1>12 DEF Core

\* The constructor returns.
LEMMA MadeKeeps ==
  ASSUME Core, ConstructorReturns
  PROVE  Core'
<1>1. /\ script # <<>> /\ Head(script).do = "made" /\ script' = Rest /\ phase' = "test"
      /\ UNCHANGED <<helper, obj, stopFlag, buf, use, sent, given>>
  BY DEF ConstructorReturns, Doing, Goes
<1>2. Head(script) \in Steps
  BY <1>1, ShapedTail DEF Core
<1>3. /\ Head(script) # Start /\ Head(script).do \notin {"quit", "reap"}
      /\ Head(script) \notin Awaited \cup {Connecting, ForReason}
      /\ ~Asks(Head(script)) /\ ~Opens(Head(script))
  <2> DEFINE h == Head(script)
  <2>1. h.do = "made"
    BY <1>1
  <2> HIDE DEF h
  <2>2. h # Start /\ h \notin Awaited \cup {Connecting, ForReason}
    BY <2>1, StepKinds, WaitKinds
  <2>3. ~Asks(h) /\ h # Write("conn")
    BY <2>1, StepKinds DEF Asks
  <2> QED
    BY <2>1, <2>2, <2>3 DEF h, Opens
<1>4. Shaped(script') /\ Loose(script')
  BY <1>1, <1>3, RestLoose DEF Core, Rest
<1> QED
  BY <1>1, <1>3, <1>4, LooseKeeps

\* A wait that ends without a line, after which the script is loose.
LEMMA WaitEndsKeeps ==
  ASSUME Core, script # <<>>, Head(script).do = "wait", phase' = "test",
         UNCHANGED <<helper, obj, stopFlag, buf, use, sent, given>>,
         Shaped(script'), Loose(script'),
         ~Using \/ wait \in {ForEvent, Processing}
                \/ (wait = ForReason /\ script' # <<>> /\ Head(script').do = "quit")
  PROVE  Core'
<1>1. Head(script).do \notin {"quit", "reap"} /\ Head(script) # Start /\ ~Opens(Head(script))
  BY StepKinds
<1>2. Using /\ (script' = <<>> \/ Head(script').do # "quit") =>
           Head(script) \notin Awaited \cup {Connecting, ForReason}
  BY WaitKinds DEF wait
<1> QED
  BY <1>1, <1>2, LooseKeeps

\* The time of Scanner.process is over.
LEMMA ProcessEndsKeeps ==
  ASSUME Core, ProcessEnds
  PROVE  Core'
<1>1. /\ script # <<>> /\ Head(script).do = "wait" /\ wait.then = "process" /\ script' = Rest
      /\ phase' = "test" /\ UNCHANGED <<helper, obj, stopFlag, buf, use, sent, given>>
  BY DEF ProcessEnds, Doing, Goes
<1>2. Waiting
  BY <1>1 DEF Core, Waiting
<1>3. wait \in Waits /\ Shaped(Rest) /\ Loose(Rest)
  BY <1>2, WaitRest
<1>4. wait = Processing
  BY <1>1, <1>3, WaitThens
<1> QED
  BY <1>1, <1>3, <1>4, WaitEndsKeeps

\* _waitResp tests whether there is a helper.
LEMMA WaitTestKeeps ==
  ASSUME Core, WaitTest
  PROVE  Core'
<1>1. /\ script # <<>> /\ Head(script).do = "wait"
      /\ UNCHANGED <<helper, obj, stopFlag, buf, use, sent, given>>
  BY DEF WaitTest, Doing
<1>2. CASE ~Using
  <2>1. script' = AfterNone(wait, Rest) /\ phase' = "test"
    BY <1>2 DEF WaitTest, Goes, Using
  <2>2. Shaped(script') /\ Loose(script')
    BY <1>1, <2>1, NoneShaped DEF Core, Waiting
  <2> QED
    BY <1>1, <1>2, <2>1, <2>2, WaitEndsKeeps
<1>3. CASE Using
  <2>1. phase' = (IF wait.timed THEN "poll" ELSE "read") /\ UNCHANGED script
    BY <1>3 DEF WaitTest, Using
  <2>2. phase' \in {"poll", "read"} /\ (phase' = "poll" => Head(script).timed)
    BY <2>1 DEF wait
  <2> QED
    BY <1>1, <1>3, <2>1, <2>2, PhaseKeeps
<1> QED
  BY <1>2, <1>3

\* It polls the pipe.
LEMMA WaitPollKeeps ==
  ASSUME Core, WaitPoll
  PROVE  Core'
<1>1. /\ script # <<>> /\ Head(script).do = "wait" /\ phase = "poll"
      /\ UNCHANGED <<helper, obj, stopFlag, buf, use, sent, given>>
  BY DEF WaitPoll, Doing
<1>2. Using /\ Head(script).timed
  BY <1>1 DEF Core, Phases
<1>3. CASE Pollable
  <2>1. phase' = "read" /\ UNCHANGED script
    BY <1>3 DEF WaitPoll
  <2> QED
    BY <1>1, <1>2, <2>1, PhaseKeeps
<1>4. CASE ~Pollable
  <2>1. script' = AfterNone(wait, Rest) /\ phase' = "test"
    BY <1>4 DEF WaitPoll, Goes
  <2>2. Waiting
    BY <1>1 DEF Core, Waiting
  <2>3. Shaped(script') /\ Loose(script')
    BY <2>1, <2>2, NoneShaped
  <2>4. wait \in {ForEvent, Processing, ForReason}
    BY <1>2, <2>2, WaitRest, WaitThens DEF wait
  <2>5. wait = ForReason => script' = Rest /\ Rest # <<>> /\ Head(Rest).do = "quit"
    BY <2>1, <2>2, WaitRest, WaitFacts DEF AfterNone
  <2> QED
    BY <1>1, <2>1, <2>3, <2>4, <2>5, WaitEndsKeeps
<1> QED
  BY <1>3, <1>4

\* _startHelper: nothing is on its way from a process that starts.
LEMMA StartKeeps ==
  ASSUME Core, StartHelper
  PROVE  Core'
<1>1. /\ script # <<>> /\ Head(script).do = "start" /\ script' = Rest /\ phase' = "test"
      /\ UNCHANGED <<use, sent, given>>
  BY DEF StartHelper, Doing, Goes
<1>2. /\ Head(script) \in Steps /\ Shaped(Rest)
      /\ Rest # <<>> => Fits(Head(script), Head(Rest))
      /\ Rest = <<>> => MayEnd(Head(script))
  BY <1>1, ShapedTail DEF Core, Rest
<1>3. Head(script) = Start
  BY <1>1, <1>2, StepKinds
<1>4. /\ Rest # <<>> /\ Head(Rest) \in {Write("conn"), Write("local_oob"), Write("le")}
      /\ Head(Rest) \in Steps
  BY <1>2, <1>3, ShapedTail DEF MayEnd, Fits
<1> DEFINE h == Head(Rest)
<1>5. /\ script' # <<>> /\ Head(script') = h /\ h # Start /\ h.do = "write" /\ h # ForReason
      /\ h # Connecting /\ h \notin Awaited
      /\ h \in {Write("conn"), Write("local_oob"), Write("le")} /\ h \in Steps
  <2> HIDE DEF h
  <2>1. h \in {Write("conn"), Write("local_oob"), Write("le")} /\ h \in Steps
    BY <1>4 DEF h
  <2>2. script' # <<>> /\ Head(script') = h
    BY <1>1, <1>4 DEF h
  <2> QED
    BY <2>1, <2>2, StepKinds, WaitKinds
<1> HIDE DEF h
<1>6. Shaped(script)'
  BY <1>1, <1>2, ShapedNext
<1>7. ~Expecting'
  BY <1>1, <1>5, SameUse DEF Expecting
<1>8. Phases' /\ Starting' /\ GivenOwn'
  BY <1>1, <1>5 DEF Core, Phases, Starting, GivenOwn
<1>9. CASE obj
  <2>1. UNCHANGED <<helper, obj, stopFlag, buf>>
    BY <1>9 DEF StartHelper
  <2>2. /\ Sound' /\ Over' = Over /\ Idle' = Idle /\ Busy' = Busy
        /\ NoneAsked' = NoneAsked /\ Unasked' = Unasked /\ NotUp' = NotUp
    BY <1>1, <2>1, SameWay DEF Core
  <2>3. /\ Using' = Using /\ Scanner' = Scanner /\ alive' = alive /\ connState' = connState
        /\ link' = link
    BY <1>1, <2>1, SameUse DEF Using, helper, conn
  <2>4. Stopping'
    <3>1. Head(script).do # "reap"
      BY <1>1
    <3> QED
      BY <2>1, <2>3, <3>1 DEF Core, Stopping
  <2>5. CASE ~Using
    BY <1>1, <1>6, <1>8, <2>2, <2>3, <2>4, <2>5, UnusedKeeps
  <2>6. CASE Using
    <3>1. Rest = Tail(script) /\ h = Write("local_oob")
      BY <1>1, <1>3, <2>6 DEF Core, Starting, Rest, h
    <3>2. Reading /\ ~Expecting
      <4>1. Start # ForReason /\ Start \notin Awaited
        BY StepKinds, WaitKinds
      <4> QED
        BY <1>1, <1>3, <2>6, <4>1 DEF Reading, Expecting
    <3>3. ~AtOpening'
      BY <1>5, <3>1, StepKinds DEF AtOpening
    <3>4. Outstanding' /\ Opened'
      BY <2>2, <3>2, <3>3 DEF Core, Outstanding, Opened
    <3>5. Linked'
      BY <2>2, <2>3, <3>2 DEF Core, Linked
    <3>6. ~Scanner => "local_oob" \in use
      <4>1. h \in Writes
        BY <1>5, StepKinds
      <4>2. "local_oob" \in Verbs
        BY <3>1, <4>1 DEF Writes, Write
      <4> QED
        BY <4>2 DEF Verbs
    <3>7. ~("connect" \in use /\ Scanner)
      BY CallsApart DEF Core, Sound, Calls
    <3>8. Told'
      BY <1>1, <3>6, <3>7 DEF Told
    <3> QED
      BY <1>6, <1>8, <2>2, <2>4, <3>4, <3>5, <3>8 DEF Core
  <2> QED
    BY <2>5, <2>6
<1>10. CASE ~obj
  <2>1. /\ obj' = TRUE /\ stopFlag' = FALSE /\ buf' = <<>>
        /\ alive' = TRUE /\ connState' = "disc" /\ link' = "none"
        /\ inFlight' = <<>> /\ late' = <<>> /\ mgmtOut' = <<>> /\ mgmtIn' = <<>>
        /\ input' = <<>> /\ output' = <<>>
    BY <1>10 DEF StartHelper, Launch
  <2>2. Pipe' = <<>>
    BY <2>1, Pair, EmptySeq, ConcatEmptySeq DEF Pipe
  <2>3. /\ ~Over' /\ FreePipe' /\ NoInput' /\ NoReply'
    BY <2>1, <2>2, EmptyPipe DEF Over, FreePipe, NoInput, NoReply
  <2>4. NoneAsked' /\ Idle'
    BY <2>1, <2>3 DEF NoneAsked, Idle
  <2>5. Unasked' /\ NotUp'
    BY <2>2 DEF Unasked, NotUp
  <2>6. Typed'
    BY <2>1, EmptySeq DEF Typed
  <2>7. Sound'
    BY <1>1, <2>1, <2>6, SameUse DEF Core, Sound, States
  <2>8. Outstanding' /\ Opened' /\ Linked' /\ Stopping'
    BY <2>1, <2>4, <2>5 DEF Outstanding, Opened, Linked, Stopping
  <2>9. Told'
    <3>1. CASE h = Write("conn")
      BY <1>5, <2>5, <3>1 DEF Told, AtOpening, Opens
    <3>2. CASE h # Write("conn")
      <4>1. h \in Writes
        BY <1>5, StepKinds
      <4>2. "local_oob" \in Verbs \/ "le" \in Verbs
        BY <1>5, <3>2, <4>1 DEF Writes, Write
      <4>3. "local_oob" \in use \/ Scanner
        BY <4>2 DEF Verbs
      <4>4. ~("connect" \in use /\ Scanner)
        BY CallsApart DEF Core, Sound, Calls
      <4> QED
        BY <1>1, <4>3, <4>4 DEF Told
    <3> QED
      BY <3>1, <3>2
  <2> QED
    BY <1>6, <1>8, <2>7, <2>8, <2>9 DEF Core
<1> QED
  BY <1>9, <1>10

----------------------------------------------------------------------------
(* The steps of _stopHelper *)

\* The first half of _stopHelper.
LEMMA QuitKeeps ==
  ASSUME Core, StopQuit
  PROVE  Core'
<1>1. /\ script # <<>> /\ Head(script).do = "quit" /\ phase' = "test"
      /\ UNCHANGED <<conn, mgmt, output, alive, obj, buf, use, sent, given>>
  BY DEF StopQuit, Doing, Goes
<1>2. /\ Head(script) \in Steps /\ Shaped(Rest)
      /\ Rest # <<>> => Fits(Head(script), Head(Rest))
      /\ Rest = <<>> => MayEnd(Head(script))
  BY <1>1, ShapedTail DEF Core, Rest
<1>3. Rest # <<>> /\ Head(Rest).do = "reap"
  BY <1>1, <1>2 DEF MayEnd, Fits
<1>4. Shaped(Tail(Rest))
  BY <1>2, <1>3, ShapedTail
<1>5. GivenOwn'
  BY <1>1 DEF Core, GivenOwn
<1>6. UNCHANGED input => Sound'
  BY <1>1, SameSets, SameUse DEF Core, Sound, Typed, conn, mgmt
<1>7. CASE ~obj \/ stopFlag
  <2>1. script' = Tail(Rest) /\ UNCHANGED <<stopFlag, input>>
    BY <1>7 DEF StopQuit, Goes
  <2>2. Stopping'
    <3>1. Head(script).do # "reap"
      BY <1>1
    <3> QED
      BY <1>1, <2>1, <3>1 DEF Core, Stopping
  <2>3. Shaped(script)'
    BY <1>1, <1>4, <2>1, ShapedNext
  <2> QED
    BY <1>1, <1>5, <1>6, <1>7, <2>1, <2>2, <2>3, UnusedKeeps DEF Using
<1>8. CASE obj /\ ~stopFlag /\ alive
  <2>1. /\ stopFlag' = TRUE /\ script' = Rest
        /\ input' = Append(input, [verb |-> "quit", n |-> sent, ok |-> TRUE])
    BY <1>8 DEF StopQuit, Goes
  <2>2. input' \in Seq(Commands)
    BY <2>1, AppendProperties DEF Core, Sound, Typed, Commands
  <2>3. Sound'
    BY <1>1, <2>2, SameSets, SameUse DEF Core, Sound, Typed, conn, mgmt
  <2>4. Stopping'
    BY <1>3, <2>1 DEF Stopping
  <2>5. Shaped(script)'
    BY <1>1, <1>2, <2>1, ShapedNext
  <2> QED
    BY <1>1, <1>5, <2>1, <2>3, <2>4, <2>5, UnusedKeeps DEF Using
<1>9. CASE obj /\ ~stopFlag /\ ~alive
  <2>1. stopFlag' = TRUE /\ script' = <<>> /\ UNCHANGED input
    BY <1>9 DEF StopQuit, Goes
  <2>2. Stopping'
    BY <1>1, <1>9 DEF Stopping
  <2>3. Shaped(script)'
    BY <1>1, <2>1, ShapedEmpty, ShapedNext
  <2> QED
    BY <1>1, <1>5, <1>6, <2>1, <2>2, <2>3, UnusedKeeps DEF Using
<1> QED
  BY <1>7, <1>8, <1>9

\* The second.
LEMMA ReapKeeps ==
  ASSUME Core, StopReap
  PROVE  Core'
<1>1. /\ script # <<>> /\ Head(script).do = "reap" /\ script' = Rest /\ phase' = "test"
      /\ obj' = FALSE /\ UNCHANGED <<helper, stopFlag, buf, use, sent, given>>
  BY DEF StopReap, Doing, Goes
<1>2. Shaped(script)'
  BY <1>1, ShapedTail, ShapedNext DEF Core, Rest
<1>3. Sound'
  BY <1>1, SameWay DEF Core
<1>4. Stopping' /\ GivenOwn' /\ ~Using'
  BY <1>1 DEF Core, Stopping, GivenOwn, Using
<1> QED
  BY <1>1, <1>2, <1>3, <1>4, UnusedKeeps

\* A command line is written: what is on its way.
LEMMA Written ==
  ASSUME Sound, Idle, use' = use, sent' = sent + 1, UNCHANGED <<conn, mgmt, output, buf>>,
         NEW c \in Commands, c.n = sent', input' = Append(input, c)
  PROVE  /\ Sound' /\ Over' = Over /\ Unasked' = Unasked /\ NotUp' = NotUp
         /\ c \in Asking => Idle' \/ Busy'
         /\ c \notin Asking => Idle' /\ (NoneAsked => NoneAsked')
<1>1. UNCHANGED <<connState, link, inFlight, late, mgmtOut, mgmtIn, output>>
  BY DEF conn, mgmt
<1>2. Pipe' = Pipe
  BY <1>1 DEF Pipe
<1>3. /\ Over' = Over /\ FreePipe' = FreePipe /\ NoReply' = NoReply /\ Unasked' = Unasked
      /\ NotUp' = NotUp
  BY <1>1, <1>2, SameUse DEF Over, FreePipe, NoReply, Unasked, NotUp
<1>4. input \in Seq(Commands)
  BY DEF Sound, Typed
<1>5. Sound'
  <2>1. input' \in Seq(Commands)
    BY <1>4, AppendProperties
  <2>2. Typed'
    BY <1>1, <2>1, SameUse DEF Sound, Typed
  <2> QED
    BY <1>1, <2>2, SameUse DEF Sound
<1>6. ASSUME c \notin Asking
      PROVE  NoInput => NoInput'
  <2>1. NoInput => Free(Append(input, c), Asking, {})
    BY <1>4, <1>6, PipeAppend, SetsApart DEF NoInput
  <2> QED
    BY <2>1, SameUse DEF NoInput
<1>7. ASSUME c \in Asking, NoInput
      PROVE  One(input, Asking, OwnAsking, {})'
  <2>1. c \in OwnAsking' /\ OwnAsking' \subseteq Asking /\ Asking' = Asking
    BY <1>7, SameUse DEF OwnAsking
  <2> DEFINE O == OwnAsking'
  <2> HIDE DEF O
  <2>2. c \in O /\ O \subseteq Asking
    BY <2>1 DEF O
  <2>3. ~Has(input, {})
    BY DEF Has
  <2>4. One(Append(input, c), Asking, O, {})
    BY <1>4, <1>7, <2>2, <2>3, PipeAppend, SetsApart DEF NoInput
  <2> QED
    BY <2>1, <2>4 DEF O
<1>8. ASSUME c \in Asking
      PROVE  NoneAsked => OneAsked'
  BY <1>1, <1>3, <1>7, <1>8 DEF NoneAsked, OneAsked
<1>9. c \notin Asking => (NoneAsked => NoneAsked')
  BY <1>1, <1>3, <1>6 DEF NoneAsked
<1> QED
  BY <1>3, <1>5, <1>8, <1>9 DEF Idle, Busy

\* _writeCmd.
LEMMA WriteKeeps ==
  ASSUME Core, WriteCmd
  PROVE  Core'
<1>1. /\ script # <<>> /\ Head(script).do = "write" /\ phase' = "test"
      /\ UNCHANGED <<conn, mgmt, output, alive, obj, stopFlag, buf, use, given>>
  BY DEF WriteCmd, Doing, Goes
<1>2. /\ Head(script) \in Steps /\ Shaped(Rest)
      /\ Rest # <<>> => Fits(Head(script), Head(Rest))
      /\ Rest = <<>> => MayEnd(Head(script))
  BY <1>1, ShapedTail DEF Core, Rest
<1> DEFINE h == Head(script)
<1>3. /\ h \in Steps /\ h.do = "write" /\ h # Start /\ h \notin Awaited
      /\ h # Connecting /\ h # ForReason /\ h.do # "quit" /\ h.do # "reap" /\ h.do # "wait"
      /\ h \in Writes
  <2> HIDE DEF h
  <2>1. h \in Steps /\ h.do = "write"
    BY <1>1, <1>2 DEF h
  <2> QED
    BY <2>1, StepKinds, WaitKinds
<1>4. PICK v \in Verbs : h = Write(v)
  BY <1>3 DEF Writes
<1>5. h.verb = v
  BY <1>4 DEF Write
<1>6. Rest = <<>> => ~Asks(h) /\ ~Opens(h)
  BY <1>2 DEF MayEnd
<1>7. Rest # <<>> => /\ Asks(h) <=> Head(Rest) \in Awaited
                     /\ Opens(h) <=> Head(Rest) = Connecting
                     /\ ~Opens(Head(Rest)) /\ Head(Rest) \notin {ForReason, Start}
  BY <1>2, <1>3 DEF Fits
<1> HIDE DEF h
<1>8. Using => Reading /\ ~Expecting /\ Idle
  <2>1. Using => Reading /\ ~Expecting
    BY <1>1, <1>3 DEF Reading, Expecting, h
  <2> QED
    BY <2>1 DEF Core, Outstanding
<1>9. GivenOwn'
  BY <1>1 DEF Core, GivenOwn
<1>10. Using' = Using
  BY <1>1 DEF Using
<1>11. Stopping'
  <2>1. Stopping => (obj /\ stopFlag => ~alive)
    BY <1>3 DEF Stopping, h
  <2> QED
    BY <1>1, <2>1 DEF Core, Stopping
<1>12. CASE ~(obj /\ alive)
  <2>1. script' = <<>> /\ UNCHANGED <<input, sent>>
    BY <1>12 DEF WriteCmd, Goes
  <2>2. Shaped(script)'
    BY <1>1, <2>1, ShapedEmpty, ShapedNext
  <2>3. /\ Typed' /\ connState' = connState /\ link' = link
    BY <1>1, <2>1, SameSets DEF Core, Sound, Typed, conn, mgmt
  <2>4. Sound'
    BY <1>1, <2>1, <2>3, SameUse DEF Core, Sound
  <2>5. ~alive' \/ ~Using'
    BY <1>1, <1>12 DEF Using
  <2>6. CASE ~Using
    BY <1>1, <1>9, <1>10, <1>11, <2>2, <2>4, <2>6, UnusedKeeps
  <2>7. CASE Using
    <3>1. Pipe' = Pipe
      BY <1>1 DEF Pipe
    <3>2. Over' = Over /\ FreePipe' = FreePipe
      BY <1>1, <2>1, <3>1, SameUse DEF Over, FreePipe
    <3>3. NoneAsked' = NoneAsked
      BY <1>1, <2>1, SameUse DEF NoneAsked, NoInput, NoReply, conn, mgmt
    <3>4. Idle'
      BY <1>8, <2>7, <3>2, <3>3 DEF Idle
    <3>5. Linked'
      BY <1>1, <1>8, <2>3, <2>7, <3>2, SameUse DEF Core, Linked
    <3>6. Outstanding' /\ Opened' /\ Phases' /\ Starting' /\ Told'
      BY <1>1, <2>1, <2>5, <2>7, <1>10, <3>4 DEF Outstanding, Opened, Phases, Starting, Told, AtOpening
    <3> QED
      BY <1>9, <1>11, <2>2, <2>4, <3>5, <3>6 DEF Core
  <2> QED
    BY <2>6, <2>7
<1>13. CASE obj /\ alive
  <2>1. Using
    BY <1>3, <1>13 DEF Core, Stopping, Using, h
  <2>2. script' = Rest /\ sent' = sent + 1
    BY <1>13 DEF WriteCmd, Goes
  <2>3. PICK ok \in {TRUE, v \notin Argued} :
          input' = Append(input, [verb |-> v, n |-> sent', ok |-> ok])
    BY <1>5, <1>13 DEF WriteCmd, h
  <2> DEFINE c == [verb |-> v, n |-> sent', ok |-> ok]
  <2>4. c \in Commands /\ c.n = sent' /\ (c \in Asking <=> v \in Asked)
    <3>1. sent' \in Nat
      BY <2>2 DEF Core, Sound
    <3>2. c \in Commands /\ c.n = sent' /\ c.verb = v
      BY <3>1 DEF Commands
    <3> QED
      BY <3>2 DEF Asking
  <2>5. Asks(h) <=> v \in Asked
    BY <1>4, StepKinds
  <2>6. input' = Append(input, c)
    BY <2>3
  <2> HIDE DEF c
  <2>7. /\ Sound' /\ Over' = Over /\ Unasked' = Unasked /\ NotUp' = NotUp
        /\ Asks(h) => Idle' \/ Busy'
        /\ ~Asks(h) => Idle' /\ (NoneAsked => NoneAsked')
    BY <1>1, <1>8, <2>1, <2>2, <2>4, <2>5, <2>6, Written DEF Core
  <2>8. Shaped(script)'
    BY <1>1, <1>2, <2>2, ShapedNext
  <2>9. /\ Scanner' = Scanner /\ Awaited' = Awaited /\ connState' = connState /\ link' = link
    BY <1>1, SameUse DEF conn
  <2>10. AtOpening' => Opens(h) /\ Rest # <<>>
    BY <1>7, <2>2 DEF AtOpening
  <2>11. Opens(h) => AtOpening /\ AtOpening' /\ ~Asks(h)
    <3>1. Opens(h) => AtOpening
      BY <1>1 DEF AtOpening, h
    <3>2. Opens(h) => AtOpening'
      BY <1>6, <1>7, <2>2 DEF AtOpening
    <3>3. Opens(h) => ~Asks(h)
      <4>1. "conn" \notin Asked
        BY DEF Asked
      <4> QED
        BY <4>1, StepKinds DEF Opens
    <3> QED
      BY <3>1, <3>2, <3>3
  <2>12. AtOpening => Opens(h)
    BY <1>3 DEF AtOpening, h
  <2>13. Asks(h) => Expecting'
    BY <1>6, <1>7, <2>2, <2>9 DEF Expecting
  <2>14. Outstanding'
    BY <2>7, <2>13 DEF Outstanding
  <2>15. Opened'
    BY <2>1, <2>7, <2>10, <2>11 DEF Core, Opened
  <2>16. Phases' /\ Starting'
    BY <1>1, <1>7, <2>2 DEF Phases, Starting
  <2>17. Linked'
    BY <1>8, <2>1, <2>7, <2>9 DEF Core, Linked
  <2>18. Told'
    <3>1. Head(script) # Start
      BY <1>3 DEF h
    <3> QED
      BY <1>1, <1>8, <1>13, <2>1, <2>7, <2>9, <2>11, <2>12, <3>1 DEF Core, Told
  <2> QED
    BY <1>9, <1>11, <2>7, <2>8, <2>14, <2>15, <2>16, <2>17, <2>18 DEF Core
<1> QED
  BY <1>12, <1>13

----------------------------------------------------------------------------
(* Reading a line *)

\* The head and the rest of two queues in a row.
LEMMA ConcatHeadTail ==
  ASSUME NEW T, NEW a \in Seq(T), NEW b \in Seq(T), a # <<>>
  PROVE  a \o b # <<>> /\ Head(a \o b) = Head(a) /\ Tail(a \o b) = Tail(a) \o b
<1> DEFINE s == a \o b
           t == Tail(a)
           u == t \o b
           m == Len(a)
           n == Len(b)
<1>1. /\ m \in Nat /\ n \in Nat /\ m >= 1
      /\ t \in Seq(T) /\ Len(t) = m - 1 /\ \A i \in 1..(m - 1) : t[i] = a[i + 1]
  BY HeadTailProperties, EmptySeq
<1>2. /\ s \in Seq(T) /\ Len(s) = m + n
      /\ \A i \in 1..(m + n) : s[i] = IF i <= m THEN a[i] ELSE b[i - m]
  BY ConcatProperties
<1>0. m = Len(a) /\ n = Len(b)
  OBVIOUS
<1> HIDE DEF s, t, m, n
<1>30. /\ u \in Seq(T) /\ Len(u) = Len(t) + Len(b)
       /\ \A i \in 1..(Len(t) + Len(b)) : u[i] = IF i <= Len(t) THEN t[i] ELSE b[i - Len(t)]
  BY <1>1, ConcatProperties
<1> HIDE DEF u
<1>3. /\ u \in Seq(T) /\ Len(u) = (m - 1) + n
      /\ \A i \in 1..((m - 1) + n) : u[i] = IF i <= m - 1 THEN t[i] ELSE b[i - (m - 1)]
  BY <1>0, <1>1, <1>30
<1>4. s # <<>>
  BY <1>1, <1>2, EmptySeq
<1>5. Head(s) = s[1] /\ Head(a) = a[1] /\ Tail(s) \in Seq(T) /\ Len(Tail(s)) = m + n - 1
      /\ \A i \in 1..(m + n - 1) : Tail(s)[i] = s[i + 1]
  BY <1>1, <1>2, <1>4, HeadTailProperties
<1>6. Head(s) = Head(a)
  BY <1>1, <1>2, <1>5
<1> DEFINE v == Tail(s)
<1>9. \A i \in 1..(m + n - 1) : v[i] = s[i + 1]
  BY <1>5
<1> HIDE DEF v
<1>7. \A i \in 1..(m + n - 1) : v[i] = u[i]
  <2> SUFFICES ASSUME NEW i \in 1..(m + n - 1) PROVE v[i] = u[i]
    OBVIOUS
  <2>1. v[i] = s[i + 1] /\ i + 1 \in 1..(m + n) /\ i \in 1..((m - 1) + n)
    BY <1>1, <1>9
  <2>2. CASE i <= m - 1
    <3>1. s[i + 1] = a[i + 1] /\ u[i] = t[i] /\ t[i] = a[i + 1]
      BY <1>1, <1>2, <1>3, <2>1, <2>2, SMTT(30)
    <3> QED
      BY <2>1, <3>1
  <2>3. CASE i > m - 1
    <3>1. s[i + 1] = b[i + 1 - m] /\ u[i] = b[i - (m - 1)] /\ i + 1 - m = i - (m - 1)
      BY <1>1, <1>2, <1>3, <2>1, <2>3
    <3> QED
      BY <2>1, <3>1
  <2>4. m \in Nat /\ i \in Nat
    BY <1>1
  <2> QED
    BY <2>2, <2>3, <2>4
<1>8. v = u
  <2>1. v \in Seq(T) /\ Len(v) = m + n - 1
    BY <1>5 DEF v
  <2> QED
    BY <1>1, <1>3, <1>7, <2>1, SeqEqual, SMTT(30)
<1> QED
  BY <1>4, <1>6, <1>8 DEF s, t, u, v

\* The line x is read.
TakesLine(x) ==
  /\ script # <<>> /\ Head(script).do = "wait" /\ Using
  /\ UNCHANGED <<foreign, alive, conn, mgmt, input, obj, stopFlag, use, sent>>
  /\ phase' = "test"
  /\ Pipe # <<>> /\ x = Head(Pipe) /\ Pipe' = Tail(Pipe)
  /\ buf' \in Seq(Lines) /\ output' \in Seq(Lines)

\* readline, from the buffer or from the pipe.
LEMMA ReadLine ==
  ASSUME Typed
  PROVE  /\ buf # <<>> /\ buf' = Tail(buf) /\ output' = output =>
              /\ Pipe # <<>> /\ Head(buf) = Head(Pipe) /\ Pipe' = Tail(Pipe)
              /\ buf' \in Seq(Lines) /\ output' \in Seq(Lines)
         /\ buf = <<>> /\ output # <<>> /\ buf' = Tail(output) /\ output' = <<>> =>
              /\ Pipe # <<>> /\ Head(output) = Head(Pipe) /\ Pipe' = Tail(Pipe)
              /\ buf' \in Seq(Lines) /\ output' \in Seq(Lines)
<1>1. buf \in Seq(Lines) /\ output \in Seq(Lines)
  BY DEF Typed
<1>2. ASSUME buf # <<>>, buf' = Tail(buf), output' = output
      PROVE  /\ Pipe # <<>> /\ Head(buf) = Head(Pipe) /\ Pipe' = Tail(Pipe)
             /\ buf' \in Seq(Lines) /\ output' \in Seq(Lines)
  BY <1>1, <1>2, ConcatHeadTail, HeadTailProperties DEF Pipe
<1>3. ASSUME buf = <<>>, output # <<>>, buf' = Tail(output), output' = <<>>
      PROVE  /\ Pipe # <<>> /\ Head(output) = Head(Pipe) /\ Pipe' = Tail(Pipe)
             /\ buf' \in Seq(Lines) /\ output' \in Seq(Lines)
  <2>1. Tail(output) \in Seq(Lines)
    BY <1>1, <1>3, HeadTailProperties
  <2>2. Pipe = output
    BY <1>1, <1>3, ConcatEmptySeq DEF Pipe
  <2>3. Pipe' = Tail(output)
    BY <1>3, <2>1, ConcatEmptySeq DEF Pipe
  <2> QED
    BY <1>3, <2>1, <2>2, <2>3, EmptySeq
<1> QED
  BY <1>2, <1>3

\* What that does to what is on its way.
LEMMA LineRead ==
  ASSUME Sound, NEW x, TakesLine(x)
  PROVE  /\ x \in Lines /\ Sound'
         /\ NoneAsked' = NoneAsked /\ OneAsked' = OneAsked
         /\ Unasked => Plain(x) /\ Unasked'
         /\ NotUp => (x.rsp = "stat" => x.code # "conn") /\ NotUp'
         /\ x \notin Enders =>
              /\ Over' = Over
              /\ FreePipe => x \notin Answers /\ FreePipe'
              /\ OnePipe /\ x \notin Answers => OnePipe'
              /\ OnePipe /\ x \in Answers => x \in Own /\ FreePipe'
<1>1. /\ use' = use /\ sent' = sent
      /\ UNCHANGED <<connState, link, inFlight, late, mgmtOut, mgmtIn, input, alive>>
      /\ Pipe # <<>> /\ x = Head(Pipe) /\ Pipe' = Tail(Pipe)
      /\ buf' \in Seq(Lines) /\ output' \in Seq(Lines)
  BY DEF TakesLine, conn, mgmt
<1>2. Pipe \in Seq(Lines)
  BY ConcatProperties DEF Pipe, Sound, Typed
<1> DEFINE p == Pipe
           t == Tail(p)
<1>3. /\ p \in Seq(Lines) /\ p # <<>> /\ x = Head(p) /\ Pipe' = t /\ x \in Lines
      /\ t \in Seq(Lines) /\ Len(p) \in Nat /\ Len(t) = Len(p) - 1
      /\ x = p[1] /\ Len(p) >= 1
      /\ \A i \in 1..Len(t) : t[i] = p[i + 1] /\ i + 1 \in 1..Len(p)
  BY <1>1, <1>2, HeadTailProperties, EmptySeq
<1>4. /\ Over = Has(p, Enders) /\ FreePipe = Free(p, Answers, Enders)
      /\ OnePipe = One(p, Answers, Own, Enders)
      /\ Unasked = (\A i \in 1..Len(p) : Plain(p[i]))
      /\ NotUp = (\A i \in 1..Len(p) : p[i].rsp = "stat" => p[i].code # "conn")
  BY DEF Over, FreePipe, OnePipe, Unasked, NotUp
<1> HIDE DEF p, t
<1>5. /\ Over' = Has(t, Enders) /\ FreePipe' = Free(t, Answers, Enders)
      /\ OnePipe' = One(t, Answers, Own, Enders)
      /\ Unasked' = (\A i \in 1..Len(t) : Plain(t[i]))
      /\ NotUp' = (\A i \in 1..Len(t) : t[i].rsp = "stat" => t[i].code # "conn")
  BY <1>1, <1>3, SameSets DEF Over, FreePipe, OnePipe, Unasked, NotUp, Plain
<1>6. ASSUME x \notin Enders
      PROVE  /\ Has(t, Enders) <=> Has(p, Enders)
             /\ Free(p, Answers, Enders) => x \notin Answers /\ Free(t, Answers, Enders)
             /\ One(p, Answers, Own, Enders) /\ x \notin Answers => One(t, Answers, Own, Enders)
             /\ One(p, Answers, Own, Enders) /\ x \in Answers => x \in Own /\ Free(t, Answers, Enders)
  BY <1>3, <1>6, SetsApart, PipeTail, SMTT(30) DEF t
<1>7. Over \in BOOLEAN /\ Over' \in BOOLEAN
  BY DEF Over, Has
<1>8. /\ Unasked => Plain(x) /\ Unasked'
      /\ NotUp => (x.rsp = "stat" => x.code # "conn") /\ NotUp'
  BY <1>3, <1>4, <1>5
<1>9. NoneAsked' = NoneAsked /\ OneAsked' = OneAsked
  <2>1. NoInput' = NoInput /\ NoReply' = NoReply
    BY <1>1, SameSets DEF NoInput, NoReply
  <2> QED
    BY <1>1, <2>1, SameSets DEF NoneAsked, OneAsked, Alone
<1>10. Typed'
  BY <1>1, SameSets DEF Typed, Sound
<1>11. Sound'
  BY <1>1, <1>10, SameUse DEF Sound
<1> QED
  BY <1>3, <1>4, <1>5, <1>6, <1>7, <1>8, <1>9, <1>11

\* What stays as it is.
LEMMA LineTaken ==
  ASSUME NEW x, TakesLine(x)
  PROVE  /\ Using /\ Using' /\ alive' = alive /\ connState' = connState /\ link' = link /\ use' = use
         /\ Scanner' = Scanner /\ Stopping' /\ phase' = "test" /\ Phases'
         /\ script # <<>> /\ Head(script).do = "wait" /\ Head(script) # Start
         /\ ~Opens(Head(script)) /\ Head(script).do # "quit"
BY StepKinds, SameUse DEF TakesLine, Using, conn, Stopping, Phases

\* The wait goes on.
LEMMA WaitGoesOn ==
  ASSUME Core, NEW x, TakesLine(x), script' = script, GivenOwn', x \notin Enders,
         x \notin Answers \/ wait = ForReason
  PROVE  Core'
<1>1. Sound
  BY DEF Core
<1>2. /\ Sound' /\ NoneAsked' = NoneAsked /\ OneAsked' = OneAsked
      /\ Unasked => Unasked'
      /\ NotUp => NotUp'
      /\ Over' = Over
      /\ FreePipe => FreePipe'
      /\ OnePipe /\ x \notin Answers => OnePipe'
  BY <1>1, LineRead
<1>3. /\ Using /\ Using' /\ alive' = alive /\ connState' = connState /\ link' = link /\ use' = use
      /\ Scanner' = Scanner /\ Stopping' /\ Phases' /\ Head(script) # Start
  BY LineTaken
<1>8. script # <<>>
  BY LineTaken
<1>4. /\ AtOpening' = AtOpening /\ Reading' = Reading /\ Expecting' = Expecting
  BY <1>3, SameUse DEF AtOpening, Reading, Expecting
<1>5. Outstanding'
  <2>1. Reading => x \notin Answers
    BY <1>8 DEF Reading, wait
  <2>2. (Idle => Idle') /\ (x \notin Answers => (Busy => Busy'))
    BY <1>2 DEF Idle, Busy
  <2> QED
    BY <1>4, <2>1, <2>2 DEF Core, Outstanding
<1>6. Opened'
  BY <1>2, <1>3, <1>4 DEF Core, Opened
<1>11. Starting'
  BY <1>3 DEF Core, Starting
<1>9. Linked'
  BY <1>2, <1>3, <1>4 DEF Core, Linked
<1>10. Told'
  <2>1. Told
    BY DEF Core
  <2>2. ("connect" \in use)' = ("connect" \in use) /\ ("local_oob" \in use)' = ("local_oob" \in use)
    BY <1>3
  <2> QED
    BY <1>2, <1>3, <1>4, <1>8, <2>1, <2>2 DEF Told
<1>7. Shaped(script)'
  BY <1>3, ShapedNext DEF Core
<1> QED
  BY <1>2, <1>3, <1>5, <1>6, <1>7, <1>9, <1>10, <1>11 DEF Core

\* The call goes on, or raises.
LEMMA CallGoesOn ==
  ASSUME Core, NEW x, TakesLine(x), Shaped(script'), Loose(script'), GivenOwn',
         \/ script' # <<>> /\ Head(script').do = "quit"
         \/ /\ x \notin Enders /\ wait # ForReason
            /\ x \in Answers \/ wait \notin Awaited
            /\ wait = Connecting => x.rsp = "stat" /\ x.code = "conn"
  PROVE  Core'
<1>1. Sound
  BY DEF Core
<1>2. /\ Using /\ Using' /\ alive' = alive /\ connState' = connState /\ link' = link /\ use' = use
      /\ Scanner' = Scanner /\ Stopping' /\ Phases' /\ Head(script) # Start
      /\ script # <<>> /\ ~Opens(Head(script)) /\ Head(script).do # "quit"
  BY LineTaken
<1>3. /\ ~Expecting' /\ ~AtOpening'
      /\ script' # <<>> => Head(script') # Start /\ Head(script').do # "reap"
  BY <1>2, LooseScript
<1>4. Shaped(script)'
  BY <1>2, ShapedNext
<1>5. Opened' /\ Starting'
  BY <1>3 DEF Opened, Starting
<1>6. Sound'
  BY <1>1, LineRead
<1>7. CASE script' # <<>> /\ Head(script').do = "quit"
  <2>1. ~Reading'
    BY <1>7 DEF Reading
  <2>2. Outstanding' /\ Linked' /\ Told'
    BY <2>1 DEF Outstanding, Linked, Told
  <2> QED
    BY <1>2, <1>4, <1>5, <1>6, <2>2 DEF Core
<1>8. CASE /\ x \notin Enders /\ wait # ForReason
           /\ x \in Answers \/ wait \notin Awaited
           /\ wait = Connecting => x.rsp = "stat" /\ x.code = "conn"
  <2>1. /\ NoneAsked' = NoneAsked
        /\ NotUp => (x.rsp = "stat" => x.code # "conn")
        /\ Over' = Over
        /\ FreePipe => x \notin Answers /\ FreePipe'
        /\ OnePipe /\ x \in Answers => x \in Own /\ FreePipe'
    BY <1>1, <1>8, LineRead
  <2>2. Reading
    BY <1>2, <1>8 DEF Reading, wait
  <2>3. Idle \/ (Expecting /\ Busy)
    BY <2>2 DEF Core, Outstanding
  <2>4. Idle'
    <3>1. CASE x \in Answers
      BY <2>1, <2>3, <3>1 DEF Idle, Busy
    <3>2. CASE x \notin Answers
      BY <1>8, <2>1, <2>3, <3>2 DEF Idle, Expecting, wait
    <3> QED
      BY <3>1, <3>2
  <2>5. Outstanding'
    BY <2>4 DEF Outstanding
  <2>6. Linked'
    BY <1>2, <2>1, <2>2 DEF Core, Linked
  <2>7. AtOpening => wait = Connecting
    BY <1>2, <1>8 DEF AtOpening, wait
  <2>8. Told'
    BY <1>2, <1>8, <2>1, <2>2, <2>7 DEF Core, Told
  <2> QED
    BY <1>2, <1>4, <1>5, <1>6, <2>5, <2>6, <2>8 DEF Core
<1> QED
  BY <1>7, <1>8

\* The connection was not made.
LEMMA FailureKeeps ==
  ASSUME Core, NEW x, TakesLine(x), wait = Connecting, Shaped(script'), GivenOwn',
         script' # <<>>, Head(script') = ForReason
  PROVE  Core'
<1>1. Sound
  BY DEF Core
<1>2. Sound' /\ NoneAsked' = NoneAsked /\ (Unasked => Unasked')
  BY <1>1, LineRead
<1>3. /\ Using /\ use' = use /\ Stopping' /\ Phases' /\ script # <<>>
  BY LineTaken
<1>4. Opened'
  <2>1. NoneAsked /\ Unasked
    BY <1>3 DEF Core, Opened, AtOpening, wait
  <2> QED
    BY <1>2, <2>1 DEF Opened
<1>5. ForReason # Start
  BY WaitKinds, StepKinds
<1>6. ~Reading'
  BY DEF Reading
<1>7. Outstanding' /\ Linked' /\ Told' /\ Starting'
  BY <1>5, <1>6 DEF Outstanding, Linked, Told, Starting
<1>8. Shaped(script)'
  BY <1>3, ShapedNext
<1> QED
  BY <1>2, <1>3, <1>4, <1>7, <1>8 DEF Core

\* The sorts of line.
LEMMA LineSorts ==
  ASSUME NEW x \in Lines
  PROVE  /\ x \in Answers <=> x.rsp \in Kinds \cup {"err"}
         /\ x \in Enders <=> ~Scanner /\ x.rsp = "stat" /\ x.code = "disc"
         /\ x.rsp \in Kinds \cup {"err", "stat", "ntfy", "scan"}
         /\ x.rsp = "ntfy" => x.n = 0 /\ x.code = "" /\ ~Scanner
         /\ x.rsp = "stat" => x.n = 0 \/ Scanner
         /\ {"err", "stat", "ntfy", "scan"} \cap Kinds = {}
BY DEF Lines, Answers, Enders, Kinds

\* What is on its way when a line is read.
LEMMA AtRead ==
  ASSUME Core, NEW x, TakesLine(x)
  PROVE  /\ Sound /\ Waiting /\ wait \in Waits /\ x \in Lines
         /\ wait = ForReason => Plain(x)
         /\ wait \notin Awaited \cup {ForReason} /\ x \notin Enders => x \notin Answers
         /\ x \in Answers /\ wait \in Awaited => x \in Own
<1>1. Sound /\ Waiting
  BY DEF Core, Waiting, TakesLine
<1>2. wait \in Waits /\ script # <<>> /\ Head(script).do # "quit" /\ Using
  BY <1>1, LineTaken, WaitRest
<1>3. /\ x \in Lines /\ (Unasked => Plain(x))
      /\ x \notin Enders =>
              /\ FreePipe => x \notin Answers
              /\ OnePipe /\ x \in Answers => x \in Own
  BY <1>1, LineRead
<1>4. wait = ForReason => Unasked
  BY <1>2 DEF Core, Opened, AtOpening, wait
<1>5. wait # ForReason => Idle \/ (wait \in Awaited /\ Busy)
  BY <1>2 DEF Core, Outstanding, Reading, Expecting, wait
<1>6. ForReason \notin Awaited
  BY WaitKinds
<1>7. x \in Answers => x \notin Enders
  BY SetsApart
<1>8. (Idle => FreePipe) /\ (Busy => FreePipe \/ OnePipe)
  BY DEF Idle, Busy
<1> QED
  BY <1>1, <1>2, <1>3, <1>4, <1>5, <1>6, <1>7, <1>8

\* A line that is not wanted ends the call, or is passed over; an answer is wanted, unless it is
\* an error.
LEMMA UnwantedKeeps ==
  ASSUME Core, NEW x, TakesLine(x), x.rsp \notin wait.want, script' = Unwanted(x), given' = given
  PROVE  Core'
<1>1. /\ Sound /\ Waiting /\ wait \in Waits /\ x \in Lines
      /\ wait = ForReason => Plain(x)
      /\ wait \notin Awaited \cup {ForReason} /\ x \notin Enders => x \notin Answers
  BY AtRead
<1>2. /\ x \in Answers <=> x.rsp \in Kinds \cup {"err"}
      /\ x \in Enders <=> ~Scanner /\ x.rsp = "stat" /\ x.code = "disc"
      /\ x.rsp \in Kinds \cup {"err", "stat", "ntfy", "scan"}
      /\ x.rsp = "ntfy" => ~Scanner
      /\ {"err", "stat", "ntfy", "scan"} \cap Kinds = {}
  BY <1>1, LineSorts
<1>3. GivenOwn'
  BY DEF Core, GivenOwn
<1>4. CASE x.rsp = "stat" /\ x.code = "disc"
  <2>1. script' = StopHelper
    BY <1>4 DEF Unwanted
  <2> QED
    BY <1>3, <2>1, StopIsLoose, CallGoesOn
<1>5. CASE (x.rsp = "stat" /\ x.code # "disc") \/ x.rsp = "scan"
  <2>1. script' = script
    BY <1>5 DEF Unwanted
  <2>2. x \notin Enders /\ x \notin Answers
    BY <1>2, <1>5
  <2> QED
    BY <1>3, <2>1, <2>2, WaitGoesOn
<1>6. CASE x.rsp \notin {"stat", "scan"}
  <2>1. script' = Raised
    BY <1>6 DEF Unwanted
  <2>2. Shaped(script') /\ Loose(script')
    BY <1>1, <2>1, RaisedIsLoose DEF Waiting
  <2>3. x.rsp # "ntfy"
    BY <1>1, <1>2, WaitThens
  <2>4. x \in Answers /\ x \notin Enders
    BY <1>2, <1>6, <2>3
  <2>5. wait # ForReason
    BY <1>1, <1>2, <1>6, <2>3, WaitFacts DEF Plain
  <2>6. wait # Connecting
    BY <1>1, <2>4, WaitKinds
  <2> QED
    BY <1>3, <2>2, <2>4, <2>5, <2>6, CallGoesOn
<1> QED
  BY <1>4, <1>5, <1>6

\* A line that is wanted: if it is an answer, it is that of the command just written.
LEMMA WantedKeeps ==
  ASSUME Core, NEW x, TakesLine(x), x.rsp \in wait.want, script' = After(wait, x, Rest),
         given' = IF wait.then \in {"value", "success"} THEN [to |-> sent, n |-> x.n] ELSE given
  PROVE  Core'
<1>1. /\ Sound /\ Waiting /\ wait \in Waits /\ x \in Lines
      /\ wait = ForReason => Plain(x)
      /\ wait \notin Awaited \cup {ForReason} /\ x \notin Enders => x \notin Answers
      /\ x \in Answers /\ wait \in Awaited => x \in Own
  BY AtRead
<1>2. /\ x \in Answers <=> x.rsp \in Kinds \cup {"err"}
      /\ x \in Enders <=> ~Scanner /\ x.rsp = "stat" /\ x.code = "disc"
      /\ x.rsp = "ntfy" => x.n = 0 /\ x.code = "" /\ ~Scanner
      /\ x.rsp = "stat" => x.n = 0 \/ Scanner
      /\ {"err", "stat", "ntfy", "scan"} \cap Kinds = {}
  BY <1>1, LineSorts
<1> DEFINE left == After(wait, x, Rest)
<1>3. /\ Shaped(left)
      /\ wait \in Awaited => IF x.rsp = "ntfy" THEN left = script ELSE Loose(left)
      /\ wait \in {ForEvent, Processing, ScanEnded} => Loose(left)
      /\ wait = Connecting =>
              \/ left = script /\ (x.rsp = "ntfy" \/ x.code = "tryconn")
              \/ x.rsp = "stat" /\ x.code = "conn" /\ Loose(left)
              \/ left # <<>> /\ Head(left) = ForReason
      /\ wait \in {ForEnd, ForReason} =>
              IF x.rsp = "ntfy" THEN left = script
              ELSE left # <<>> /\ Head(left).do = "quit" /\ Loose(left)
  BY <1>1, <1>2, AfterShaped DEF Sound
<1>4. script' = left
  OBVIOUS
<1> HIDE DEF left
<1>5. \/ given' = given
      \/ given' = [to |-> sent, n |-> x.n] /\ wait.then \in {"value", "success"}
  OBVIOUS
<1>6. given' = given \/ x.n \in {0, sent} => GivenOwn'
  BY <1>5 DEF Core, GivenOwn
<1>7. CASE wait \in Awaited
  <2>1. wait \notin {ForEvent, ForEnd, ForReason, Connecting, Processing, ScanEnded}
    BY <1>7, WaitKinds
  <2>2. x.rsp = "ntfy" \/ x.rsp \in Kinds
    BY <1>1, <2>1, WaitThens DEF Kinds
  <2>3. CASE x.rsp = "ntfy"
    BY <1>2, <1>3, <1>4, <1>6, <1>7, <2>3, WaitGoesOn
  <2>4. CASE x.rsp # "ntfy"
    <3>1. x \in Own /\ x \in Answers /\ x \notin Enders
      BY <1>1, <1>2, <1>7, <2>2, <2>4
    <3>2. GivenOwn'
      BY <1>6, <3>1 DEF Own
    <3> QED
      BY <1>3, <1>4, <1>7, <2>1, <2>4, <3>1, <3>2, CallGoesOn
  <2> QED
    BY <2>3, <2>4
<1>8. CASE wait \in {ForEvent, Processing, ScanEnded}
  <2>1. wait \notin Awaited \cup {ForReason, Connecting}
    BY <1>8, WaitKinds
  <2>2. wait = ForEvent => x.rsp = "ntfy"
    BY WaitFacts
  <2>3. wait # ForEvent => Scanner /\ given' = given
    <3>1. wait # ForEvent => wait.then \in {"process", "ended"}
      BY <1>8, WaitFacts
    <3>2. wait.then \in {"process", "ended"} => Scanner
      BY <1>1, WaitThens
    <3> QED
      BY <1>5, <3>1, <3>2
  <2>4. x \notin Enders /\ GivenOwn'
    BY <1>2, <1>6, <2>2, <2>3
  <2> QED
    BY <1>3, <1>4, <1>8, <2>1, <2>4, CallGoesOn
<1>9. CASE wait = Connecting
  <2>1. GivenOwn'
    BY <1>5, <1>6, <1>9, WaitFacts
  <2>2. wait \notin Awaited \cup {ForReason}
    BY <1>9, WaitKinds
  <2>3. CASE left = script /\ (x.rsp = "ntfy" \/ x.code = "tryconn")
    <3>1. x \notin Enders
      BY <1>2, <2>3
    <3> QED
      BY <1>1, <1>4, <2>1, <2>2, <2>3, <3>1, WaitGoesOn
  <2>4. CASE x.rsp = "stat" /\ x.code = "conn" /\ Loose(left)
    <3>1. x \notin Enders
      BY <1>2, <2>4
    <3> QED
      BY <1>3, <1>4, <2>1, <2>2, <2>4, <3>1, CallGoesOn
  <2>5. CASE left # <<>> /\ Head(left) = ForReason
    BY <1>3, <1>4, <1>9, <2>1, <2>5, FailureKeeps
  <2> QED
    BY <1>3, <1>9, <2>3, <2>4, <2>5
<1>10. CASE wait \in {ForEnd, ForReason}
  <2>1. CASE x.rsp = "ntfy"
    BY <1>2, <1>3, <1>4, <1>6, <1>10, <2>1, WaitGoesOn
  <2>2. CASE x.rsp # "ntfy"
    <3>1. ~Scanner
      <4>1. wait.then = "value"
        BY <1>10, WaitFacts
      <4> QED
        BY <1>1, <4>1, WaitThens
    <3>2. x.n = 0
      BY <1>1, <1>2, <1>10, <2>2, <3>1, WaitFacts DEF Plain
    <3> QED
      BY <1>3, <1>4, <1>6, <1>10, <2>2, <3>2, CallGoesOn
  <2> QED
    BY <2>1, <2>2
<1>11. wait \in Awaited \cup {ForEvent, Processing, ScanEnded, Connecting, ForEnd, ForReason}
  BY <1>1 DEF Waits
<1> QED
  BY <1>7, <1>8, <1>9, <1>10, <1>11

\* _waitResp reads.
LEMMA WaitReadKeeps ==
  ASSUME Core, WaitRead, foreign' = foreign
  PROVE  Core'
<1>1. /\ script # <<>> /\ Head(script).do = "wait" /\ phase = "read"
      /\ UNCHANGED <<alive, conn, mgmt, input, obj, stopFlag, use, sent>>
      /\ phase' = "test"
  BY DEF WaitRead, Doing, Deliver, Goes
<1>2. Using /\ Typed
  BY <1>1 DEF Core, Phases, Sound
<1>3. ASSUME NEW x, Deliver(x), x = Head(Pipe), Pipe # <<>>, Pipe' = Tail(Pipe),
             buf' \in Seq(Lines), output' \in Seq(Lines)
      PROVE  Core'
  <2>1. TakesLine(x)
    BY <1>1, <1>2, <1>3 DEF TakesLine
  <2>2. CASE x.rsp \in wait.want
    <3>1. /\ script' = After(wait, x, Rest)
          /\ given' = IF wait.then \in {"value", "success"} THEN [to |-> sent, n |-> x.n] ELSE given
      BY <1>3, <2>2 DEF Deliver, Goes
    <3> QED
      BY <2>1, <2>2, <3>1, WantedKeeps
  <2>3. CASE x.rsp \notin wait.want
    <3>1. script' = Unwanted(x) /\ given' = given
      BY <1>3, <2>3 DEF Deliver, Goes
    <3> QED
      BY <2>1, <2>3, <3>1, UnwantedKeeps
  <2> QED
    BY <2>2, <2>3
<1>4. CASE buf # <<>> /\ Deliver(Head(buf)) /\ buf' = Tail(buf) /\ UNCHANGED output
  <2>1. /\ Pipe # <<>> /\ Head(buf) = Head(Pipe) /\ Pipe' = Tail(Pipe)
        /\ buf' \in Seq(Lines) /\ output' \in Seq(Lines)
    BY <1>2, <1>4, ReadLine
  <2> QED
    BY <1>3, <1>4, <2>1
<1>5. CASE /\ buf = <<>> /\ output # <<>>
           /\ Deliver(Head(output)) /\ buf' = Tail(output) /\ output' = <<>>
  <2>1. /\ Pipe # <<>> /\ Head(output) = Head(Pipe) /\ Pipe' = Tail(Pipe)
        /\ buf' \in Seq(Lines) /\ output' \in Seq(Lines)
    BY <1>2, <1>5, ReadLine
  <2> QED
    BY <1>3, <1>5, <2>1
<1>6. CASE Goes(StopHelper) /\ UNCHANGED <<buf, output, given>>
  <2>1. script' = StopHelper /\ UNCHANGED <<helper, obj, stopFlag, buf, use, sent, given>>
    BY <1>1, <1>6 DEF Goes, helper
  <2>2. Head(script) # Start
    BY <1>1, StepKinds
  <2> QED
    BY <1>1, <2>1, <2>2, StopIsLoose, LooseKeeps
<1> QED
  BY <1>4, <1>5, <1>6 DEF WaitRead

----------------------------------------------------------------------------
(* Types *)

\* The types at first.
LEMMA TypesAtFirst == Init => TypeOK
<1> SUFFICES ASSUME Init PROVE TypeOK
  OBVIOUS
<1>1. master \in BOOLEAN
  BY MastersAssumption DEF Init, NotStarted
<1>2. /\ alive = FALSE /\ connState = "disc" /\ attrib = FALSE /\ link = "none" /\ mtuSet = FALSE
      /\ kernelScan = FALSE /\ hciScan = FALSE
      /\ obj = FALSE /\ stopFlag = FALSE /\ use \in Uses /\ phase = "test" /\ sent = 0
  BY DEF Init, NotStarted
<1> QED
  BY <1>1, <1>2 DEF TypeOK

\* The helper keeps the types.
LEMMA HelperTypes ==
  ASSUME TypeOK, UNCHANGED client, Work \/ Environment \/ ScanEvents
  PROVE  TypeOK'
<1> DEFINE Modes == {"disc", "tryconn", "conn", "scan"}
           Ends == {"none", "connecting", "up", "lost"}
<1>1. UNCHANGED <<obj, stopFlag, use, phase, sent>>
  BY DEF client
<1>2. /\ alive \in BOOLEAN /\ connState \in Modes /\ attrib \in BOOLEAN /\ link \in Ends
      /\ mtuSet \in BOOLEAN /\ master \in BOOLEAN /\ kernelScan \in BOOLEAN /\ hciScan \in BOOLEAN
  BY DEF TypeOK
<1> DEFINE Ok == /\ alive' \in BOOLEAN /\ connState' \in Modes /\ attrib' \in BOOLEAN /\ link' \in Ends
                 /\ mtuSet' \in BOOLEAN /\ master' \in BOOLEAN /\ kernelScan' \in BOOLEAN
                 /\ hciScan' \in BOOLEAN
<1>3. Ok => TypeOK'
  BY <1>1 DEF TypeOK
<1>4. ASSUME /\ alive' = alive \/ alive' = FALSE
             /\ connState' = connState \/ connState' \in Modes
             /\ attrib' = attrib \/ attrib' \in BOOLEAN
             /\ link' = link \/ link' \in Ends
             /\ mtuSet' = mtuSet \/ mtuSet' = TRUE \/ mtuSet' = FALSE
             /\ master' = master
             /\ kernelScan' = kernelScan \/ kernelScan' = ~kernelScan \/ kernelScan' = FALSE
             /\ hciScan' = hciScan \/ hciScan' = TRUE \/ hciScan' = FALSE
      PROVE  Ok
  <2> HIDE DEF Modes, Ends
  <2>1. alive' \in BOOLEAN /\ attrib' \in BOOLEAN
    BY <1>2, <1>4
  <2>2. connState' \in Modes /\ link' \in Ends
    BY <1>2, <1>4
  <2>3. mtuSet' \in BOOLEAN /\ master' \in BOOLEAN
    BY <1>2, <1>4
  <2>4. kernelScan' \in BOOLEAN /\ hciScan' \in BOOLEAN
    BY <1>2, <1>4
  <2> QED
    BY <2>1, <2>2, <2>3, <2>4
<1>5. CASE CmdStatus
  <2>1. UNCHANGED <<alive, conn, mgmt>>
    BY <1>5 DEF CmdStatus, Answer, conn, mgmt
  <2> QED
    BY <1>3, <1>4, <2>1 DEF conn, mgmt
<1>6. CASE CmdConnect
  <2>1. UNCHANGED <<alive, attrib, mtuSet, mgmt>>
    BY <1>6 DEF CmdConnect, conn, mgmt
  <2>2. /\ connState' = connState \/ connState' = "tryconn"
        /\ link' = link \/ link' = "connecting"
    BY <1>6 DEF CmdConnect, conn
  <2> QED
    BY <1>3, <1>4, <2>1, <2>2 DEF conn, mgmt
<1>7. CASE CmdDisconnect
  <2>1. UNCHANGED <<alive, mgmt>>
    BY <1>7 DEF CmdDisconnect, DisconnectIo, SetState, conn, mgmt
  <2>2. /\ connState' = connState \/ connState' = "disc"
        /\ attrib' = attrib \/ attrib' = FALSE
        /\ link' = link \/ link' = "none"
        /\ mtuSet' = mtuSet \/ mtuSet' = FALSE
    BY <1>7 DEF CmdDisconnect, DisconnectIo, SetState, conn
  <2> QED
    BY <1>3, <1>4, <2>1, <2>2 DEF conn, mgmt
<1>8. CASE CmdExit
  <2>1. UNCHANGED <<mgmt>>
    BY <1>8 DEF CmdExit, DisconnectIo, SetState, conn, mgmt
  <2>2. /\ alive' = FALSE
        /\ connState' = connState \/ connState' = "disc"
        /\ attrib' = attrib \/ attrib' = FALSE
        /\ link' = link \/ link' = "none"
        /\ mtuSet' = mtuSet \/ mtuSet' = FALSE
    BY <1>8 DEF CmdExit, DisconnectIo, SetState, conn
  <2> QED
    BY <1>3, <1>4, <2>1, <2>2 DEF conn, mgmt
<1>9. CASE CmdDiscover \/ CmdCharDesc \/ CmdRead \/ CmdWriteRsp
  <2>1. UNCHANGED <<alive, connState, attrib, link, mtuSet, mgmt>>
    BY <1>9 DEF CmdDiscover, CmdCharDesc, CmdRead, CmdWriteRsp, Gatt, conn, mgmt
  <2> QED
    BY <1>3, <1>4, <2>1 DEF conn, mgmt
<1>10. CASE CmdWrite
  <2>1. UNCHANGED <<alive, conn, mgmt>>
    BY <1>10 DEF CmdWrite, Answer, conn, mgmt
  <2> QED
    BY <1>3, <1>4, <2>1 DEF conn, mgmt
<1>11. CASE CmdMtu
  <2>1. UNCHANGED <<alive, connState, attrib, link, mgmt>>
    BY <1>11 DEF CmdMtu, conn, mgmt
  <2>2. /\ mtuSet' = mtuSet \/ mtuSet' = TRUE
    BY <1>11 DEF CmdMtu, conn
  <2> QED
    BY <1>3, <1>4, <2>1, <2>2 DEF conn, mgmt
<1>12. CASE CmdSecLevel
  <2>1. UNCHANGED <<alive, conn, mgmt>>
    BY <1>12 DEF CmdSecLevel, Answer, Ignore, conn, mgmt
  <2> QED
    BY <1>3, <1>4, <2>1 DEF conn, mgmt
<1>13. CASE CmdMode \/ CmdOob \/ CmdPair \/ CmdUnpair \/ CmdScan
  <2>1. UNCHANGED <<alive, conn, master, kernelScan, hciScan>>
    BY <1>13 DEF CmdMode, CmdOob, CmdPair, CmdUnpair, CmdScan, MgmtCmd, conn, mgmt
  <2> QED
    BY <1>3, <1>4, <2>1 DEF conn, mgmt
<1>14. CASE CmdPasv
  <2>1. UNCHANGED <<alive, attrib, link, mtuSet, master, kernelScan>>
    BY <1>14 DEF CmdPasv, conn, mgmt
  <2>2. /\ connState' = connState \/ connState' = "scan"
        /\ hciScan' = hciScan \/ hciScan' = TRUE
    BY <1>14 DEF CmdPasv, conn
  <2> QED
    BY <1>3, <1>4, <2>1, <2>2 DEF conn, mgmt
<1>15. CASE CmdPasvEnd
  <2>1. UNCHANGED <<alive, attrib, link, mtuSet, mgmt>>
    BY <1>15 DEF CmdPasvEnd, conn, mgmt
  <2>2. /\ connState' = "disc"
    BY <1>15 DEF CmdPasvEnd, conn
  <2> QED
    BY <1>3, <1>4, <2>1, <2>2 DEF conn, mgmt
<1>16. CASE Connected
  <2>1. UNCHANGED <<alive, mtuSet, mgmt>>
    BY <1>16 DEF Connected, SetState, conn, mgmt
  <2>2. /\ link' = "up"
        /\ attrib' = TRUE
        /\ connState' = "conn"
    BY <1>16 DEF Connected, SetState, conn
  <2> QED
    BY <1>3, <1>4, <2>1, <2>2 DEF conn, mgmt
<1>17. CASE ConnectFailed
  <2>1. UNCHANGED <<alive, attrib, mtuSet, mgmt>>
    BY <1>17 DEF ConnectFailed, SetState, conn, mgmt
  <2>2. /\ link' = "none"
        /\ connState' = "disc"
    BY <1>17 DEF ConnectFailed, SetState, conn
  <2> QED
    BY <1>3, <1>4, <2>1, <2>2 DEF conn, mgmt
<1>18. CASE ChannelWatcher
  <2>1. UNCHANGED <<alive, mgmt>>
    BY <1>18 DEF ChannelWatcher, DisconnectIo, SetState, conn, mgmt
  <2>2. /\ connState' = connState \/ connState' = "disc"
        /\ attrib' = attrib \/ attrib' = FALSE
        /\ link' = link \/ link' = "none"
        /\ mtuSet' = mtuSet \/ mtuSet' = FALSE
    BY <1>18 DEF ChannelWatcher, DisconnectIo, SetState, conn
  <2> QED
    BY <1>3, <1>4, <2>1, <2>2 DEF conn, mgmt
<1>19. CASE LateError
  <2>1. UNCHANGED <<alive, connState, attrib, link, mtuSet, mgmt>>
    BY <1>19 DEF LateError, conn, mgmt
  <2> QED
    BY <1>3, <1>4, <2>1 DEF conn, mgmt
<1>20. CASE GattDone
  <2>1. UNCHANGED <<alive, connState, attrib, link, mtuSet, mgmt>>
    BY <1>20 DEF GattDone, conn, mgmt
  <2> QED
    BY <1>3, <1>4, <2>1 DEF conn, mgmt
<1>21. CASE MgmtReply
  <2>1. UNCHANGED <<alive, conn, master, kernelScan, hciScan>>
    BY <1>21 DEF MgmtReply, conn, mgmt
  <2> QED
    BY <1>3, <1>4, <2>1 DEF conn, mgmt
<1>22. CASE MgmtScanning
  <2>1. UNCHANGED <<alive, attrib, link, mtuSet, master, kernelScan, hciScan>>
    BY <1>22 DEF MgmtScanning, SetState, conn, mgmt
  <2>2. /\ connState' = "scan" \/ connState' = "disc"
    BY <1>22 DEF MgmtScanning, SetState, conn
  <2> QED
    BY <1>3, <1>4, <2>1, <2>2 DEF conn, mgmt
<1>23. CASE MgmtDeviceFound
  <2>1. UNCHANGED <<alive, conn, master, kernelScan, hciScan>>
    BY <1>23 DEF MgmtDeviceFound, conn, mgmt
  <2> QED
    BY <1>3, <1>4, <2>1 DEF conn, mgmt
<1>24. CASE KernelReplies
  <2>1. UNCHANGED <<alive, conn, master, hciScan>>
    BY <1>24 DEF KernelReplies, conn, mgmt
  <2>2. /\ kernelScan' = kernelScan \/ kernelScan' = ~kernelScan
    BY <1>24 DEF KernelReplies, conn
  <2> QED
    BY <1>3, <1>4, <2>1, <2>2 DEF conn, mgmt
<1>25. CASE LinkLost \/ Abort \/ EventsHandler \/ HciReport
  <2>1. UNCHANGED <<connState, attrib, mtuSet, mgmt>>
    BY <1>25 DEF LinkLost, Abort, EventsHandler, HciReport, conn, mgmt
  <2>2. /\ alive' = alive \/ alive' = FALSE
        /\ link' = link \/ link' = "lost" \/ link' = "none"
    BY <1>25 DEF LinkLost, Abort, EventsHandler, HciReport, conn
  <2> QED
    BY <1>3, <1>4, <2>1, <2>2 DEF conn, mgmt
<1>26. CASE HciScanEnds
  <2>1. UNCHANGED <<alive, attrib, link, mtuSet, master, kernelScan>>
    BY <1>26 DEF HciScanEnds, SetState, conn, mgmt
  <2>2. /\ hciScan' = FALSE
        /\ connState' = connState \/ connState' = "disc"
    BY <1>26 DEF HciScanEnds, SetState, conn
  <2> QED
    BY <1>3, <1>4, <2>1, <2>2 DEF conn, mgmt
<1>27. CASE \E e \in {Discovering(TRUE), Discovering(FALSE), Found} : KernelEvent(e)
  <2>1. UNCHANGED <<alive, conn, master, hciScan>>
    BY <1>27 DEF KernelEvent, conn, mgmt
  <2>2. /\ kernelScan' = kernelScan \/ kernelScan' = FALSE
    BY <1>27 DEF KernelEvent, conn
  <2> QED
    BY <1>3, <1>4, <2>1, <2>2 DEF conn, mgmt
<1> QED
  BY <1>5, <1>6, <1>7, <1>8, <1>9, <1>10, <1>11, <1>12, <1>13, <1>14, <1>15, <1>16, <1>17,
     <1>18, <1>19, <1>20, <1>21, <1>22, <1>23, <1>24, <1>25, <1>26, <1>27
     DEF Work, CommandLine, Environment, ScanEvents

\* The object keeps them.
LEMMA ClientTypes ==
  ASSUME TypeOK, (\E call \in Calls : Call(call)) \/ Client
  PROVE  TypeOK'
<1> USE DEF TypeOK, helper, conn, mgmt, Goes
<1>1. CASE \E call \in Calls : Call(call)
  BY <1>1 DEF Call
<1>2. CASE ConstructorReturns
  BY <1>2 DEF ConstructorReturns
<1>3. CASE StartHelper
  <2>1. CASE obj
    BY <1>3, <2>1 DEF StartHelper
  <2>2. CASE ~obj
    BY <1>3, <2>2, MastersAssumption DEF StartHelper, Launch
  <2> QED
    BY <2>1, <2>2
<1>4. CASE WriteCmd
  BY <1>4 DEF WriteCmd
<1>5. CASE WaitTest
  BY <1>5 DEF WaitTest
<1>6. CASE WaitPoll
  BY <1>6 DEF WaitPoll
<1>7. CASE WaitRead
  BY <1>7 DEF WaitRead, Deliver
<1>8. CASE ProcessEnds
  BY <1>8 DEF ProcessEnds
<1>9. CASE StopQuit
  <2>1. /\ UNCHANGED <<conn, mgmt, alive, obj, use, sent>> /\ phase' = "test"
        /\ stopFlag' = stopFlag \/ stopFlag' = TRUE
    BY <1>9 DEF StopQuit
  <2>2. stopFlag' \in BOOLEAN
    BY <2>1
  <2> QED
    BY <2>1, <2>2
<1>10. CASE StopReap
  BY <1>10 DEF StopReap
<1> QED
  BY <1>1, <1>2, <1>3, <1>4, <1>5, <1>6, <1>7, <1>8, <1>9, <1>10 DEF Client

----------------------------------------------------------------------------
(* The invariant *)

SessionInv == TypeOK /\ (Unambiguous => Core)

\* The invariant at first.
LEMMA CoreAtFirst ==
  ASSUME Init, Unambiguous
  PROVE  Core
<1>1. /\ alive = FALSE /\ connState = "disc" /\ link = "none"
      /\ inFlight = <<>> /\ late = <<>> /\ mgmtOut = <<>> /\ mgmtIn = <<>>
      /\ input = <<>> /\ output = <<>> /\ buf = <<>>
      /\ obj = FALSE /\ stopFlag = FALSE /\ use \in Uses /\ script = <<>> /\ phase = "test"
      /\ sent = 0 /\ given = [to |-> 0, n |-> 0]
  BY DEF Init, NotStarted
<1>2. Typed
  BY <1>1, EmptySeq DEF Typed
<1>3. Sound
  BY <1>1, <1>2 DEF Sound, States
<1>4. ~Using /\ ~Reading
  BY <1>1 DEF Using, Reading
<1>5. Outstanding /\ Opened /\ Phases /\ Starting /\ Linked /\ Told /\ Stopping /\ GivenOwn
  BY <1>1, <1>4 DEF Outstanding, Opened, Phases, Starting, Linked, Told, Stopping, GivenOwn
<1>6. Shaped(script)
  BY <1>1, ShapedEmpty
<1> QED
  BY <1>3, <1>5, <1>6 DEF Core

\* It is about the variables of the specification.
LEMMA CoreSame ==
  ASSUME Core, UNCHANGED vars
  PROVE  Core'
<1>1. UNCHANGED <<helper, obj, stopFlag, buf, use, sent, given, script, phase>>
  BY DEF vars, client
<1>2. /\ Sound' /\ Over' = Over /\ Idle' = Idle /\ Busy' = Busy
      /\ NoneAsked' = NoneAsked /\ Unasked' = Unasked /\ NotUp' = NotUp
  BY <1>1, SameWay DEF Core
<1>3. /\ Using' = Using /\ Scanner' = Scanner /\ alive' = alive /\ connState' = connState /\ link' = link
      /\ use' = use /\ script' = script
  BY <1>1, SameUse DEF Using, helper, conn
<1>4. AtOpening' = AtOpening /\ Reading' = Reading /\ Expecting' = Expecting
  BY <1>3, SameUse DEF AtOpening, Reading, Expecting
<1>5. Outstanding' /\ Opened' /\ Linked'
  BY <1>2, <1>3, <1>4 DEF Core, Outstanding, Opened, Linked
<1>6. Told'
  BY <1>2, <1>3, <1>4 DEF Core, Told
<1>7. Phases' /\ Starting' /\ GivenOwn' /\ Stopping'
  BY <1>1, <1>3 DEF Core, Phases, Starting, GivenOwn, Stopping
<1>8. Shaped(script)'
  BY <1>3, ShapedNext DEF Core
<1> QED
  BY <1>2, <1>5, <1>6, <1>7, <1>8 DEF Core

\* Every step keeps it.
LEMMA CoreNext ==
  ASSUME Core, TypeOK', [Next]_vars
  PROVE  Core'
<1>1. CASE UNCHANGED vars
  BY <1>1, CoreSame
<1>2. CASE \E call \in Calls : Call(call)
  BY <1>2, CallKeeps
<1>3. CASE Client /\ UNCHANGED foreign
  BY <1>3, MadeKeeps, StartKeeps, WriteKeeps, WaitTestKeeps, WaitPollKeeps, WaitReadKeeps,
     ProcessEndsKeeps, QuitKeeps, ReapKeeps DEF Client
<1>4. CASE (Work \/ Environment \/ ScanEvents) /\ UNCHANGED client
  <2>1. Stepped
    BY <1>4, HelperSteps DEF Core
  <2>2. connState' \in States
    BY DEF TypeOK, States
  <2> QED
    BY <1>4, <2>1, <2>2, HelperKeeps
<1> QED
  BY <1>1, <1>2, <1>3, <1>4 DEF Next, Calls

\* What an object is used for does not change.
LEMMA UseKept ==
  ASSUME [Next]_vars
  PROVE  use' = use
<1>1. UNCHANGED client \/ Client \/ (\E call \in Calls : Call(call)) 
  BY DEF Next, vars, Calls
<1>2. UNCHANGED client => use' = use
  BY DEF client
<1>3. (\E call \in Calls : Call(call)) => use' = use
  BY DEF Call
<1>4. Client => use' = use
  BY DEF Client, ConstructorReturns, StartHelper, WriteCmd, WaitTest, WaitPoll, WaitRead,
     ProcessEnds, StopQuit, StopReap
<1> QED
  BY <1>1, <1>2, <1>3, <1>4

\* Every step keeps the types.
LEMMA TypesNext ==
  ASSUME TypeOK, [Next]_vars
  PROVE  TypeOK'
<1>1. CASE UNCHANGED vars
  BY <1>1 DEF vars, helper, conn, mgmt, client, TypeOK
<1>2. CASE (\E call \in Calls : Call(call)) \/ Client
  BY <1>2, ClientTypes
<1>3. CASE (Work \/ Environment \/ ScanEvents) /\ UNCHANGED client
  BY <1>3, HelperTypes
<1> QED
  BY <1>1, <1>2, <1>3 DEF Next, Calls

\* Types: of the helper's state and of the object's, in every state of the two.
THEOREM SessionTyping == Spec => []TypeOK
<1>1. Init => TypeOK
  BY TypesAtFirst
<1>2. TypeOK /\ [Next]_vars => TypeOK'
  BY TypesNext
<1> QED
  BY <1>1, <1>2, PTL DEF Spec

\* The invariant holds throughout.
LEMMA SessionHolds == Spec => []SessionInv
<1>1. Init => SessionInv
  BY TypesAtFirst, CoreAtFirst DEF SessionInv
<1>2. SessionInv /\ [Next]_vars => SessionInv'
  <2> SUFFICES ASSUME SessionInv, [Next]_vars
               PROVE  SessionInv'
    OBVIOUS
  <2>1. TypeOK'
    BY TypesNext DEF SessionInv
  <2>2. Unambiguous' = Unambiguous
    BY UseKept DEF Unambiguous
  <2>3. Unambiguous => Core'
    BY <2>1, CoreNext DEF SessionInv
  <2> QED
    BY <2>1, <2>2, <2>3 DEF SessionInv
<1> QED
  BY <1>1, <1>2, PTL DEF Spec

\* The answer that a call is handed (btle.py:448) is that to the command it has just written,
\* or an event: never one that an earlier call left in the pipe, however its wait ended.
THEOREM AnswersAreOwn == Spec => []OwnAnswer
<1>1. SessionInv => OwnAnswer
  BY DEF SessionInv, Core, GivenOwn, OwnAnswer
<1> QED
  BY <1>1, SessionHolds, PTL

\* An idle Peripheral whose connection has ended has a line in its pipe that says so (btle.py:445),
\* from whichever side, and at whichever moment, it ended.
THEOREM EndIsTold == Spec => []ToldOfTheEnd
<1>1. SessionInv => ToldOfTheEnd
  <2> SUFFICES ASSUME Core, obj, alive, script = <<>>, connState = "disc",
                      "connect" \in use, "local_oob" \notin use
               PROVE  Contains(buf \o output, Ended)
    BY DEF SessionInv, ToldOfTheEnd
  <2>1. Using /\ Reading
    BY DEF Core, Stopping, Using, Reading
  <2>2. Over
    BY <2>1 DEF Core, Told, AtOpening
  <2>3. ~Scanner
    BY CallsApart DEF Core, Sound, Calls
  <2>4. PICK i \in 1..Len(Pipe) : Pipe[i] \in Enders
    BY <2>2 DEF Over, Has
  <2> DEFINE l == Pipe[i]
  <2>5. l \in Lines /\ l.rsp = "stat" /\ l.code = "disc"
    BY <2>4 DEF Enders
  <2> HIDE DEF l
  <2>6. l.n = 0
    BY <2>3, <2>5, LineSorts
  <2>7. l = Ended
    BY <2>5, <2>6 DEF Lines, Ended, Stat, Line
  <2> QED
    BY <2>7 DEF Contains, Pipe, l
<1> QED
  BY <1>1, SessionHolds, PTL
=============================================================================
