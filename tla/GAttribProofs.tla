---------------------------- MODULE GAttribProofs ---------------------------
(***************************************************************************)
(* Proofs about AttTransport and GAttrib, for any finite or infinite sets  *)
(* of operations.                                                          *)
(*   - The transport alone: type correctness, that every operation is held *)
(*     in one place, that the write handler is set when there is something *)
(*     to send, and that the requests follow RequestLine.                  *)
(*   - The transport under the requests of the helper: it keeps those      *)
(*     invariants and follows RequestLine too, every request can be        *)
(*     cancelled under the id its user knows, and a cancelled procedure    *)
(*     does not call back.                                                 *)
(***************************************************************************)
EXTENDS GAttrib, QueueProofs

-----------------------------------------------------------------------------
\* bt_att: the steps of AttTransport.

\* The kinds of operations are apart.
LEMMA OpSets ==
  /\ Reqs \subseteq Ops /\ Inds \subseteq Ops /\ Rsps \cup Cmds \subseteq Ops
  /\ Reqs \cap Inds = {} /\ Reqs \cap (Rsps \cup Cmds) = {} /\ Inds \cap (Rsps \cup Cmds) = {}
  /\ None \notin Ops
BY OpsAssumption DEF Ops, Answered

\* wakeup_writer sets or leaves the write handler.
LEMMA WakeupBoolean == writerActive \in BOOLEAN /\ WakeupWriter => writerActive' \in BOOLEAN
BY DEF WakeupWriter

\* destroy_att_send_op keeps the types of the operations and of their timers.
LEMMA DestroyTyped ==
  ASSUME TypeOK, NEW gone, Destroy(gone)
  PROVE  /\ state' \in [Ops -> {"new", "live", "silent", "freed"}]
         /\ timerOf' \in [Ops -> 0..High] /\ timers' \subseteq Ops \X (1..High)
<1>1. state' \in [Ops -> {"new", "live", "silent", "freed"}]
  BY DEF TypeOK, Destroy
<1>2. timerOf' \in [Ops -> 0..High]
  BY DEF TypeOK, Destroy, High
<1>3. timers' \subseteq timers /\ timers \subseteq Ops \X (1..High)
  BY DEF TypeOK, Destroy
<1> QED
  BY <1>1, <1>2, <1>3

\* Every handler and every call of user code keeps the types.
LEMMA TypeStep == TypeOK /\ [Next]_vars => TypeOK'
<1> SUFFICES ASSUME TypeOK, [Next]_vars PROVE TypeOK'
  OBVIOUS
<1> USE DEF queues, pending, link, ops, loop
<1>1. ASSUME NEW o \in Ops, Send(o) PROVE TypeOK'
  <2>1. /\ reqQueue' \in Seq(Reqs) /\ indQueue' \in Seq(Inds)
        /\ writeQueue' \in Seq(Rsps \cup Cmds)
    BY <1>1, AppendQueue DEF TypeOK, Send
  <2>2. state' \in [Ops -> {"new", "live", "silent", "freed"}]
    BY <1>1 DEF TypeOK, Send
  <2> QED
    BY <1>1, <2>1, <2>2, WakeupBoolean DEF TypeOK, Send
<1>2. ASSUME NEW o \in Ops, CancelPending(o) PROVE TypeOK'
  BY <1>2 DEF TypeOK, CancelPending, Silence
<1>3. ASSUME NEW o \in Ops, CancelQueued(o) PROVE TypeOK'
  <2>1. /\ reqQueue' \in Seq(Reqs) /\ indQueue' \in Seq(Inds)
        /\ writeQueue' \in Seq(Rsps \cup Cmds)
    BY <1>3, RemoveIfTyped DEF TypeOK, CancelQueued
  <2> QED
    BY <1>3, <2>1, WakeupBoolean, DestroyTyped DEF TypeOK, CancelQueued
<1>4. CASE Unref
  <2>1. /\ <<>> \in Seq(Reqs) /\ <<>> \in Seq(Inds) /\ <<>> \in Seq(Rsps \cup Cmds)
    BY EmptySeq
  <2>2. /\ state' \in [Ops -> {"new", "live", "silent", "freed"}]
        /\ timerOf' \in [Ops -> 0..High] /\ timers' \subseteq Ops \X (1..High)
    BY <1>4, DestroyTyped DEF Unref
  <2> QED
    BY <1>4, <2>1, <2>2 DEF TypeOK, Unref
<1>5. ASSUME NEW o \in Ops, Writing(o)
      PROVE  /\ reqQueue' \in Seq(Reqs) /\ indQueue' \in Seq(Inds)
             /\ writeQueue' \in Seq(Rsps \cup Cmds)
  <2>1. /\ reqQueue' = reqQueue \/ (reqQueue # <<>> /\ reqQueue' = Tail(reqQueue))
        /\ indQueue' = indQueue \/ (indQueue # <<>> /\ indQueue' = Tail(indQueue))
        /\ writeQueue' = writeQueue \/ (writeQueue # <<>> /\ writeQueue' = Tail(writeQueue))
    BY <1>5 DEF Writing, Pick, ReqReady, IndReady
  <2>2. reqQueue # <<>> => Tail(reqQueue) \in Seq(Reqs)
    BY HeadTailProperties DEF TypeOK
  <2>3. indQueue # <<>> => Tail(indQueue) \in Seq(Inds)
    BY HeadTailProperties DEF TypeOK
  <2>4. writeQueue # <<>> => Tail(writeQueue) \in Seq(Rsps \cup Cmds)
    BY HeadTailProperties DEF TypeOK
  <2> QED
    BY <2>1, <2>2, <2>3, <2>4 DEF TypeOK
<1>6. ASSUME NEW o \in Ops, WriteAnswered(o) PROVE TypeOK'
  <2>1. /\ reqQueue' \in Seq(Reqs) /\ indQueue' \in Seq(Inds)
        /\ writeQueue' \in Seq(Rsps \cup Cmds)
    BY <1>5, <1>6 DEF WriteAnswered
  <2>2. timerOf' \in [Ops -> 0..High] /\ timers' \subseteq Ops \X (1..High)
    BY <1>6 DEF TypeOK, WriteAnswered, High
  <2> QED
    BY <1>6, <2>1, <2>2 DEF TypeOK, WriteAnswered
<1>7. ASSUME NEW o \in Ops, WriteOther(o) PROVE TypeOK'
  BY <1>5, <1>7, DestroyTyped DEF TypeOK, WriteOther
<1>8. ASSUME NEW o \in Ops, WriteFails(o) PROVE TypeOK'
  BY <1>5, <1>8 DEF TypeOK, WriteFails, CallBack
<1>9. CASE WriterStops
  BY <1>9 DEF TypeOK, WriterStops
<1>10. CASE WriteFailed
  BY <1>10, DestroyTyped DEF TypeOK, WriteFailed
<1>11. CASE ResponseDone
  BY <1>11, DestroyTyped, WakeupBoolean DEF TypeOK, ResponseDone
<1>12. CASE ConfirmationDone
  BY <1>12, DestroyTyped, WakeupBoolean DEF TypeOK, ConfirmationDone
<1>13. CASE Drop
  BY <1>13, HeadQueue DEF TypeOK, Drop, Dropping, CallBack
<1>14. CASE Dropped
  BY <1>14, DestroyTyped DEF TypeOK, Dropped
<1>15. CASE DropMore
  <2>1. /\ indQueue' \in Seq(Inds) /\ writeQueue' \in Seq(Rsps \cup Cmds)
    BY <1>15 DEF TypeOK, DropMore
  <2>2. left' \in Seq(Ops)
    <3>1. indQueue \in Seq(Ops) /\ writeQueue \in Seq(Ops)
      BY OpSets, SeqMonotonic DEF TypeOK
    <3>2. OneOf(pendingReq) \in Seq(Ops) /\ OneOf(pendingInd) \in Seq(Ops)
      BY OpSets DEF TypeOK, OneOf
    <3>3. <<>> \in Seq(Ops)
      BY EmptySeq
    <3> QED
      BY <1>15, <3>1, <3>2, <3>3 DEF DropMore
  <2> QED
    BY <1>15, <2>1, <2>2 DEF TypeOK, DropMore
<1>16. ASSUME NEW o \in Ops, NEW n \in 1..High, Timeout(o, n) PROVE TypeOK'
  <2>1. state' \in [Ops -> {"new", "live", "silent", "freed"}]
    BY <1>16 DEF TypeOK, Timeout
  <2>2. timerOf' \in [Ops -> 0..High] /\ timers' \subseteq Ops \X (1..High)
    BY <1>16 DEF TypeOK, Timeout, High
  <2> QED
    BY <1>16, <2>1, <2>2 DEF TypeOK, Timeout
<1>17. ASSUME NEW o \in Ops, NEW n \in 1..High, TimeoutIgnored(o, n) PROVE TypeOK'
  BY <1>17 DEF TypeOK, TimeoutIgnored
<1>18. CASE Unexpected
  BY <1>18 DEF TypeOK, Unexpected
<1>19. CASE Retry
  <2>1. reqQueue' \in Seq(Reqs)
    <3>1. <<pendingReq>> \in Seq(Reqs)
      BY <1>19 DEF TypeOK, Retry
    <3> QED
      BY <1>19, <3>1, ConcatQueue DEF TypeOK, Retry
  <2>2. security' \in Low..High
    BY <1>19 DEF TypeOK, Retry, RaisedSecurity, Low, Medium, High
  <2> QED
    BY <1>19, <2>1, <2>2, WakeupBoolean DEF TypeOK, Retry
<1>20. CASE Response
  BY <1>20, OpSets DEF TypeOK, Response, CallBack
<1>21. CASE Confirmation
  BY <1>21, OpSets DEF TypeOK, Confirmation, CallBack
<1>22. CASE ReadRequest
  BY <1>22 DEF TypeOK, ReadRequest
<1>23. CASE Disconnect
  <2>1. left' \in Seq(Ops)
    BY <1>23, OpSets, SeqMonotonic DEF TypeOK, Disconnect
  <2>2. reqQueue' \in Seq(Reqs)
    BY <1>23, EmptySeq DEF Disconnect
  <2> QED
    BY <1>23, <2>1, <2>2 DEF TypeOK, Disconnect
<1>24. CASE UNCHANGED vars
  BY <1>24 DEF TypeOK, vars
<1> QED
  BY <1>1, <1>2, <1>3, <1>4, <1>6, <1>7, <1>8, <1>9, <1>10, <1>11, <1>12, <1>13, <1>14,
     <1>15,
     <1>16, <1>17, <1>18, <1>19, <1>20, <1>21, <1>22, <1>23, <1>24
     DEF Next, User, Write, Done, Expire

----------------------------------------------------------------------------

\* The operations that wait to be sent.
Queued == ToSet(reqQueue) \cup ToSet(indQueue) \cup ToSet(writeQueue)

\* The operations that wait for their answer.
Pending == {pendingReq, pendingInd} \ {None}

\* The operations a handler has taken from their queue to call them back.
Called ==
  (IF Detached THEN ToSet(left) ELSE {}) \cup (IF Taken THEN {cur} \ {None} ELSE {})

\* No queue holds an operation twice.
Single ==
  /\ IsInjective(reqQueue) /\ IsInjective(indQueue) /\ IsInjective(writeQueue)
  /\ IsInjective(left) /\ cur \notin ToSet(left)

\* No operation is in two places.
Apart ==
  /\ pendingReq \notin ToSet(reqQueue) /\ pendingInd \notin ToSet(indQueue)
  /\ (Queued \cup Pending) \cap Called = {}

\* The operations that exist are the ones that are somewhere.
AllHeld ==
  \A o \in Ops : state[o] \in {"live", "silent"} <=> o \in Queued \cup Pending \cup Called

\* What a handler that is interrupted in a callback is about.
InHandler ==
  /\ at \in {"loop", "write", "rsp", "conf"} => left = <<>>
  /\ at = "loop" => cur = None
  /\ at = "write" => cur # None /\ writerActive
  /\ at = "rsp" => cur = pendingReq /\ pendingReq # None
  /\ at = "conf" => cur = pendingInd /\ pendingInd # None
  /\ Dropping => io = "gone"

\* What disconnect_cb still has to work through.
InDrop ==
  /\ at = "dropReqs" => reqQueue = <<>> /\ left \in Seq(Reqs)
  /\ at = "dropInds" => left \in Seq(Inds)
  /\ at = "dropWrites" => left \in Seq(Rsps \cup Cmds)
  /\ at = "dropPendingReq" => ToSet(left) \cup ({cur} \ {None}) \subseteq {pendingReq}
  /\ at = "dropPendingInd" => ToSet(left) \cup ({cur} \ {None}) \subseteq {pendingInd}

\* The inductive invariant: HeldOnce says only that no operation is lost or in two
\* places; where the handlers have them is needed to see that it stays so.
Holding == Single /\ Apart /\ AllHeld /\ InHandler /\ InDrop

\* The types of the queues, as sets of operations.
LEMMA QueueSets ==
  ASSUME TypeOK
  PROVE  /\ ToSet(reqQueue) \subseteq Reqs /\ ToSet(indQueue) \subseteq Inds
         /\ ToSet(writeQueue) \subseteq Rsps \cup Cmds /\ ToSet(left) \subseteq Ops
         /\ ToSet(<<>>) = {} /\ IsInjective(<<>>)
<1>1. ToSet(reqQueue) \subseteq Reqs
  BY ToSetIs, Zenon DEF TypeOK
<1>2. ToSet(indQueue) \subseteq Inds
  BY ToSetIs, Zenon DEF TypeOK
<1>3. ToSet(writeQueue) \subseteq Rsps \cup Cmds
  BY ToSetIs, Zenon DEF TypeOK
<1>4. ToSet(left) \subseteq Ops
  BY ToSetIs, Zenon DEF TypeOK
<1> QED
  BY <1>1, <1>2, <1>3, <1>4, EmptyQueue

\* An operation is queued if one of the three queues has it.
LEMMA QueuedOps ==
  ASSUME TypeOK
  PROVE  ToSet(reqQueue \o indQueue \o writeQueue) = Queued
<1>1. reqQueue \in Seq(Ops) /\ indQueue \in Seq(Ops) /\ writeQueue \in Seq(Ops)
  BY OpSets, SeqMonotonic DEF TypeOK
<1>2. /\ reqQueue \o indQueue \in Seq(Ops)
      /\ ToSet(reqQueue \o indQueue) = ToSet(reqQueue) \cup ToSet(indQueue)
  BY <1>1, ConcatQueue, Zenon
<1>3. ToSet((reqQueue \o indQueue) \o writeQueue)
        = ToSet(reqQueue \o indQueue) \cup ToSet(writeQueue)
  BY <1>1, <1>2, ConcatQueue, Zenon
<1> QED
  BY <1>2, <1>3 DEF Queued

\* The queue of a pending operation, or of none.
LEMMA OneOfQueue ==
  ASSUME NEW o
  PROVE  /\ OneOf(o) \in Seq({o})
         /\ ToSet(OneOf(o)) = {o} \ {None} /\ IsInjective(OneOf(o))
<1>1. CASE o = None
  BY <1>1, EmptyQueue, EmptySeq DEF OneOf
<1>2. CASE o # None
  <2>1. OneOf(o) = <<o>>
    BY <1>2 DEF OneOf
  <2>2. <<o>> \in Seq({o}) /\ ToSet(<<o>>) = {o} /\ IsInjective(<<o>>)
    BY SingleQueue, Zenon
  <2> QED
    BY <1>2, <2>1, <2>2
<1> QED
  BY <1>1, <1>2

\* pick_next_send_op takes one operation out of its queue; it takes a request or an
\* indication only if none is pending.
LEMMA WritingTakes ==
  ASSUME TypeOK, Holding, NEW o \in Ops, Writing(o)
  PROVE  /\ at = "loop" /\ cur = None /\ left = <<>> /\ writerActive
         /\ IsInjective(reqQueue') /\ IsInjective(indQueue') /\ IsInjective(writeQueue')
         /\ o \in Queued \ Pending /\ Queued' = Queued \ {o}
         /\ ToSet(reqQueue') \subseteq ToSet(reqQueue) \ {o}
         /\ ToSet(indQueue') \subseteq ToSet(indQueue) \ {o}
         /\ (o \in Reqs => pendingReq = None) /\ (o \in Inds => pendingInd = None)
         /\ IF o \in Reqs
            THEN reqQueue # <<>> /\ o = Head(reqQueue) /\ reqQueue' = Tail(reqQueue)
            ELSE UNCHANGED reqQueue
<1> USE OpSets, QueueSets
<1>0. Single /\ Apart /\ InHandler
  BY DEF Holding
<1>1. at = "loop" /\ cur = None /\ left = <<>> /\ writerActive
  BY <1>0 DEF Writing, InHandler
<1>2. CASE /\ writeQueue # <<>> /\ o = Head(writeQueue) /\ writeQueue' = Tail(writeQueue)
           /\ UNCHANGED <<reqQueue, indQueue>>
  <2>1. /\ o \in Rsps \cup Cmds /\ IsInjective(writeQueue')
        /\ ToSet(writeQueue) = {o} \cup ToSet(writeQueue') /\ o \notin ToSet(writeQueue')
    BY <1>0, <1>2, HeadQueue, ZenonT(40) DEF TypeOK, Single
  <2> QED
    BY <1>0, <1>1, <1>2, <2>1 DEF TypeOK, Single, Queued, Pending
<1>3. CASE /\ ReqReady /\ o = Head(reqQueue) /\ reqQueue' = Tail(reqQueue)
           /\ UNCHANGED <<indQueue, writeQueue>>
  <2>1. /\ o \in Reqs /\ IsInjective(reqQueue') /\ pendingReq = None
        /\ ToSet(reqQueue) = {o} \cup ToSet(reqQueue') /\ o \notin ToSet(reqQueue')
    BY <1>0, <1>3, HeadQueue DEF TypeOK, Single, ReqReady
  <2> QED
    BY <1>0, <1>1, <1>3, <2>1 DEF TypeOK, Single, Queued, Pending
<1>4. CASE /\ IndReady /\ o = Head(indQueue) /\ indQueue' = Tail(indQueue)
           /\ UNCHANGED <<reqQueue, writeQueue>>
  <2>1. /\ o \in Inds /\ IsInjective(indQueue') /\ pendingInd = None
        /\ ToSet(indQueue) = {o} \cup ToSet(indQueue') /\ o \notin ToSet(indQueue')
    BY <1>0, <1>4, HeadQueue DEF TypeOK, Single, IndReady
  <2> QED
    BY <1>0, <1>1, <1>4, <2>1 DEF TypeOK, Single, Queued, Pending
<1> QED
  BY <1>2, <1>3, <1>4 DEF Writing, Pick

\* Every handler and every call of user code keeps every operation in one place: one step
\* below per action.
LEMMA HoldingStep == TypeOK /\ Holding /\ [Next]_vars => Holding'
<1> SUFFICES ASSUME TypeOK, Holding, [Next]_vars PROVE Holding'
  OBVIOUS
<1> USE OpSets, QueueSets DEF queues, pending, link, ops, loop
<1>0. Single /\ Apart /\ AllHeld /\ InHandler /\ InDrop
  BY DEF Holding
<1>1. ASSUME NEW o \in Ops, Send(o) PROVE Holding'
  <2>1. o \notin Queued \cup Pending \cup Called /\ state[o] = "new" /\ ~Dropping
    BY <1>0, <1>1 DEF Send, AllHeld, InHandler, Open
  <2>2. /\ ToSet(reqQueue') = IF o \in Reqs THEN ToSet(reqQueue) \cup {o} ELSE ToSet(reqQueue)
        /\ IsInjective(reqQueue')
    <3>1. reqQueue \in Seq(Reqs) /\ IsInjective(reqQueue) /\ o \notin ToSet(reqQueue)
      BY <1>0, <2>1 DEF TypeOK, Single, Queued
    <3>2. CASE o \in Reqs
      <4>1. reqQueue' = Append(reqQueue, o)
        BY <1>1, <3>2 DEF Send
      <4>2. /\ ToSet(Append(reqQueue, o)) = ToSet(reqQueue) \cup {o}
            /\ IsInjective(Append(reqQueue, o)) <=> IsInjective(reqQueue) /\ o \notin ToSet(reqQueue)
        BY <3>1, <3>2, AppendQueue, Zenon
      <4> QED
        BY <3>1, <3>2, <4>1, <4>2
    <3>3. CASE o \notin Reqs
      BY <1>1, <3>1, <3>3 DEF Send
    <3> QED
      BY <3>2, <3>3
  <2>3. /\ ToSet(indQueue') = IF o \in Inds THEN ToSet(indQueue) \cup {o} ELSE ToSet(indQueue)
        /\ IsInjective(indQueue')
    <3>1. indQueue \in Seq(Inds) /\ IsInjective(indQueue) /\ o \notin ToSet(indQueue)
      BY <1>0, <2>1 DEF TypeOK, Single, Queued
    <3>2. CASE o \in Inds
      <4>1. indQueue' = Append(indQueue, o)
        BY <1>1, <3>2 DEF Send
      <4>2. /\ ToSet(Append(indQueue, o)) = ToSet(indQueue) \cup {o}
            /\ IsInjective(Append(indQueue, o)) <=> IsInjective(indQueue) /\ o \notin ToSet(indQueue)
        BY <3>1, <3>2, AppendQueue, Zenon
      <4> QED
        BY <3>1, <3>2, <4>1, <4>2
    <3>3. CASE o \notin Inds
      BY <1>1, <3>1, <3>3 DEF Send
    <3> QED
      BY <3>2, <3>3
  <2>4. /\ ToSet(writeQueue') = IF o \in Rsps \cup Cmds THEN ToSet(writeQueue) \cup {o}
                                                       ELSE ToSet(writeQueue)
        /\ IsInjective(writeQueue')
    <3>1. writeQueue \in Seq(Rsps \cup Cmds) /\ IsInjective(writeQueue) /\ o \notin ToSet(writeQueue)
      BY <1>0, <2>1 DEF TypeOK, Single, Queued
    <3>2. CASE o \in Rsps \cup Cmds
      <4>1. writeQueue' = Append(writeQueue, o)
        BY <1>1, <3>2 DEF Send
      <4>2. /\ ToSet(Append(writeQueue, o)) = ToSet(writeQueue) \cup {o}
            /\ IsInjective(Append(writeQueue, o))
                 <=> IsInjective(writeQueue) /\ o \notin ToSet(writeQueue)
        <5> DEFINE W == Rsps \cup Cmds
        <5>1. writeQueue \in Seq(W) /\ o \in W
          BY <3>1, <3>2
        <5> HIDE DEF W
        <5> QED
          BY <5>1, AppendQueue, Zenon
      <4> QED
        BY <3>1, <3>2, <4>1, <4>2
    <3>3. CASE o \notin Rsps \cup Cmds
      BY <1>1, <3>1, <3>3 DEF Send
    <3> QED
      BY <3>2, <3>3
  <2>5. /\ UNCHANGED <<pendingReq, pendingInd, at, cur, left, io>>
        /\ writerActive \in BOOLEAN /\ (writerActive => writerActive')
        /\ state' = [state EXCEPT ![o] = "live"]
    BY <1>1 DEF Send, WakeupWriter, TypeOK
  <2>6. Single'
    BY <1>0, <2>2, <2>3, <2>4, <2>5 DEF Single
  <2>7. Queued' = Queued \cup {o} /\ UNCHANGED <<Pending, Called>>
    BY <2>2, <2>3, <2>4, <2>5 DEF Queued, Pending, Called, Detached, Taken, Ops, Answered
  <2>8. Apart'
    BY <1>0, <2>1, <2>2, <2>3, <2>5, <2>7 DEF Apart, Pending
  <2>9. AllHeld'
    BY <1>0, <2>5, <2>7 DEF AllHeld, TypeOK
  <2>10. InHandler' /\ InDrop'
    BY <1>0, <2>1, <2>5 DEF InHandler, InDrop, Dropping
  <2> QED
    BY <2>6, <2>8, <2>9, <2>10 DEF Holding
<1>2. ASSUME NEW o \in Ops, CancelPending(o) PROVE Holding'
  <2>1. /\ UNCHANGED <<queues, pending, writerActive, io, at, cur, left>>
        /\ state' = [p \in Ops |-> IF p = o THEN "silent" ELSE state[p]]
        /\ o \in Pending
    BY <1>2 DEF CancelPending, Silence, Pending
  <2>2. Single' /\ Apart' /\ InHandler' /\ InDrop'
    BY <1>0, <2>1 DEF Single, Apart, InHandler, InDrop, Queued, Pending, Called,
       Detached, Taken,
                      Dropping
  <2>3. UNCHANGED <<Queued, Pending, Called>>
    BY <2>1 DEF Queued, Pending, Called, Detached, Taken
  <2>4. AllHeld'
    BY <1>0, <2>1, <2>3 DEF AllHeld
  <2> QED
    BY <2>2, <2>4 DEF Holding
<1>3. ASSUME NEW o \in Ops, CancelQueued(o) PROVE Holding'
  <2>1. /\ ToSet(reqQueue') = ToSet(reqQueue) \ {o} /\ IsInjective(reqQueue')
        /\ reqQueue = <<>> => reqQueue' = <<>>
    BY <1>0, <1>3, RemoveOne, ZenonT(40) DEF CancelQueued, TypeOK, Single
  <2>2. ToSet(indQueue') = ToSet(indQueue) \ {o} /\ IsInjective(indQueue')
    BY <1>0, <1>3, RemoveOne DEF CancelQueued, TypeOK, Single
  <2>3. ToSet(writeQueue') = ToSet(writeQueue) \ {o} /\ IsInjective(writeQueue')
    BY <1>0, <1>3, RemoveOne DEF CancelQueued, TypeOK, Single
  <2>4. o \in Queued
    BY <1>3, QueuedOps DEF CancelQueued
  <2>5. /\ UNCHANGED <<pendingReq, pendingInd, at, cur, left, io>>
        /\ writerActive \in BOOLEAN /\ (writerActive => writerActive')
        /\ state' = [p \in Ops |-> IF p = o THEN "freed" ELSE state[p]]
    BY <1>3 DEF CancelQueued, WakeupWriter, TypeOK, Destroy
  <2>6. Single'
    BY <1>0, <2>1, <2>2, <2>3, <2>5 DEF Single
  <2>7. Queued' = Queued \ {o} /\ UNCHANGED <<Pending, Called>>
    BY <2>1, <2>2, <2>3, <2>5 DEF Queued, Pending, Called, Detached, Taken
  <2>8. Apart'
    BY <1>0, <2>1, <2>2, <2>5, <2>7 DEF Apart
  <2>9. o \notin Pending \cup Called
    BY <1>0, <2>4 DEF Apart, Queued, Pending, TypeOK
  <2>10. AllHeld'
    BY <1>0, <2>5, <2>7, <2>9 DEF AllHeld
  <2>11. InHandler' /\ InDrop'
    BY <1>0, <2>1, <2>5 DEF InHandler, InDrop, Dropping
  <2> QED
    BY <2>6, <2>8, <2>10, <2>11 DEF Holding
<1>4. CASE Unref
  <2>1. /\ UNCHANGED <<at, cur, left>> /\ at = "loop" /\ cur = None /\ left = <<>>
        /\ reqQueue' = <<>> /\ indQueue' = <<>> /\ writeQueue' = <<>>
        /\ pendingReq' = None /\ pendingInd' = None
        /\ state' = [p \in Ops |-> IF state[p] \in {"live", "silent"} THEN "freed" ELSE state[p]]
    BY <1>0, <1>4 DEF Unref, Destroy, InHandler
  <2>2. Queued' = {} /\ Pending' = {} /\ Called' = {}
    BY <2>1 DEF Queued, Pending, Called, Detached, Taken
  <2>3. Single' /\ Apart' /\ InHandler' /\ InDrop'
    BY <2>1, <2>2 DEF Single, Apart, InHandler, InDrop, Dropping
  <2>4. AllHeld'
    BY <2>1, <2>2 DEF AllHeld
  <2> QED
    BY <2>3, <2>4 DEF Holding
<1>5. ASSUME NEW o \in Ops, Writing(o)
      PROVE  /\ at = "loop" /\ cur = None /\ left = <<>> /\ writerActive
             /\ IsInjective(reqQueue') /\ IsInjective(indQueue') /\ IsInjective(writeQueue')
             /\ o \in Queued \ Pending /\ Queued' = Queued \ {o}
             /\ ToSet(reqQueue') \subseteq ToSet(reqQueue) \ {o}
             /\ ToSet(indQueue') \subseteq ToSet(indQueue) \ {o}
             /\ (o \in Reqs => pendingReq = None) /\ (o \in Inds => pendingInd = None)
  BY <1>5, WritingTakes
<1>6. ASSUME NEW o \in Ops, WriteAnswered(o) PROVE Holding'
  <2>1. /\ UNCHANGED <<writerActive, io, state, at, cur, left>>
        /\ o \in Answered
        /\ pendingReq' = IF o \in Reqs THEN o ELSE pendingReq
        /\ pendingInd' = IF o \in Inds THEN o ELSE pendingInd
        /\ Writing(o)
    BY <1>6 DEF WriteAnswered
  <2>2. Single' /\ InHandler' /\ InDrop'
    BY <1>0, <1>5, <2>1 DEF Single, InHandler, InDrop, Dropping
  <2>3. Pending' = Pending \cup {o} /\ Called' = {} /\ Called = {}
    BY <1>5, <2>1 DEF Pending, Called, Detached, Taken, Answered
  <2>4. Apart'
    BY <1>0, <1>5, <2>1, <2>3 DEF Apart
  <2>5. AllHeld'
    BY <1>0, <1>5, <2>1, <2>3 DEF AllHeld
  <2> QED
    BY <2>2, <2>4, <2>5 DEF Holding
<1>7. ASSUME NEW o \in Ops, WriteOther(o) PROVE Holding'
  <2>1. /\ UNCHANGED <<pendingReq, pendingInd, writerActive, io, at, cur, left>>
        /\ state' = [p \in Ops |-> IF p = o THEN "freed" ELSE state[p]]
        /\ Writing(o)
    BY <1>7 DEF WriteOther, Destroy
  <2>2. Single' /\ InHandler' /\ InDrop'
    BY <1>0, <1>5, <2>1 DEF Single, InHandler, InDrop, Dropping
  <2>3. Pending' = Pending /\ Called' = {} /\ Called = {}
    BY <1>5, <2>1 DEF Pending, Called, Detached, Taken
  <2>4. Apart'
    BY <1>0, <1>5, <2>1, <2>3 DEF Apart
  <2>5. AllHeld'
    BY <1>0, <1>5, <2>1, <2>3 DEF AllHeld
  <2> QED
    BY <2>2, <2>4, <2>5 DEF Holding
<1>8. ASSUME NEW o \in Ops, WriteFails(o) PROVE Holding'
  <2>1. /\ UNCHANGED <<pendingReq, pendingInd, writerActive, io, state, left>>
        /\ at' = "write" /\ cur' = o
        /\ Writing(o)
    BY <1>8 DEF WriteFails, CallBack
  <2>2. Single' /\ InHandler' /\ InDrop'
    BY <1>0, <1>5, <2>1 DEF Single, InHandler, InDrop, Dropping
  <2>3. Pending' = Pending /\ Called' = {o} /\ Called = {}
    BY <1>5, <2>1 DEF Pending, Called, Detached, Taken
  <2>4. Apart'
    BY <1>0, <1>5, <2>1, <2>3 DEF Apart
  <2>5. AllHeld'
    BY <1>0, <1>5, <2>1, <2>3 DEF AllHeld
  <2> QED
    BY <2>2, <2>4, <2>5 DEF Holding
<1>9. CASE WriterStops
  <2>1. /\ UNCHANGED <<queues, pending, io, state, at, cur, left>>
        /\ at = "loop"
    BY <1>9 DEF WriterStops
  <2> QED
    BY <1>0, <2>1 DEF Holding, Single, Apart, AllHeld, InHandler, InDrop, Queued, Pending,
                      Called, Detached, Taken, Dropping
<1>10. CASE WriteFailed
  <2>1. /\ UNCHANGED <<queues, pending, io, writerActive, left>>
        /\ at = "write" /\ at' = "loop" /\ cur' = None /\ cur # None
        /\ state' = [p \in Ops |-> IF p = cur THEN "freed" ELSE state[p]]
    BY <1>0, <1>10 DEF WriteFailed, Destroy, InHandler
  <2>2. Queued' = Queued /\ Pending' = Pending /\ Called = {cur} /\ Called' = {}
    BY <2>1 DEF Queued, Pending, Called, Detached, Taken
  <2>3. Single' /\ Apart' /\ InHandler' /\ InDrop'
    BY <1>0, <2>1, <2>2 DEF Single, Apart, InHandler, InDrop, Dropping, TypeOK
  <2>4. AllHeld'
    BY <1>0, <2>1, <2>2 DEF AllHeld, Apart
  <2> QED
    BY <2>3, <2>4 DEF Holding
<1>11. CASE ResponseDone
  <2>1. /\ UNCHANGED <<queues, pendingInd, io, left>>
        /\ at = "rsp" /\ at' = "loop" /\ cur' = None /\ pendingReq' = None
        /\ cur = pendingReq /\ pendingReq # None /\ left = <<>>
        /\ state' = [p \in Ops |-> IF p = cur THEN "freed" ELSE state[p]]
    BY <1>0, <1>11 DEF ResponseDone, Destroy, InHandler
  <2>2. /\ Queued' = Queued /\ Pending' = Pending \ {cur} /\ Called = {} /\ Called' = {}
        /\ cur \notin Queued
    BY <1>0, <2>1 DEF Queued, Pending, Called, Detached, Taken, TypeOK, Apart
  <2>3. Single' /\ Apart' /\ InHandler' /\ InDrop'
    BY <1>0, <2>1, <2>2 DEF Single, Apart, InHandler, InDrop, Dropping
  <2>4. AllHeld'
    BY <1>0, <2>1, <2>2 DEF AllHeld
  <2> QED
    BY <2>3, <2>4 DEF Holding
<1>12. CASE ConfirmationDone
  <2>1. /\ UNCHANGED <<queues, pendingReq, io, left>>
        /\ at = "conf" /\ at' = "loop" /\ cur' = None /\ pendingInd' = None
        /\ cur = pendingInd /\ pendingInd # None /\ left = <<>>
        /\ state' = [p \in Ops |-> IF p = cur THEN "freed" ELSE state[p]]
    BY <1>0, <1>12 DEF ConfirmationDone, Destroy, InHandler
  <2>2. /\ Queued' = Queued /\ Pending' = Pending \ {cur} /\ Called = {} /\ Called' = {}
        /\ cur \notin Queued
    BY <1>0, <2>1 DEF Queued, Pending, Called, Detached, Taken, TypeOK, Apart
  <2>3. Single' /\ Apart' /\ InHandler' /\ InDrop'
    BY <1>0, <2>1, <2>2 DEF Single, Apart, InHandler, InDrop, Dropping
  <2>4. AllHeld'
    BY <1>0, <2>1, <2>2 DEF AllHeld
  <2> QED
    BY <2>3, <2>4 DEF Holding
<1>13. CASE Drop
  <2>1. /\ UNCHANGED <<queues, pending, writerActive, io, state, at>>
        /\ Dropping /\ cur = None /\ left # <<>> /\ cur' = Head(left) /\ left' = Tail(left)
    BY <1>13 DEF Drop, CallBack
  <2>2. /\ cur' \in Ops /\ ToSet(left) = {cur'} \cup ToSet(left')
        /\ IsInjective(left') /\ cur' \notin ToSet(left')
    BY <1>0, <2>1, HeadQueue DEF TypeOK, Single
  <2>3. Queued' = Queued /\ Pending' = Pending /\ Called' = Called
    BY <2>1, <2>2 DEF Queued, Pending, Called, Detached, Taken, Dropping
  <2>4. Single' /\ Apart' /\ InHandler'
    BY <1>0, <2>1, <2>2, <2>3 DEF Single, Apart, InHandler, Dropping
  <2>5. InDrop'
    BY <1>0, <2>1, <2>2, HeadTailProperties DEF InDrop
  <2>6. AllHeld'
    BY <1>0, <2>1, <2>3 DEF AllHeld
  <2> QED
    BY <2>4, <2>5, <2>6 DEF Holding
<1>14. CASE Dropped
  <2>1. /\ UNCHANGED <<queues, writerActive, io, at, left>>
        /\ Dropping /\ cur # None /\ cur' = None
        /\ pendingReq' = IF at = "dropPendingReq" THEN None ELSE pendingReq
        /\ pendingInd' = IF at = "dropPendingInd" THEN None ELSE pendingInd
        /\ state' = [p \in Ops |-> IF p = cur THEN "freed" ELSE state[p]]
    BY <1>14 DEF Dropped, Destroy
  <2>2. Single' /\ InHandler'
    BY <1>0, <2>1 DEF Single, InHandler, Dropping
  <2>3. InDrop'
    BY <1>0, <2>1 DEF InDrop, Single
  <2>4. CASE Detached
    <3>1. /\ Queued' = Queued /\ Pending' = Pending /\ Called' = Called \ {cur}
          /\ cur \in Called
      BY <1>0, <2>1, <2>4 DEF Queued, Pending, Called, Detached, Taken, Single
    <3> QED
      BY <1>0, <2>1, <2>2, <2>3, <2>4, <3>1 DEF Holding, Apart, AllHeld, Detached
  <2>5. CASE ~Detached
    <3>1. /\ Queued' = Queued /\ Pending' = Pending \ {cur} /\ Called' = {} /\ Called = {}
          /\ cur \in Pending \ Queued
      BY <1>0, <2>1, <2>5, ZenonT(40) DEF Queued, Pending, Called, Detached, Taken, Dropping,
         InDrop, TypeOK,
                              Apart
    <3>2. Apart'
      BY <1>0, <2>1, <3>1 DEF Apart, TypeOK
    <3> QED
      BY <1>0, <2>1, <2>2, <2>3, <3>1, <3>2 DEF Holding, AllHeld
  <2> QED
    BY <2>4, <2>5
<1>15. CASE DropMore
  <2>1. /\ UNCHANGED <<reqQueue, pending, writerActive, io, state, cur>>
        /\ cur = None /\ left = <<>> /\ Dropping
        /\ indQueue' = IF at = "dropReqs" THEN <<>> ELSE indQueue
        /\ writeQueue' = IF at = "dropInds" THEN <<>> ELSE writeQueue
    BY <1>15 DEF DropMore, Dropping
  <2>2. CASE at = "dropReqs" /\ at' = "dropInds" /\ left' = indQueue
    <3>1. Queued' = Queued \ ToSet(indQueue) /\ Called' = ToSet(indQueue) /\ Called = {}
      BY <2>1, <2>2 DEF Queued, Called, Detached, Taken
    <3> QED
      BY <1>0, <2>1, <2>2, <3>1
         DEF Holding, Single, Apart, AllHeld, InHandler, InDrop, Pending, Dropping,
         TypeOK, Queued
  <2>3. CASE at = "dropInds" /\ at' = "dropWrites" /\ left' = writeQueue
    <3>1. Queued' = Queued \ ToSet(writeQueue) /\ Called' = ToSet(writeQueue) /\ Called = {}
      BY <2>1, <2>3 DEF Queued, Called, Detached, Taken
    <3> QED
      BY <1>0, <2>1, <2>3, <3>1
         DEF Holding, Single, Apart, AllHeld, InHandler, InDrop, Pending, Dropping,
         TypeOK, Queued
  <2>4. CASE \/ at = "dropWrites" /\ at' = "dropPendingReq" /\ left' = OneOf(pendingReq)
             \/ at = "dropPendingReq" /\ at' = "dropPendingInd" /\ left' = OneOf(pendingInd)
             \/ at = "dropPendingInd" /\ at' = "loop" /\ left' = <<>>
    <3>1. Queued' = Queued /\ Called' = {} /\ Called = {} /\ Pending' = Pending
      BY <2>1, <2>4 DEF Queued, Called, Detached, Taken, Pending
    <3>2. /\ ToSet(OneOf(pendingReq)) \subseteq {pendingReq} \ {None}
          /\ ToSet(OneOf(pendingInd)) \subseteq {pendingInd} \ {None}
          /\ IsInjective(OneOf(pendingReq)) /\ IsInjective(OneOf(pendingInd))
      BY OneOfQueue
    <3>3. Single' /\ InHandler' /\ InDrop'
      BY <1>0, <2>1, <2>4, <3>2 DEF Single, InHandler, InDrop, Dropping
    <3>4. Apart' /\ AllHeld'
      BY <1>0, <2>1, <3>1 DEF Apart, AllHeld
    <3> QED
      BY <3>3, <3>4 DEF Holding
  <2> QED
    BY <1>15, <2>2, <2>3, <2>4 DEF DropMore
<1>16. ASSUME NEW o \in Ops, NEW n \in 1..High, Timeout(o, n) PROVE Holding'
  <2>1. /\ UNCHANGED <<queues, writerActive, at, cur, left>>
        /\ at = "loop" /\ cur = None /\ left = <<>> /\ o \in Pending
        /\ state' = [state EXCEPT ![o] = "freed"]
        /\ pendingReq' = IF o \in Reqs THEN None ELSE pendingReq
        /\ pendingInd' = IF o \in Inds THEN None ELSE pendingInd
    BY <1>0, <1>16 DEF Timeout, InHandler, Pending
  <2>2. /\ Queued' = Queued /\ Pending' = Pending \ {o} /\ Called = {} /\ Called' = {}
        /\ o \notin Queued
    BY <1>0, <2>1 DEF Queued, Pending, Called, Detached, Taken, TypeOK, Apart
  <2>3. Single' /\ Apart' /\ InHandler' /\ InDrop'
    BY <1>0, <2>1, <2>2 DEF Single, Apart, InHandler, InDrop, Dropping, TypeOK
  <2>4. AllHeld'
    BY <1>0, <2>1, <2>2 DEF AllHeld, TypeOK
  <2> QED
    BY <2>3, <2>4 DEF Holding
<1>17. ASSUME NEW o \in Ops, NEW n \in 1..High, TimeoutIgnored(o, n) PROVE Holding'
  <2>1. UNCHANGED <<queues, pending, writerActive, io, state, at, cur, left>>
    BY <1>17 DEF TimeoutIgnored
  <2> QED
    BY <1>0, <2>1 DEF Holding, Single, Apart, AllHeld, InHandler, InDrop, Queued, Pending,
                      Called, Detached, Taken, Dropping
<1>18. CASE Unexpected \/ ReadRequest
  <2>1. UNCHANGED <<queues, pending, writerActive, state, at, cur, left>> /\ at = "loop"
    BY <1>18 DEF Unexpected, ReadRequest, Reading
  <2> QED
    BY <1>0, <2>1 DEF Holding, Single, Apart, AllHeld, InHandler, InDrop, Queued, Pending,
                      Called, Detached, Taken, Dropping
<1>19. CASE Retry
  <2>1. /\ UNCHANGED <<indQueue, writeQueue, pendingInd, io, state, at, cur, left>>
        /\ at = "loop" /\ cur = None /\ left = <<>>
        /\ pendingReq # None /\ pendingReq' = None
        /\ reqQueue' = <<pendingReq>> \o reqQueue
    BY <1>0, <1>19 DEF Retry, Reading, InHandler
  <2>2. /\ IsInjective(reqQueue') /\ ToSet(reqQueue') = {pendingReq} \cup ToSet(reqQueue)
    <3>1. /\ <<pendingReq>> \in Seq(Reqs) /\ ToSet(<<pendingReq>>) = {pendingReq}
          /\ IsInjective(<<pendingReq>>)
      BY <2>1, SingleQueue DEF TypeOK
    <3>2. {pendingReq} \cap ToSet(reqQueue) = {}
      BY <1>0 DEF Apart
    <3>3. reqQueue \in Seq(Reqs) /\ IsInjective(reqQueue)
      BY <1>0 DEF Single, TypeOK
    <3>4. /\ ToSet(<<pendingReq>> \o reqQueue) = ToSet(<<pendingReq>>) \cup ToSet(reqQueue)
          /\ IsInjective(<<pendingReq>> \o reqQueue)
               <=> /\ IsInjective(<<pendingReq>>) /\ IsInjective(reqQueue)
                   /\ ToSet(<<pendingReq>>) \cap ToSet(reqQueue) = {}
      BY <3>1, <3>3, ConcatQueue, Zenon
    <3> QED
      BY <2>1, <3>1, <3>2, <3>3, <3>4
  <2>3. /\ Queued' = Queued \cup {pendingReq} /\ Pending' = Pending \ {pendingReq}
        /\ Called = {} /\ Called' = {} /\ pendingReq \in Pending
    BY <2>1, <2>2 DEF Queued, Pending, Called, Detached, Taken, TypeOK
  <2>4. Single' /\ Apart' /\ InHandler' /\ InDrop'
    BY <1>0, <2>1, <2>2, <2>3 DEF Single, Apart, InHandler, InDrop, Dropping, TypeOK
  <2>5. AllHeld'
    BY <1>0, <2>1, <2>3 DEF AllHeld
  <2> QED
    BY <2>4, <2>5 DEF Holding
<1>20. CASE Response \/ Confirmation
  <2>1. /\ UNCHANGED <<queues, pending, writerActive, state, io, left>>
        /\ at = "loop" /\ left = <<>>
        /\ \/ at' = "rsp" /\ pendingReq # None /\ cur' = pendingReq
           \/ at' = "conf" /\ pendingInd # None /\ cur' = pendingInd
    BY <1>0, <1>20 DEF Response, Confirmation, Reading, CallBack, InHandler
  <2>2. Queued' = Queued /\ Pending' = Pending /\ Called' = {} /\ Called = {}
    BY <1>0, <2>1 DEF Queued, Pending, Called, Detached, Taken, InHandler
  <2>3. Single' /\ Apart' /\ InHandler' /\ InDrop'
    BY <1>0, <2>1, <2>2 DEF Single, Apart, InHandler, InDrop, Dropping
  <2>4. AllHeld'
    BY <1>0, <2>1, <2>2 DEF AllHeld
  <2> QED
    BY <2>3, <2>4 DEF Holding
<1>23. CASE Disconnect
  <2>1. /\ UNCHANGED <<indQueue, writeQueue, pending, state, cur>>
        /\ at = "loop" /\ cur = None /\ left = <<>> /\ io' = "gone"
        /\ at' = "dropReqs" /\ left' = reqQueue /\ reqQueue' = <<>>
    BY <1>0, <1>23 DEF Disconnect, InHandler
  <2>2. /\ Queued' = Queued \ ToSet(reqQueue) /\ Pending' = Pending
        /\ Called' = ToSet(reqQueue) /\ Called = {}
    BY <2>1 DEF Queued, Pending, Called, Detached, Taken
  <2>3. Single' /\ InHandler' /\ InDrop'
    BY <1>0, <2>1 DEF Single, InHandler, InDrop, Dropping, TypeOK
  <2>4. Apart'
    BY <1>0, <2>1, <2>2 DEF Apart, Queued, Pending, TypeOK
  <2>5. AllHeld'
    BY <1>0, <2>1, <2>2 DEF AllHeld, Queued
  <2> QED
    BY <2>3, <2>4, <2>5 DEF Holding
<1>24. CASE UNCHANGED vars
  BY <1>0, <1>24 DEF vars, Holding, Single, Apart, AllHeld, InHandler, InDrop, Queued,
     Pending,
                     Called, Detached, Taken, Dropping
<1> QED
  BY <1>1, <1>2, <1>3, <1>4, <1>6, <1>7, <1>8, <1>9, <1>10, <1>11, <1>12, <1>13, <1>14,
     <1>15,
     <1>16, <1>17, <1>18, <1>19, <1>20, <1>23, <1>24
     DEF Next, User, Write, Done, Expire

\* Nothing is held by a transport that bt_att_new has just made.
LEMMA InitHolds == Init => TypeOK /\ Holding
<1> SUFFICES ASSUME Init PROVE TypeOK /\ Holding
  OBVIOUS
<1>1. TypeOK
  <2>1. /\ <<>> \in Seq(Reqs) /\ <<>> \in Seq(Inds) /\ <<>> \in Seq(Rsps \cup Cmds)
        /\ <<>> \in Seq(Ops)
    BY EmptySeq
  <2>2. /\ reqQueue \in Seq(Reqs) /\ indQueue \in Seq(Inds) /\ writeQueue \in Seq(Rsps \cup Cmds)
        /\ left \in Seq(Ops) /\ writerActive \in BOOLEAN /\ inReq \in BOOLEAN
    BY <2>1 DEF Init
  <2>3. /\ security \in Low..High /\ timerOf \in [Ops -> 0..High]
        /\ timers \subseteq Ops \X (1..High)
        /\ state \in [Ops -> {"new", "live", "silent", "freed"}]
    BY DEF Init, Low, High
  <2> QED
    BY <2>2, <2>3 DEF Init, TypeOK
<1>2. /\ ToSet(<<>>) = {} /\ IsInjective(<<>>)
  BY EmptyQueue
<1>3. Queued = {} /\ Pending = {} /\ Called = {}
  BY <1>2 DEF Init, Queued, Pending, Called, Detached, Taken
<1>4. Single /\ Apart /\ AllHeld /\ InHandler /\ InDrop
  BY <1>2, <1>3 DEF Init, Single, Apart, AllHeld, InHandler, InDrop, Dropping
<1> QED
  BY <1>1, <1>4 DEF Holding

\* The transport's fields always have their types.
THEOREM AttTyping == Spec => []TypeOK
  BY InitHolds, TypeStep, PTL DEF Spec

\* The inductive invariant holds.
LEMMA HoldingAlways == Spec => []Holding
  BY InitHolds, AttTyping, HoldingStep, PTL DEF Spec

\* Two queues that share nothing make one without repetition.
LEMMA ConcatApart ==
  ASSUME NEW X, NEW s \in Seq(X), NEW t \in Seq(X), NEW S, NEW T,
         ToSet(s) = S, ToSet(t) = T, IsInjective(s), IsInjective(t), S \cap T = {}
  PROVE  s \o t \in Seq(X) /\ ToSet(s \o t) = S \cup T /\ IsInjective(s \o t)
<1>1. /\ s \o t \in Seq(X) /\ ToSet(s \o t) = ToSet(s) \cup ToSet(t)
      /\ IsInjective(s \o t) <=> IsInjective(s) /\ IsInjective(t) /\ ToSet(s) \cap ToSet(t) = {}
  BY ConcatQueue, ZenonT(40)
<1> QED
  BY <1>1

\* Operations in one place each are in the sequence of all places once.
LEMMA HoldingHeldOnce == TypeOK /\ Holding => HeldOnce
<1> SUFFICES ASSUME TypeOK, Holding PROVE HeldOnce
  OBVIOUS
<1>0. Single /\ Apart /\ AllHeld
  BY DEF Holding
<1> DEFINE a == reqQueue
           b == indQueue
           c == writeQueue
           d == OneOf(pendingReq)
           e == OneOf(pendingInd)
           f == IF Detached THEN left ELSE <<>>
           g == IF Taken THEN OneOf(cur) ELSE <<>>
           D == {pendingReq} \ {None}
           E == {pendingInd} \ {None}
           F == IF Detached THEN ToSet(left) ELSE {}
           G == IF Taken THEN {cur} \ {None} ELSE {}
<1>1. a \in Seq(Ops) /\ b \in Seq(Ops) /\ c \in Seq(Ops)
  BY OpSets, SeqMonotonic DEF TypeOK
<1>2. d \in Seq(Ops) /\ e \in Seq(Ops)
  BY OpSets, EmptySeq DEF TypeOK, OneOf
<1>3. f \in Seq(Ops) /\ g \in Seq(Ops)
  BY OpSets, EmptySeq DEF TypeOK, OneOf
<1>4. ToSet(d) = D /\ ToSet(e) = E /\ IsInjective(d) /\ IsInjective(e)
  BY OneOfQueue
<1>5. ToSet(f) = F /\ ToSet(g) = G /\ IsInjective(f) /\ IsInjective(g)
  <2>1. ToSet(<<>>) = {} /\ IsInjective(<<>>)
    BY EmptyQueue
  <2>2. ToSet(OneOf(cur)) = {cur} \ {None} /\ IsInjective(OneOf(cur))
    BY OneOfQueue
  <2> QED
    BY <1>0, <2>1, <2>2 DEF Single
<1>6. /\ ToSet(a) \subseteq Reqs /\ ToSet(b) \subseteq Inds /\ ToSet(c) \subseteq Rsps \cup Cmds
      /\ IsInjective(a) /\ IsInjective(b) /\ IsInjective(c)
      /\ D \subseteq Reqs \ ToSet(a) /\ E \subseteq Inds \ ToSet(b)
  BY <1>0, QueueSets DEF Single, Apart, TypeOK
<1>7. /\ F \cap G = {}
      /\ (ToSet(a) \cup ToSet(b) \cup ToSet(c) \cup D \cup E) \cap (F \cup G) = {}
  BY <1>0 DEF Single, Apart, Queued, Pending, Called
<1>8. Held = a \o b \o c \o d \o e \o f \o g
  BY DEF Held
<1> DEFINE A == ToSet(a)
           B == ToSet(b)
           C == ToSet(c)
<1>9. ToSet(a) = A /\ ToSet(b) = B /\ ToSet(c) = C
  OBVIOUS
<1>10. A \cup B \cup C \cup D \cup E \cup F \cup G = Queued \cup Pending \cup Called
  BY DEF Queued, Pending, Called
<1>11. /\ A \cap B = {} /\ (A \cup B) \cap C = {} /\ (A \cup B \cup C) \cap D = {}
       /\ (A \cup B \cup C \cup D) \cap E = {} /\ (A \cup B \cup C \cup D \cup E) \cap F = {}
       /\ (A \cup B \cup C \cup D \cup E \cup F) \cap G = {}
  <2>1. A \subseteq Reqs /\ B \subseteq Inds /\ C \subseteq Rsps \cup Cmds
    BY <1>6
  <2> HIDE DEF A, B, C, D, E, F, G
  <2> QED
    BY <1>6, <1>7, <1>9, <2>1, OpSets
<1> DEFINE ab == a \o b
           AB == A \cup B
           abc == ab \o c
           ABC == AB \cup C
           abcd == abc \o d
           ABCD == ABC \cup D
           abcde == abcd \o e
           ABCDE == ABCD \cup E
           abcdef == abcde \o f
           ABCDEF == ABCDE \cup F
           ABCDEFG == ABCDEF \cup G
<1>a. /\ A \cap B = {} /\ AB \cap C = {} /\ ABC \cap D = {} /\ ABCD \cap E = {}
      /\ ABCDE \cap F = {} /\ ABCDEF \cap G = {}
  BY <1>11
<1> HIDE DEF a, b, c, d, e, f, g, A, B, C, D, E, F, G
<1>12. ab \in Seq(Ops) /\ ToSet(ab) = AB /\ IsInjective(ab)
  BY <1>1, <1>6, <1>9, <1>a, ConcatApart
<1> HIDE DEF ab, AB
<1>13. abc \in Seq(Ops) /\ ToSet(abc) = ABC /\ IsInjective(abc)
  BY <1>1, <1>6, <1>9, <1>a, <1>12, ConcatApart
<1> HIDE DEF abc, ABC
<1>14. abcd \in Seq(Ops) /\ ToSet(abcd) = ABCD /\ IsInjective(abcd)
  BY <1>2, <1>4, <1>a, <1>13, ConcatApart
<1> HIDE DEF abcd, ABCD
<1>15. abcde \in Seq(Ops) /\ ToSet(abcde) = ABCDE /\ IsInjective(abcde)
  BY <1>2, <1>4, <1>a, <1>14, ConcatApart
<1> HIDE DEF abcde, ABCDE
<1>16. abcdef \in Seq(Ops) /\ ToSet(abcdef) = ABCDEF /\ IsInjective(abcdef)
  BY <1>3, <1>5, <1>a, <1>15, ConcatApart
<1> HIDE DEF abcdef, ABCDEF
<1>17. /\ ToSet(abcdef \o g) = ABCDEFG /\ IsInjective(abcdef \o g)
  BY <1>3, <1>5, <1>a, <1>16, ConcatApart
<1>18. Queued \cup Pending \cup Called = {o \in Ops : state[o] \in {"live", "silent"}}
  <2>1. Queued \cup Pending \cup Called \subseteq Ops
    BY OpSets, QueueSets DEF Queued, Pending, Called, TypeOK
  <2> QED
    BY <1>0, <2>1 DEF AllHeld
<1> QED
  BY <1>8, <1>10, <1>17, <1>18
     DEF HeldOnce, ab, abc, abcd, abcde, abcdef, AB, ABC, ABCD, ABCDE, ABCDEF

\* Every operation that was sent and is not destroyed is held in one place, once: no
\* handler and no callback of att.c leaks one, frees one twice or uses one it freed.
THEOREM OpsHeldOnce == Spec => []HeldOnce
  BY AttTyping, HoldingAlways, HoldingHeldOnce, PTL

\* Every step that makes something ready to send calls wakeup_writer, or a handler that
\* is under way does before it returns to the loop.
LEMMA AwakeStep == TypeOK /\ Holding /\ WriterAwake /\ [Next]_vars => WriterAwake'
<1> SUFFICES ASSUME TypeOK, Holding, WriterAwake, [Next]_vars,
                    io' = "up", at' = "loop", Sendable'
             PROVE  writerActive'
  BY DEF WriterAwake
<1> USE DEF queues, pending, link, ops, loop
<1>0. /\ at = "write" => writerActive
      /\ Dropping => io = "gone"
  BY DEF Holding, InHandler
<1>1. CASE UNCHANGED <<queues, pending, writerActive>> /\ at = "loop" /\ io = "up"
  BY <1>1 DEF WriterAwake, Sendable, ReqReady, IndReady
<1>2. CASE WakeupWriter
  <2>1. writerActive' = (writerActive \/ (Open' /\ Sendable'))
    BY <1>2 DEF WakeupWriter
  <2>2. Open'
    BY DEF Open
  <2> QED
    BY <2>1, <2>2, Zenon
<1>3. CASE writerActive /\ UNCHANGED writerActive
  BY <1>3
<1>4. CASE User
  BY <1>1, <1>2, <1>4 DEF User, Send, CancelPending, CancelQueued, Unref
<1>5. CASE Write
  <2>1. ASSUME NEW o \in Ops, WriteAnswered(o) \/ WriteOther(o) \/ WriteFails(o)
        PROVE  writerActive'
    BY <1>3, <2>1 DEF WriteAnswered, WriteOther, WriteFails, Writing
  <2>2. CASE WriterStops
    BY <2>2 DEF WriterStops, Sendable, ReqReady, IndReady
  <2> QED
    BY <1>5, <2>1, <2>2 DEF Write
<1>6. CASE Done
  <2>1. CASE WriteFailed
    BY <1>0, <1>3, <2>1 DEF WriteFailed
  <2>2. CASE ResponseDone \/ ConfirmationDone
    BY <1>2, <2>2 DEF ResponseDone, ConfirmationDone
  <2>3. CASE Drop \/ Dropped \/ DropMore
    BY <1>0, <2>3 DEF Drop, Dropped, DropMore, Dropping
  <2> QED
    BY <1>6, <2>1, <2>2, <2>3 DEF Done
<1>7. CASE Expire
  <2>1. ASSUME NEW o \in Ops, NEW n \in 1..High, Timeout(o, n) \/ TimeoutIgnored(o, n)
        PROVE  writerActive'
    BY <1>1, <2>1 DEF Timeout, TimeoutIgnored
  <2> QED
    BY <1>7, <2>1 DEF Expire
<1>8. CASE Unexpected \/ Response \/ Confirmation \/ ReadRequest \/ Disconnect
  BY <1>1, <1>8 DEF Unexpected, Response, Confirmation, ReadRequest, Disconnect,
     Reading, CallBack
<1>9. CASE Retry
  BY <1>2, <1>9 DEF Retry
<1>10. CASE UNCHANGED vars
  BY <1>1, <1>10 DEF vars
<1> QED
  BY <1>4, <1>5, <1>6, <1>7, <1>8, <1>9, <1>10 DEF Next

\* Nothing waits at first.
LEMMA InitAwake == Init => WriterAwake
  BY DEF Init, WriterAwake, Sendable, ReqReady, IndReady

\* While the connection is up, nothing is ready to send without the write handler of
\* wakeup_writer being set.
THEOREM WriterStaysAwake == Spec => []WriterAwake
  BY InitAwake, AttTyping, HoldingAlways, AwakeStep, PTL DEF Spec

----------------------------------------------------------------------------

\* The requests that wait for their turn: RequestLine's waiting, flying (pendingReq) and
\* finished under the refinement mapping.
Waiting == IF at = "dropReqs" THEN left \o reqQueue ELSE reqQueue

\* The requests that were finished, or are as soon as their callback returns.
Finished == {r \in Reqs : state[r] = "freed" \/ (Taken /\ cur = r)}

\* A step of RequestLine, or none, of what the mapping gives.
LineStep == [Line!Next]_<<Waiting, pendingReq, Finished>>

\* RequestLine's operators on queues are the transport's.
LEMMA LineOperators ==
  /\ \A s : Line!ToSet(s) = ToSet(s)
  /\ \A q, gone : Line!RemoveAll(q, gone) = RemoveAll(q, gone)
<1>1. \A s : Line!ToSet(s) = ToSet(s)
  BY DEF ToSet, Line!ToSet
<1>2. \A q, gone : Line!RemoveAll(q, gone) = RemoveAll(q, gone)
  BY DEF RemoveAll, Line!RemoveAll
<1> QED
  BY <1>1, <1>2

\* What has to be shown of a step of the transport for each action of RequestLine it may
\* be: a request joins the line, starts, is put back at the head, ends, leaves with
\* others before its turn, or everything is dropped.
LEMMA LineActions ==
  /\ \A r \in Reqs :
       /\ r \notin Finished \cup ToSet(Waiting) \cup {pendingReq}
       /\ Waiting' = Append(Waiting, r) /\ UNCHANGED <<pendingReq, Finished>>
       => LineStep
  /\ /\ pendingReq = None /\ Waiting # <<>>
     /\ pendingReq' = Head(Waiting) /\ Waiting' = Tail(Waiting) /\ UNCHANGED Finished
     => LineStep
  /\ /\ pendingReq # None /\ pendingReq' = None
     /\ Waiting' = <<pendingReq>> \o Waiting /\ UNCHANGED Finished
     => LineStep
  /\ /\ pendingReq # None /\ pendingReq' = None
     /\ Finished' = Finished \cup {pendingReq} /\ UNCHANGED Waiting
     => LineStep
  /\ \A gone \in SUBSET Reqs :
       /\ gone \subseteq ToSet(Waiting) /\ Waiting' = RemoveAll(Waiting, gone)
       /\ Finished' = Finished \cup gone /\ UNCHANGED pendingReq
       => LineStep
  /\ /\ Waiting' = <<>> /\ pendingReq' = None
     /\ Finished' = Finished \cup ToSet(Waiting) \cup ({pendingReq} \ {None})
     => LineStep
  /\ UNCHANGED <<Waiting, pendingReq, Finished>> => LineStep
<1> USE DEF LineStep, Line!Next, Waiting, Finished
<1>1. ASSUME NEW r \in Reqs, r \notin Finished \cup ToSet(Waiting) \cup {pendingReq},
             Waiting' = Append(Waiting, r), UNCHANGED <<pendingReq, Finished>>
      PROVE  LineStep
  <2>1. Line!Ask(r)
    BY <1>1, LineOperators DEF Line!Ask
  <2> QED
    BY <2>1
<1>2. ASSUME pendingReq = None, Waiting # <<>>,
             pendingReq' = Head(Waiting), Waiting' = Tail(Waiting), UNCHANGED Finished
      PROVE  LineStep
  <2>1. Line!Fly
    BY <1>2 DEF Line!Fly
  <2> QED
    BY <2>1
<1>3. ASSUME pendingReq # None, pendingReq' = None,
             Waiting' = <<pendingReq>> \o Waiting, UNCHANGED Finished
      PROVE  LineStep
  <2>1. Line!Refused
    BY <1>3 DEF Line!Refused
  <2> QED
    BY <2>1
<1>4. ASSUME pendingReq # None, pendingReq' = None,
             Finished' = Finished \cup {pendingReq}, UNCHANGED Waiting
      PROVE  LineStep
  <2>1. Line!Land
    BY <1>4 DEF Line!Land
  <2> QED
    BY <2>1
<1>5. ASSUME NEW gone \in SUBSET Reqs, gone \subseteq ToSet(Waiting),
             Waiting' = RemoveAll(Waiting, gone),
             Finished' = Finished \cup gone, UNCHANGED pendingReq
      PROVE  LineStep
  <2>1. Line!Leave(gone)
    BY <1>5, LineOperators DEF Line!Leave
  <2> QED
    BY <2>1
<1>6. ASSUME Waiting' = <<>>, pendingReq' = None,
             Finished' = Finished \cup ToSet(Waiting) \cup ({pendingReq} \ {None})
      PROVE  LineStep
  <2>1. Line!Close
    BY <1>6, LineOperators DEF Line!Close
  <2> QED
    BY <2>1
<1>7. UNCHANGED <<Waiting, pendingReq, Finished>> => LineStep
  OBVIOUS
<1> HIDE DEF LineStep, Line!Next, Waiting, Finished
<1> QED
  BY <1>1, <1>2, <1>3, <1>4, <1>5, <1>6, <1>7

\* What waits under the mapping, in and outside disconnect_cb.
LEMMA WaitingIs ==
  ASSUME TypeOK, Holding
  PROVE  /\ Waiting \in Seq(Reqs) /\ IsInjective(Waiting)
         /\ at = "dropReqs" => Waiting = left /\ reqQueue = <<>>
         /\ at # "dropReqs" => Waiting = reqQueue
<1>1. CASE at = "dropReqs"
  <2>1. reqQueue = <<>> /\ left \in Seq(Reqs) /\ IsInjective(left)
    BY <1>1 DEF Holding, InDrop, Single
  <2>2. left \o <<>> = left
    BY <2>1, ConcatEmptySeq
  <2> QED
    BY <1>1, <2>1, <2>2 DEF Waiting
<1>2. CASE at # "dropReqs"
  BY <1>2 DEF TypeOK, Holding, Single, Waiting
<1> QED
  BY <1>1, <1>2

\* Every step of the transport is one of RequestLine or leaves the requests alone: one
\* step below per action.
LEMMA FollowStep == TypeOK /\ Holding /\ Holding' /\ TypeOK' /\ [Next]_vars => LineStep
<1> SUFFICES ASSUME TypeOK, Holding, Holding', TypeOK', [Next]_vars PROVE LineStep
  OBVIOUS
<1> USE OpSets, QueueSets DEF queues, pending, link, ops, loop
<1>0. Single /\ Apart /\ AllHeld /\ InHandler /\ InDrop
  BY DEF Holding
<1>w. /\ Waiting \in Seq(Reqs) /\ IsInjective(Waiting)
      /\ at = "dropReqs" => Waiting = left /\ reqQueue = <<>>
      /\ at # "dropReqs" => Waiting = reqQueue
  BY WaitingIs
<1>v. /\ at' = "dropReqs" => Waiting' = left' /\ reqQueue' = <<>>
      /\ at' # "dropReqs" => Waiting' = reqQueue'
  <2>1. at' = "dropReqs" => reqQueue' = <<>> /\ left' \in Seq(Reqs)
    BY DEF Holding, InDrop
  <2>2. left' \in Seq(Reqs) => left' \o <<>> = left'
    BY ConcatEmptySeq
  <2> QED
    BY <2>1, <2>2 DEF Waiting
<1>s. /\ UNCHANGED <<reqQueue, left, at>> => UNCHANGED Waiting
      /\ UNCHANGED <<state, cur, at>> => UNCHANGED Finished
  BY DEF Waiting, Finished, Taken
<1>1. ASSUME NEW o \in Ops, Send(o) PROVE LineStep
  <2>1. o \notin Queued \cup Pending \cup Called /\ state[o] = "new" /\ ~Dropping
    BY <1>0, <1>1 DEF Send, AllHeld, InHandler, Open
  <2>2. /\ UNCHANGED <<pendingReq, at, cur, left>>
        /\ state' = [state EXCEPT ![o] = "live"]
        /\ reqQueue' = IF o \in Reqs THEN Append(reqQueue, o) ELSE reqQueue
    BY <1>1 DEF Send
  <2>3. UNCHANGED Finished
    BY <2>1, <2>2 DEF Finished, Taken, TypeOK
  <2>4. at # "dropReqs"
    BY <2>1 DEF Dropping
  <2>5. CASE o \in Reqs
    <3>1. o \notin Finished
      BY <2>1 DEF Finished, Taken, Called
    <3>2. o \notin ToSet(Waiting) \cup {pendingReq}
      BY <1>w, <2>1, <2>4 DEF Queued, Pending
    <3>3. Waiting' = Append(Waiting, o)
      BY <1>v, <1>w, <2>2, <2>4, <2>5
    <3> QED
      BY <2>2, <2>3, <2>5, <3>1, <3>2, <3>3, LineActions
  <2>6. CASE o \notin Reqs
    BY <1>v, <1>w, <2>2, <2>3, <2>4, <2>6, LineActions
  <2> QED
    BY <2>5, <2>6
<1>2. ASSUME NEW o \in Ops, CancelPending(o) PROVE LineStep
  <2>1. /\ UNCHANGED <<reqQueue, pendingReq, at, cur, left>>
        /\ state' = [p \in Ops |-> IF p = o THEN "silent" ELSE state[p]]
        /\ o \in Pending
    BY <1>2 DEF CancelPending, Silence, Pending
  <2>2. state[o] # "freed"
    BY <1>0, <2>1 DEF AllHeld
  <2>3. UNCHANGED Finished
    BY <2>1, <2>2 DEF Finished, Taken
  <2> QED
    BY <1>s, <2>1, <2>3, LineActions
<1>3. ASSUME NEW o \in Ops, CancelQueued(o) PROVE LineStep
  <2>1. /\ UNCHANGED <<pendingReq, at, cur, left>>
        /\ state' = [p \in Ops |-> IF p = o THEN "freed" ELSE state[p]]
        /\ reqQueue' = RemoveIf(reqQueue, {o})
        /\ o \in Queued
    BY <1>3, QueuedOps DEF CancelQueued, Destroy
  <2>2. reqQueue \in Seq(Reqs) /\ IsInjective(reqQueue)
    BY <1>0 DEF Single, TypeOK
  <2>3. /\ RemoveIf(reqQueue, {o}) = RemoveAll(reqQueue, {o})
        /\ o \notin ToSet(reqQueue) => RemoveIf(reqQueue, {o}) = reqQueue
    BY <2>2, RemoveOne, Zenon
  <2>4. CASE o \in Reqs
    <3>1. o \in ToSet(reqQueue) /\ at # "dropReqs"
      BY <1>0, <2>1, <2>4 DEF Queued, InDrop
    <3>2. Finished' = Finished \cup {o}
      BY <2>1, <2>4 DEF Finished, Taken
    <3>5. /\ {o} \in SUBSET Reqs /\ {o} \subseteq ToSet(Waiting)
          /\ Waiting' = RemoveAll(Waiting, {o}) /\ Finished' = Finished \cup {o}
          /\ UNCHANGED pendingReq
      BY <1>v, <1>w, <2>1, <2>3, <2>4, <3>1, <3>2
    <3> QED
      BY <3>5, LineActions
  <2>5. CASE o \notin Reqs
    <3>1. UNCHANGED <<reqQueue, Finished>>
      BY <2>1, <2>3, <2>5 DEF Finished, Taken
    <3> QED
      BY <1>s, <2>1, <3>1, LineActions
  <2> QED
    BY <2>4, <2>5
<1>4. CASE Unref
  <2>1. /\ UNCHANGED <<at, cur, left>> /\ at = "loop" /\ cur = None /\ left = <<>>
        /\ reqQueue' = <<>> /\ pendingReq' = None
        /\ state' = [p \in Ops |-> IF state[p] \in {"live", "silent"} THEN "freed" ELSE state[p]]
    BY <1>0, <1>4 DEF Unref, Destroy, InHandler
  <2>2. \A r \in Reqs : state[r] \in {"live", "silent"}
                          <=> r \in ToSet(reqQueue) \cup ({pendingReq} \ {None})
    BY <1>0, <2>1 DEF AllHeld, Queued, Pending, Called, Detached, Taken, TypeOK
  <2>3. Finished' = Finished \cup ToSet(reqQueue) \cup ({pendingReq} \ {None})
    BY <2>1, <2>2 DEF Finished, Taken, TypeOK
  <2> QED
    BY <1>v, <1>w, <2>1, <2>3, LineActions
<1>5. ASSUME NEW o \in Ops, Writing(o)
      PROVE  /\ at = "loop" /\ cur = None /\ left = <<>>
             /\ IF o \in Reqs
                THEN /\ pendingReq = None /\ reqQueue # <<>>
                     /\ o = Head(reqQueue) /\ reqQueue' = Tail(reqQueue)
                ELSE UNCHANGED reqQueue
  BY <1>5, WritingTakes
<1>6. ASSUME NEW o \in Ops, WriteAnswered(o) PROVE LineStep
  <2>1. /\ UNCHANGED <<state, at, cur, left>>
        /\ pendingReq' = IF o \in Reqs THEN o ELSE pendingReq
        /\ Writing(o)
    BY <1>6 DEF WriteAnswered
  <2> QED
    BY <1>5, <1>s, <1>v, <1>w, <2>1, LineActions
<1>7. ASSUME NEW o \in Ops, WriteOther(o) PROVE LineStep
  <2>1. /\ UNCHANGED <<pendingReq, at, cur, left>>
        /\ state' = [p \in Ops |-> IF p = o THEN "freed" ELSE state[p]]
        /\ Writing(o) /\ o \notin Reqs
    BY <1>7 DEF WriteOther, Destroy
  <2>2. UNCHANGED Finished
    BY <2>1 DEF Finished, Taken
  <2> QED
    BY <1>5, <1>s, <2>1, <2>2, LineActions
<1>8. ASSUME NEW o \in Ops, WriteFails(o) PROVE LineStep
  <2>1. /\ UNCHANGED <<pendingReq, state, left>>
        /\ at' = "write" /\ cur' = o
        /\ Writing(o) /\ at = "loop"
    BY <1>8 DEF WriteFails, CallBack, Writing
  <2>2. CASE o \in Reqs
    <3>1. reqQueue # <<>> /\ reqQueue \in Seq(Reqs) /\ IsInjective(reqQueue)
      BY <1>0, <1>5, <2>1, <2>2 DEF Single, TypeOK
    <3>2. RemoveAll(reqQueue, {Head(reqQueue)}) = Tail(reqQueue)
      BY <3>1, RemoveHead
    <3>3. Head(reqQueue) \in ToSet(reqQueue)
      BY <3>1, RemoveHead
    <3>4. Finished' = Finished \cup {o}
      BY <2>1, <2>2 DEF Finished, Taken
    <3>5. /\ {o} \in SUBSET Reqs /\ {o} \subseteq ToSet(Waiting)
          /\ Waiting' = RemoveAll(Waiting, {o}) /\ Finished' = Finished \cup {o}
          /\ UNCHANGED pendingReq
      BY <1>5, <1>v, <1>w, <2>1, <2>2, <3>2, <3>3, <3>4
    <3> QED
      BY <3>5, LineActions
  <2>3. CASE o \notin Reqs
    <3>1. UNCHANGED Finished
      BY <2>1, <2>3 DEF Finished, Taken
    <3> QED
      BY <1>5, <1>v, <1>w, <2>1, <2>3, <3>1, LineActions
  <2> QED
    BY <2>2, <2>3
<1>9. CASE WriteFailed
  <2>1. /\ UNCHANGED <<reqQueue, pendingReq, left>>
        /\ at = "write" /\ at' = "loop" /\ cur' = None /\ cur # None
        /\ state' = [p \in Ops |-> IF p = cur THEN "freed" ELSE state[p]]
    BY <1>0, <1>9 DEF WriteFailed, Destroy, InHandler
  <2>2. UNCHANGED Finished
    BY <2>1 DEF Finished, Taken
  <2> QED
    BY <1>v, <1>w, <2>1, <2>2, LineActions
<1>10. CASE ResponseDone
  <2>1. /\ UNCHANGED <<reqQueue, left>>
        /\ at = "rsp" /\ at' = "loop" /\ pendingReq' = None
        /\ cur = pendingReq /\ pendingReq # None
        /\ state' = [p \in Ops |-> IF p = cur THEN "freed" ELSE state[p]]
    BY <1>0, <1>10 DEF ResponseDone, Destroy, InHandler
  <2>2. Finished' = Finished \cup {pendingReq}
    BY <2>1 DEF Finished, Taken, TypeOK
  <2> QED
    BY <1>v, <1>w, <2>1, <2>2, LineActions
<1>11. CASE ConfirmationDone
  <2>1. /\ UNCHANGED <<reqQueue, pendingReq, left>>
        /\ at = "conf" /\ at' = "loop" /\ cur \notin Reqs
        /\ state' = [p \in Ops |-> IF p = cur THEN "freed" ELSE state[p]]
    BY <1>0, <1>11 DEF ConfirmationDone, Destroy, InHandler, TypeOK
  <2>2. UNCHANGED Finished
    BY <2>1 DEF Finished, Taken
  <2> QED
    BY <1>v, <1>w, <2>1, <2>2, LineActions
<1>12. CASE Drop
  <2>1. /\ UNCHANGED <<reqQueue, pendingReq, state, at>>
        /\ Dropping /\ cur = None /\ left # <<>> /\ cur' = Head(left) /\ left' = Tail(left)
    BY <1>12 DEF Drop, CallBack
  <2>2. CASE at = "dropReqs"
    <3>1. left \in Seq(Reqs) /\ IsInjective(left) /\ Waiting = left /\ Waiting' = left'
      BY <1>0, <1>v, <1>w, <2>1, <2>2 DEF InDrop, Single
    <3>2. RemoveAll(left, {Head(left)}) = Tail(left)
      BY <2>1, <3>1, RemoveHead
    <3>3. Head(left) \in ToSet(left) /\ Head(left) \in Reqs
      BY <2>1, <3>1, RemoveHead
    <3>4. Finished' = Finished \cup {Head(left)}
      BY <2>1, <2>2, <3>3 DEF Finished, Taken
    <3>5. /\ {Head(left)} \in SUBSET Reqs /\ {Head(left)} \subseteq ToSet(Waiting)
          /\ Waiting' = RemoveAll(Waiting, {Head(left)}) /\ Finished' = Finished \cup {Head(left)}
          /\ UNCHANGED pendingReq
      BY <2>1, <3>1, <3>2, <3>3, <3>4
    <3> QED
      BY <3>5, LineActions
  <2>3. CASE at # "dropReqs"
    <3>1. at \in {"dropInds", "dropWrites"} => cur' \notin Reqs
      BY <1>0, <2>1, HeadQueue DEF InDrop
    <3>2. UNCHANGED Finished
      BY <2>1, <2>3, <3>1 DEF Finished, Taken, Dropping
    <3> QED
      BY <1>v, <1>w, <2>1, <2>3, <3>2, LineActions
  <2> QED
    BY <2>2, <2>3
<1>13. CASE Dropped
  <2>1. /\ UNCHANGED <<reqQueue, at, left>>
        /\ Dropping /\ cur # None /\ cur' = None
        /\ pendingReq' = IF at = "dropPendingReq" THEN None ELSE pendingReq
        /\ state' = [p \in Ops |-> IF p = cur THEN "freed" ELSE state[p]]
    BY <1>13 DEF Dropped, Destroy
  <2>2. CASE Taken
    <3>1. UNCHANGED Finished
      BY <2>1, <2>2 DEF Finished, Taken
    <3> QED
      BY <1>s, <2>1, <2>2, <3>1, LineActions DEF Taken
  <2>3. CASE at = "dropPendingReq"
    <3>1. cur = pendingReq /\ cur \in Reqs
      BY <1>0, <2>1, <2>3 DEF InDrop, TypeOK
    <3>2. Finished' = Finished \cup {pendingReq}
      BY <2>1, <2>3, <3>1 DEF Finished, Taken
    <3> QED
      BY <1>s, <2>1, <2>3, <3>1, <3>2, LineActions
  <2>4. CASE at = "dropPendingInd"
    <3>1. cur \notin Reqs
      BY <1>0, <2>1, <2>4 DEF InDrop, TypeOK
    <3>2. UNCHANGED Finished
      BY <2>1, <2>4, <3>1 DEF Finished, Taken
    <3> QED
      BY <1>s, <2>1, <2>4, <3>2, LineActions
  <2> QED
    BY <2>1, <2>2, <2>3, <2>4 DEF Dropping, Taken
<1>14. CASE DropMore
  <2>1. /\ UNCHANGED <<reqQueue, pendingReq, state, cur>>
        /\ cur = None /\ left = <<>>
        /\ at = "dropReqs" => at' = "dropInds"
        /\ at' # "dropReqs"
    BY <1>14 DEF DropMore
  <2>2. UNCHANGED Finished
    BY <2>1 DEF Finished, Taken
  <2>3. UNCHANGED Waiting
    BY <1>v, <1>w, <2>1
  <2> QED
    BY <2>1, <2>2, <2>3, LineActions
<1>15. ASSUME NEW o \in Ops, NEW n \in 1..High, Timeout(o, n) PROVE LineStep
  <2>1. /\ UNCHANGED <<reqQueue, at, cur, left>>
        /\ at = "loop" /\ cur = None
        /\ state' = [state EXCEPT ![o] = "freed"]
        /\ pendingReq' = IF o \in Reqs THEN None ELSE pendingReq
        /\ o \in {pendingReq, pendingInd} /\ pendingReq \in Reqs \cup {None}
        /\ pendingInd \in Inds \cup {None} /\ state \in [Ops -> {"new", "live", "silent", "freed"}]
    BY <1>0, <1>15 DEF Timeout, InHandler, TypeOK
  <2>2. CASE o \in Reqs
    <3>1. pendingReq = o
      BY <2>1, <2>2
    <3>2. Finished' = Finished \cup {pendingReq}
      BY <2>1, <2>2, <3>1 DEF Finished, Taken
    <3> QED
      BY <1>s, <2>1, <2>2, <3>1, <3>2, LineActions
  <2>3. CASE o \notin Reqs
    <3>1. UNCHANGED Finished
      BY <2>1, <2>3 DEF Finished, Taken
    <3> QED
      BY <1>s, <2>1, <2>3, <3>1, LineActions
  <2> QED
    BY <2>2, <2>3
<1>16. ASSUME UNCHANGED <<reqQueue, pendingReq, state, at, cur, left>> PROVE LineStep
  BY <1>s, <1>16, LineActions
<1>17. ASSUME NEW o \in Ops, NEW n \in 1..High, TimeoutIgnored(o, n) PROVE LineStep
  BY <1>16, <1>17 DEF TimeoutIgnored
<1>18. CASE Unexpected \/ ReadRequest \/ WriterStops \/ UNCHANGED vars
  BY <1>16, <1>18 DEF Unexpected, ReadRequest, WriterStops, vars
<1>19. CASE Retry
  <2>1. /\ UNCHANGED <<state, at, cur, left>> /\ at = "loop"
        /\ pendingReq # None /\ pendingReq' = None
        /\ reqQueue' = <<pendingReq>> \o reqQueue
    BY <1>0, <1>19 DEF Retry, Reading
  <2> QED
    BY <1>s, <1>v, <1>w, <2>1, LineActions
<1>20. CASE Response \/ Confirmation
  <2>1. /\ UNCHANGED <<reqQueue, pendingReq, state, left>>
        /\ at = "loop" /\ at' \in {"rsp", "conf"}
    BY <1>20 DEF Response, Confirmation, Reading, CallBack
  <2>2. UNCHANGED Finished
    BY <2>1 DEF Finished, Taken
  <2> QED
    BY <1>v, <1>w, <2>1, <2>2, LineActions
<1>21. CASE Disconnect
  <2>1. /\ UNCHANGED <<pendingReq, state, cur>>
        /\ at = "loop" /\ cur = None
        /\ at' = "dropReqs" /\ left' = reqQueue
    BY <1>0, <1>21 DEF Disconnect, InHandler
  <2>2. UNCHANGED Finished
    BY <2>1 DEF Finished, Taken
  <2> QED
    BY <1>v, <1>w, <2>1, <2>2, LineActions
<1> QED
  BY <1>1, <1>2, <1>3, <1>4, <1>6, <1>7, <1>8, <1>9, <1>10, <1>11, <1>12, <1>13, <1>14,
     <1>15,
     <1>17, <1>18, <1>19, <1>20, <1>21
     DEF Next, User, Write, Done, Expire

\* The line is empty at first.
LEMMA InitLine == Init => Line!Init
<1>1. ASSUME Init PROVE Waiting = <<>> /\ pendingReq = None /\ Finished = {}
  BY <1>1, OpSets DEF Init, Waiting, Finished, Taken
<1> QED
  BY <1>1 DEF Line!Init, Waiting, Finished

\* The transport implements RequestLine: requests are sent in the order of bt_att_send,
\* one at a time, and one that is refused for its security (handle_error_rsp) is sent
\* again before the others.
THEOREM RequestsFollowLine == Spec => FollowsLine
<1>2. LineStep <=> [Line!Next]_<<Waiting, pendingReq, Finished>>
  BY DEF LineStep
<1> QED
  BY InitLine, <1>2, AttTyping, HoldingAlways, FollowStep, PTL
     DEF Spec, FollowsLine, Line!Spec, Waiting, Finished

-----------------------------------------------------------------------------
\* GAttrib: the requests of the helper over it.

\* What g_attrib_cancel_all takes from the transport: queued operations are destroyed,
\* sent ones lose their handlers.
LEMMA CancelAllIs ==
  ASSUME TypeOK, Holding, GCancelAll
  PROVE  \E queued \in SUBSET Queued, sent \in SUBSET Pending :
           /\ queued = {p.pend : p \in ToSet(trackIds)} \cap Queued
           /\ sent = {p.pend : p \in ToSet(trackIds)} \cap Pending
           /\ reqQueue' = RemoveAll(reqQueue, queued)
           /\ indQueue' = RemoveAll(indQueue, queued)
           /\ writeQueue' = RemoveAll(writeQueue, queued)
           /\ state' = [o \in Ops |-> IF o \in queued THEN "freed"
                                      ELSE IF o \in sent THEN "silent" ELSE state[o]]
           /\ timers' \subseteq timers
           /\ timerOf' = [o \in Ops |-> IF o \in queued THEN 0 ELSE timerOf[o]]
           /\ callbacks' = RemoveAll(callbacks, queued \cup sent)
           /\ trackIds' = <<>>
           /\ UNCHANGED <<pending, link, loop, known, branched>>
           /\ WakeupWriter
<1> DEFINE tracked == {p.pend : p \in ToSet(trackIds)}
           queued == tracked \cap Queued
           sent == tracked \cap Pending
<1>1. /\ tracked \cap ToSet(reqQueue \o indQueue \o writeQueue) = queued
      /\ tracked \cap ({pendingReq, pendingInd} \ {None}) = sent
  BY QueuedOps DEF Pending
<1> WITNESS queued \in SUBSET Queued, sent \in SUBSET Pending
<1>2. timers' = timers \ {<<o, timerOf[o]>> : o \in queued}
  BY <1>1 DEF GCancelAll
<1>3. timers' \subseteq timers
  BY <1>2
<1> QED
  BY <1>1, <1>3 DEF GCancelAll

\* g_attrib_cancel_all keeps every operation in one place and the writer awake, and is a
\* step of the line, at which several requests leave.
LEMMA CancelAllHolds ==
  ASSUME TypeOK, Holding, GCancelAll
  PROVE  TypeOK' /\ Holding' /\ WriterAwake' /\ LineStep
<1> USE OpSets, QueueSets DEF queues, pending, link, ops, loop
<1>0. Single /\ Apart /\ AllHeld /\ InHandler /\ InDrop
  BY DEF Holding
<1>1. PICK queued \in SUBSET Queued, sent \in SUBSET Pending :
        /\ queued = {p.pend : p \in ToSet(trackIds)} \cap Queued
        /\ sent = {p.pend : p \in ToSet(trackIds)} \cap Pending
        /\ reqQueue' = RemoveAll(reqQueue, queued)
        /\ indQueue' = RemoveAll(indQueue, queued)
        /\ writeQueue' = RemoveAll(writeQueue, queued)
        /\ state' = [o \in Ops |-> IF o \in queued THEN "freed"
                                   ELSE IF o \in sent THEN "silent" ELSE state[o]]
        /\ timers' \subseteq timers
        /\ timerOf' = [o \in Ops |-> IF o \in queued THEN 0 ELSE timerOf[o]]
        /\ callbacks' = RemoveAll(callbacks, queued \cup sent)
        /\ trackIds' = <<>>
        /\ UNCHANGED <<pending, link, loop, known, branched>>
        /\ WakeupWriter
  BY CancelAllIs
<1>2. /\ reqQueue' \in Seq(Reqs) /\ ToSet(reqQueue') = ToSet(reqQueue) \ queued
      /\ IsInjective(reqQueue')
  <2>1. reqQueue \in Seq(Reqs) /\ IsInjective(reqQueue)
    BY <1>0 DEF TypeOK, Single
  <2> QED
    BY <1>1, <2>1, RemoveAllQueue
<1>3. /\ indQueue' \in Seq(Inds) /\ ToSet(indQueue') = ToSet(indQueue) \ queued
      /\ IsInjective(indQueue')
  <2>1. indQueue \in Seq(Inds) /\ IsInjective(indQueue)
    BY <1>0 DEF TypeOK, Single
  <2> QED
    BY <1>1, <2>1, RemoveAllQueue
<1>4. /\ writeQueue' \in Seq(Rsps \cup Cmds) /\ ToSet(writeQueue') = ToSet(writeQueue) \ queued
      /\ IsInjective(writeQueue')
  <2>1. writeQueue \in Seq(Rsps \cup Cmds) /\ IsInjective(writeQueue)
    BY <1>0 DEF TypeOK, Single
  <2> QED
    BY <1>1, <2>1, RemoveAllQueue
<1>5. /\ UNCHANGED <<pendingReq, pendingInd, at, cur, left, io, inReq, security>>
      /\ writerActive \in BOOLEAN /\ (writerActive => writerActive')
      /\ writerActive' \in BOOLEAN
  BY <1>1 DEF WakeupWriter, TypeOK
<1>6. Queued' = Queued \ queued /\ UNCHANGED <<Pending, Called>>
  BY <1>2, <1>3, <1>4, <1>5 DEF Queued, Pending, Called, Detached, Taken
<1>7. at = "dropReqs" => reqQueue' = <<>>
  <2>1. at = "dropReqs" => ToSet(reqQueue') = {}
    BY <1>0, <1>2 DEF InDrop
  <2> QED
    BY <1>2, <2>1, EmptyQueue
<1>8. TypeOK'
  <2>1. state' \in [Ops -> {"new", "live", "silent", "freed"}]
    BY <1>1 DEF TypeOK
  <2>2. timerOf' \in [Ops -> 0..High] /\ timers' \subseteq Ops \X (1..High)
    BY <1>1 DEF TypeOK, High
  <2> QED
    BY <1>2, <1>3, <1>4, <1>5, <2>1, <2>2 DEF TypeOK
<1>9. Holding'
  <2>1. Single'
    BY <1>0, <1>2, <1>3, <1>4, <1>5 DEF Single
  <2>2. Apart'
    BY <1>0, <1>2, <1>3, <1>5, <1>6 DEF Apart
  <2>3. queued \cap (Pending \cup Called) = {} /\ sent \cap (Queued \cup Called) = {}
    <3>1. Queued \cap Pending = {}
      BY <1>0 DEF Apart, Queued, Pending, TypeOK
    <3> QED
      BY <1>0, <1>1, <3>1 DEF Apart
  <2>4. AllHeld'
    <3> SUFFICES ASSUME NEW o \in Ops
                 PROVE  state'[o] \in {"live", "silent"}
                          <=> o \in (Queued \ queued) \cup Pending \cup Called
      BY <1>6 DEF AllHeld
    <3>1. state[o] \in {"live", "silent"} <=> o \in Queued \cup Pending \cup Called
      BY <1>0 DEF AllHeld
    <3>2. CASE o \in queued
      BY <1>1, <2>3, <3>2
    <3>3. CASE o \in sent
      BY <1>1, <2>3, <3>3
    <3>4. CASE o \notin queued \cup sent
      BY <1>1, <3>1, <3>4
    <3> QED
      BY <3>2, <3>3, <3>4
  <2>5. InHandler' /\ InDrop'
    BY <1>0, <1>5, <1>7 DEF InHandler, InDrop, Dropping
  <2> QED
    BY <2>1, <2>2, <2>4, <2>5 DEF Holding
<1>10. WriterAwake'
  <2> SUFFICES ASSUME io' = "up", Sendable' PROVE writerActive'
    BY DEF WriterAwake
  <2>1. writerActive' = (writerActive \/ (Open' /\ Sendable'))
    BY <1>1 DEF WakeupWriter
  <2>2. Open'
    BY DEF Open
  <2> QED
    BY <2>1, <2>2, Zenon
<1>11. LineStep
  <2> DEFINE gone == queued \cap ToSet(reqQueue)
  <2>1. reqQueue \in Seq(Reqs)
    BY DEF TypeOK
  <2>2. reqQueue' = RemoveAll(reqQueue, gone)
    BY <1>1, <2>1, RemoveAllSame
  <2>3. gone \in SUBSET Reqs
    OBVIOUS
  <2>4. Finished' = Finished \cup gone
    <3>1. \A r \in Reqs : state'[r] = "freed" <=> state[r] = "freed" \/ r \in gone
      <4>1. \A r \in Reqs : r \in queued <=> r \in gone
        BY DEF Queued
      <4>2. \A r \in Reqs : r \in sent => state[r] # "freed"
        BY <1>0 DEF AllHeld
      <4>3. \A r \in Reqs :
              state'[r] = IF r \in queued THEN "freed" ELSE IF r \in sent THEN "silent" ELSE state[r]
        BY <1>1
      <4> HIDE DEF gone
      <4> QED
        BY <4>1, <4>2, <4>3
    <3> QED
      BY <1>5, <2>3, <3>1 DEF Finished, Taken
  <2>5. at # "dropReqs" => Waiting = reqQueue /\ Waiting' = reqQueue'
    BY <1>5 DEF Waiting
  <2>6. CASE at = "dropReqs"
    <3>1. gone = {} /\ reqQueue' = reqQueue
      BY <1>0, <1>7, <2>6 DEF InDrop
    <3>2. UNCHANGED <<Waiting, pendingReq, Finished>>
      BY <1>5, <2>4, <3>1 DEF Waiting
    <3> QED
      BY <3>2, LineActions
  <2>7. CASE at # "dropReqs"
    <3>1. /\ gone \subseteq ToSet(Waiting) /\ Waiting' = RemoveAll(Waiting, gone)
          /\ Finished' = Finished \cup gone /\ UNCHANGED pendingReq
      BY <1>5, <2>2, <2>4, <2>5, <2>7
    <3> HIDE DEF gone
    <3> QED
      BY <2>3, <3>1, LineActions
  <2> QED
    BY <2>6, <2>7
<1> QED
  BY <1>8, <1>9, <1>10, <1>11

\* Every step of the helper's requests is a step of the transport, or a
\* g_attrib_cancel_all.
LEMMA TransportSteps == TypeOK /\ [GNext]_gvars => [Next]_vars \/ GCancelAll
<1> SUFFICES ASSUME TypeOK, [GNext]_gvars PROVE [Next]_vars \/ GCancelAll
  OBVIOUS
<1>1. ASSUME NEW o \in Ops, NEW id \in Under(o), GSend(o, id) PROVE Next
  BY <1>1 DEF GSend, Next, User
<1>2. ASSUME NEW o \in Ops, GSendFails(o) PROVE UNCHANGED vars
  BY <1>2 DEF GSendFails
<1>3. ASSUME NEW id \in Ops, GCancel(id) PROVE [Next]_vars
  <2>1. PICK p \in Pairs(id) : CancelPending(p.pend) \/ CancelQueued(p.pend) \/ UNCHANGED vars
    BY <1>3 DEF GCancel
  <2>2. CASE CancelPending(p.pend)
    <3>1. p.pend \in Ops
      BY <2>2, OpSets DEF CancelPending, TypeOK
    <3> QED
      BY <2>2, <3>1 DEF Next, User
  <2>3. CASE CancelQueued(p.pend)
    <3>1. p.pend \in Ops
      BY <2>3, OpSets, QueueSets, QueuedOps DEF CancelQueued, Queued
    <3> QED
      BY <2>3, <3>1 DEF Next, User
  <2> QED
    BY <2>1, <2>2, <2>3
<1>4. CASE GUnref
  BY <1>4 DEF GUnref, Next, User
<1>5. CASE Transport
  <2>1. CASE GWrite
    BY <2>1 DEF GWrite, Step, Next, Write
  <2>2. CASE GDone
    BY <2>2 DEF GDone, Step, Next, Done
  <2>3. CASE GExpire
    BY <2>3 DEF GExpire, Step, Next, Expire
  <2> QED
    BY <1>5, <2>1, <2>2, <2>3 DEF Transport, Step, Next
<1>6. CASE UNCHANGED gvars
  BY <1>6 DEF gvars
<1> QED
  BY <1>1, <1>2, <1>3, <1>4, <1>5, <1>6 DEF GNext, GUser

\* The transport's invariants hold under the helper's requests.
LEMMA GHoldingInvariant == GSpec => [](TypeOK /\ Holding /\ WriterAwake)
<1>1. GInit => TypeOK /\ Holding /\ WriterAwake
  BY InitHolds, InitAwake DEF GInit
<1>2. TypeOK /\ Holding /\ WriterAwake /\ [GNext]_gvars => (TypeOK /\ Holding /\ WriterAwake)'
  BY TransportSteps, TypeStep, HoldingStep, AwakeStep, CancelAllHolds
<1> QED
  BY <1>1, <1>2, PTL DEF GSpec

\* The transport's fields keep their types under gattrib.c.
THEOREM RequestTyping == GSpec => []TypeOK
  BY GHoldingInvariant, PTL

\* Every operation gattrib.c sends is held in one place, once, until it is destroyed,
\* g_attrib_cancel_all included.
THEOREM RequestsHeldOnce == GSpec => []HeldOnce
  BY GHoldingInvariant, HoldingHeldOnce, PTL

\* Nothing that gattrib.c sends waits for a write handler that is not set.
THEOREM RequestWriterAwake == GSpec => []WriterAwake
  BY GHoldingInvariant, PTL

\* The helper's requests are sent in the order of g_attrib_send, one at a time, a retried
\* one first, those g_attrib_cancel_all takes out left out.
THEOREM GRequestsFollowLine == GSpec => FollowsLine
<1>1. GInit => Line!Init
  BY InitLine DEF GInit
<1>2. ASSUME TypeOK, Holding, TypeOK', Holding', [GNext]_gvars
      PROVE  [Line!Next]_<<Waiting, pendingReq, Finished>>
  BY <1>2, TransportSteps, FollowStep, CancelAllHolds DEF LineStep
<1> QED
  BY <1>1, <1>2, GHoldingInvariant, PTL
     DEF GSpec, FollowsLine, Line!Spec, Waiting, Finished

----------------------------------------------------------------------------

\* The requests of which the result is still to be called.
Live == {o \in WithCallback : state[o] = "live"}

\* struct id_pair.
Pair == [org : Ops \cup {None}, pend : Ops \cup {None}]

\* Types of what gattrib.c keeps.
GTypeOK ==
  /\ callbacks \in Seq(WithCallback) /\ trackIds \in Seq(Pair)
  /\ known \in [Ops -> Ops \cup {None}] /\ branched \subseteq Ops

\* A pair names a request that lives and the id it was sent under, or is one of a send
\* that failed.
PairsSound ==
  \A p \in ToSet(trackIds) :
    IF p.pend = None THEN p.org = None ELSE p.pend \in Live /\ p.org = known[p.pend]

\* No request has two pairs: store_id is called once for each.
PairsOnce ==
  \A i, j \in 1..Len(trackIds) :
    trackIds[i].pend = trackIds[j].pend /\ trackIds[i].pend # None => i = j

\* A request is known by an id from its sending on, and that id is one of a request that
\* was sent.
KnownOnce ==
  \A o \in WithCallback :
    /\ known[o] = None <=> state[o] = "new"
    /\ known[o] # None => state[known[o]] # "new"

\* A callback object without a request is one of a send that failed, on a connection that
\* is gone.
FailedGone == \A o \in ToSet(callbacks) : state[o] = "new" => ~Open

\* Of the requests under one id one lives at most, or one of two is being called back,
\* unless a callback sent several under it.
OnePerId ==
  \A o1, o2 \in Live :
    known[o1] = known[o2] /\ known[o1] \notin branched /\ o1 # o2
      => at = "rsp" /\ cur \in {o1, o2}

\* The inductive invariant: Tracked alone allows a pair to stay when a second one with
\* the same request is taken out, and an id to be used again.
Tracking ==
  GTypeOK /\ Tracked /\ PairsSound /\ PairsOnce /\ KnownOnce /\ FailedGone /\ OnePerId

\* What a step of the transport does to the requests: it ends some, makes none, and once
\* it has a request in hand keeps it until it is called back.
LEMMA TransportEffect ==
  ASSUME TypeOK, Holding, Transport
  PROVE  /\ \A o \in Ops : \/ state'[o] = state[o]
                           \/ state[o] \in {"live", "silent"} /\ state'[o] = "freed"
         /\ \A o \in Ops : state'[o] = "live" /\ InHand(o) => InHand(o)'
         /\ Open' => Open
         /\ at = "rsp" => state'[cur] # "live"
         /\ Unhook /\ UNCHANGED <<known, branched>>
<1> USE OpSets, QueueSets DEF queues, pending, link, ops, loop
<1>0. Single /\ Apart /\ AllHeld /\ InHandler /\ InDrop
  BY DEF Holding
<1> DEFINE Effect ==
      /\ \A o \in Ops : \/ state'[o] = state[o]
                        \/ state[o] \in {"live", "silent"} /\ state'[o] = "freed"
      /\ \A o \in Ops : state'[o] = "live" /\ InHand(o) => InHand(o)'
      /\ Open' => Open
      /\ at = "rsp" => state'[cur] # "live"
<1> SUFFICES Effect
  <2>1. Unhook /\ UNCHANGED <<known, branched>>
    BY DEF Transport, GWrite, GDone, GExpire, Step
  <2> HIDE DEF Effect
  <2> QED
    BY <2>1 DEF Effect
<1>1. \A o \in Ops : at = "loop" => ~InHand(o)
  BY <1>0 DEF InHandler, InHand
<1>2. ASSUME at = "loop", UNCHANGED state, Open' => Open
      PROVE  Effect
  BY <1>1, <1>2
<1>3. ASSUME NEW o \in Ops, at = "loop", io' = io \/ ~Open' \/ Open,
             state' = [p \in Ops |-> IF p = o THEN "freed" ELSE state[p]],
             state[o] \in {"live", "silent"}
      PROVE  Effect
  BY <1>1, <1>3 DEF TypeOK, Open
<1>4. ASSUME cur \in Ops, UNCHANGED <<io, left>>,
             state' = [p \in Ops |-> IF p = cur THEN "freed" ELSE state[p]],
             state[cur] \in {"live", "silent"}
      PROVE  Effect
  BY <1>4 DEF TypeOK, Open, InHand
<1>5. ASSUME NEW o \in Ops, Writing(o) PROVE state[o] \in {"live", "silent"}
  <2>1. o \in Queued
    BY <1>5, WritingTakes
  <2> QED
    BY <1>0, <2>1 DEF AllHeld
<1>6. cur \in Ops /\ at # "loop" => state[cur] \in {"live", "silent"}
  <2>1. cur \in Ops /\ at # "loop" => cur \in Pending \cup Called
    BY <1>0 DEF InHandler, InDrop, Pending, Called, Detached, Taken, TypeOK
  <2> QED
    BY <1>0, <2>1 DEF AllHeld
<1>7. CASE GWrite
  <2>1. ASSUME NEW o \in Ops, WriteAnswered(o) PROVE Effect
    BY <1>2, <2>1 DEF WriteAnswered, Writing, Open
  <2>2. ASSUME NEW o \in Ops, WriteOther(o) PROVE Effect
    <3>1. /\ at = "loop" /\ UNCHANGED io /\ state[o] \in {"live", "silent"}
          /\ state' = [p \in Ops |-> IF p = o THEN "freed" ELSE state[p]]
      BY <1>5, <2>2 DEF WriteOther, Writing, Destroy
    <3> QED
      BY <1>3, <3>1
  <2>3. ASSUME NEW o \in Ops, WriteFails(o) PROVE Effect
    BY <1>2, <2>3 DEF WriteFails, Writing, Open
  <2>4. CASE WriterStops
    BY <1>2, <2>4 DEF WriterStops, Open
  <2> HIDE DEF Effect
  <2> QED
    BY <1>7, <2>1, <2>2, <2>3, <2>4 DEF GWrite, Step
<1>8. CASE GDone
  <2>1. CASE WriteFailed \/ ResponseDone \/ ConfirmationDone
    <3>1. /\ cur \in Ops /\ at # "loop" /\ UNCHANGED <<io, left>>
          /\ state' = [p \in Ops |-> IF p = cur THEN "freed" ELSE state[p]]
      BY <1>0, <2>1 DEF WriteFailed, ResponseDone, ConfirmationDone, Destroy, InHandler,
         TypeOK
    <3> QED
      BY <1>4, <1>6, <3>1
  <2>2. CASE Drop
    <3>1. /\ UNCHANGED <<state, io, at>> /\ at # "rsp"
          /\ cur = None /\ left # <<>> /\ cur' = Head(left) /\ left' = Tail(left)
      BY <2>2 DEF Drop, Dropping, CallBack
    <3>2. ToSet(left) = {Head(left)} \cup ToSet(Tail(left))
      BY <3>1, HeadQueue DEF TypeOK
    <3> QED
      BY <3>1, <3>2 DEF InHand, Open
  <2>3. CASE Dropped
    <3>1. /\ cur \in Ops /\ at # "loop" /\ UNCHANGED <<io, left>>
          /\ state' = [p \in Ops |-> IF p = cur THEN "freed" ELSE state[p]]
      BY <2>3 DEF Dropped, Dropping, Destroy, TypeOK
    <3> QED
      BY <1>4, <1>6, <3>1
  <2>4. CASE DropMore
    <3>1. UNCHANGED <<state, io>> /\ at # "rsp" /\ cur = None /\ left = <<>>
      BY <2>4 DEF DropMore
    <3> QED
      BY <3>1 DEF InHand, Open
  <2> HIDE DEF Effect
  <2> QED
    BY <1>8, <2>1, <2>2, <2>3, <2>4 DEF GDone, Step
<1>9. CASE GExpire
  <2>1. ASSUME NEW o \in Ops, NEW n \in 1..High, Timeout(o, n) PROVE Effect
    <3>1. /\ at = "loop" /\ o \in Pending /\ (Open' => Open)
          /\ state' = [p \in Ops |-> IF p = o THEN "freed" ELSE state[p]]
      BY <2>1 DEF Timeout, Pending, TypeOK, Open
    <3>2. state[o] \in {"live", "silent"}
      BY <1>0, <3>1 DEF AllHeld
    <3> QED
      BY <1>3, <3>1, <3>2
  <2>2. ASSUME NEW o \in Ops, NEW n \in 1..High, TimeoutIgnored(o, n) PROVE Effect
    BY <1>2, <2>2 DEF TimeoutIgnored, Open
  <2> HIDE DEF Effect
  <2> QED
    BY <1>9, <2>1, <2>2 DEF GExpire, Step
<1>10. CASE Unexpected \/ Retry \/ Response \/ Confirmation \/ ReadRequest \/ Disconnect
  BY <1>2, <1>10 DEF Unexpected, Retry, Response, Confirmation, ReadRequest, Disconnect,
                     Reading, CallBack, Open
<1> HIDE DEF Effect
<1> QED
  BY <1>7, <1>8, <1>9, <1>10 DEF Transport, Step

\* A step that only ends requests, and takes their callback objects and pairs out, keeps
\* the tracking.
LEMMA Shrinks ==
  ASSUME TypeOK, TypeOK', Tracking, UNCHANGED <<known, branched>>,
         NEW lost \in SUBSET Live, Live' = Live \ lost,
         \A o \in Ops : state'[o] = "new" <=> state[o] = "new",
         callbacks' \in Seq(WithCallback), IsInjective(callbacks'),
         Live' \subseteq ToSet(callbacks'), ToSet(callbacks') \subseteq ToSet(callbacks) \ lost,
         trackIds' \in Seq(Pair), NEW f, Embeds(f, trackIds', trackIds),
         \A p \in ToSet(trackIds') : p.pend \notin lost,
         \A o \in Live' : ~InHand(o)' => [org |-> known[o], pend |-> o] \in ToSet(trackIds'),
         Open' => Open,
         at = "rsp" => (at' = "rsp" /\ cur' = cur) \/ cur \notin Live'
  PROVE  Tracking'
<1>0. GTypeOK /\ Tracked /\ PairsSound /\ PairsOnce /\ KnownOnce /\ FailedGone /\ OnePerId
  BY DEF Tracking
<1>1. GTypeOK'
  BY <1>0 DEF GTypeOK
<1>2. ToSet(trackIds') \subseteq ToSet(trackIds)
  <2>1. /\ ToSet(trackIds') = {trackIds'[i] : i \in 1..Len(trackIds')}
        /\ ToSet(trackIds) = {trackIds[i] : i \in 1..Len(trackIds)}
    BY <1>0, ToSetIs DEF GTypeOK
  <2> QED
    BY <2>1 DEF Embeds
<1>3. PairsSound'
  <2> SUFFICES ASSUME NEW p \in ToSet(trackIds')
               PROVE  IF p.pend = None THEN p.org = None
                      ELSE p.pend \in Live' /\ p.org = known'[p.pend]
    BY DEF PairsSound
  <2>1. p \in ToSet(trackIds) /\ p.pend \notin lost
    BY <1>2
  <2> QED
    BY <1>0, <2>1 DEF PairsSound
<1>4. PairsOnce'
  <2>1. \A i \in 1..Len(trackIds') : f[i] \in 1..Len(trackIds) /\ trackIds'[i] = trackIds[f[i]]
    BY DEF Embeds
  <2>2. \A i, j \in 1..Len(trackIds') : f[i] = f[j] => i = j
    BY DEF Embeds
  <2> QED
    BY <1>0, <2>1, <2>2, SMTT(30) DEF PairsOnce
<1>5. KnownOnce'
  BY <1>0 DEF KnownOnce, GTypeOK, WithCallback
<1>6. FailedGone'
  <2>1. ToSet(callbacks') \subseteq Ops
    BY <1>1, ToSetIs DEF GTypeOK, WithCallback
  <2> QED
    BY <1>0, <2>1 DEF FailedGone
<1>7. OnePerId'
  BY <1>0 DEF OnePerId
<1>8. Tracked'
  <2>1. ToSet(callbacks') \subseteq Live' \cup {o \in WithCallback : state'[o] = "new"}
    BY <1>0 DEF Tracked, Live, WithCallback
  <2>2. \A p \in ToSet(trackIds') : p.pend \in Live' \cup {None}
    BY <1>3 DEF PairsSound
  <2> QED
    BY <2>1, <2>2 DEF Tracked, Live
<1> QED
  BY <1>1, <1>3, <1>4, <1>5, <1>6, <1>7, <1>8 DEF Tracking

\* The emptied queue comes from every queue.
LEMMA EmptyEmbeds ==
  ASSUME NEW q
  PROVE  Embeds([i \in {} |-> 0], <<>>, q) /\ <<>> \in Seq(Pair) /\ <<>> \in Seq(WithCallback)
<1>1. Len(<<>>) = 0 /\ 1..0 = {}
  OBVIOUS
<1> QED
  BY <1>1, EmptySeq DEF Embeds

\* A step of the transport, with the destroy functions it runs (attrib_callbacks_remove),
\* keeps the tracking.
LEMMA TransportTracks ==
  ASSUME TypeOK, TypeOK', Holding, Tracking, Transport
  PROVE  Tracking'
<1> DEFINE lost == {o \in WithCallback : state[o] = "live" /\ state'[o] # "live"}
           matching == {p \in ToSet(trackIds) : p.pend \in lost}
<1>0. GTypeOK /\ Tracked /\ PairsSound
  BY DEF Tracking
<1>1. /\ \A o \in Ops : \/ state'[o] = state[o]
                        \/ state[o] \in {"live", "silent"} /\ state'[o] = "freed"
      /\ \A o \in Ops : state'[o] = "live" /\ InHand(o) => InHand(o)'
      /\ Open' => Open
      /\ at = "rsp" => state'[cur] # "live"
      /\ Unhook /\ UNCHANGED <<known, branched>>
  BY TransportEffect
<1>2. callbacks' = RemoveAll(callbacks, lost) /\ trackIds' = RemoveAll(trackIds, matching)
  BY <1>1 DEF Unhook
<1>3. lost \in SUBSET Live /\ Live' = Live \ lost
  BY <1>1 DEF Live, WithCallback
<1>4. /\ \A o \in Ops : state'[o] = "new" <=> state[o] = "new"
      /\ at = "rsp" => cur \notin Live'
  BY <1>1 DEF Live
<1> HIDE DEF lost, matching
<1>5. callbacks \in Seq(WithCallback) /\ IsInjective(callbacks) /\ trackIds \in Seq(Pair)
  BY <1>0 DEF GTypeOK, Tracked
<1>6. /\ callbacks' \in Seq(WithCallback) /\ IsInjective(callbacks')
      /\ ToSet(callbacks') = ToSet(callbacks) \ lost
  BY <1>2, <1>5, RemoveAllQueue
<1>7. trackIds' \in Seq(Pair) /\ ToSet(trackIds') = ToSet(trackIds) \ matching
  BY <1>2, <1>5, RemoveAllQueue
<1>8. PICK f : Embeds(f, trackIds', trackIds)
  BY <1>2, <1>5, RemoveAllEmbeds
<1>9. \A p \in ToSet(trackIds') : p.pend \notin lost
  BY <1>7 DEF matching
<1>10. Live' \subseteq ToSet(callbacks')
  BY <1>0, <1>3, <1>6 DEF Tracked, Live
<1>11. ASSUME NEW o \in Live', ~InHand(o)'
       PROVE  [org |-> known[o], pend |-> o] \in ToSet(trackIds')
  <2>1. o \in Live /\ o \notin lost /\ o \in Ops /\ state'[o] = "live"
    BY <1>3 DEF Live, WithCallback
  <2>2. ~InHand(o)
    BY <1>1, <1>11, <2>1
  <2>3. [org |-> known[o], pend |-> o] \in ToSet(trackIds)
    BY <1>0, <2>1, <2>2 DEF Tracked, Live
  <2>4. [org |-> known[o], pend |-> o] \notin matching
    BY <2>1 DEF matching
  <2> QED
    BY <1>7, <2>3, <2>4
<1> QED
  BY <1>1, <1>3, <1>4, <1>6, <1>7, <1>8, <1>9, <1>10, <1>11, Shrinks

\* g_attrib_cancel keeps the tracking.
LEMMA CancelTracks ==
  ASSUME TypeOK, TypeOK', Holding, Tracking, NEW id \in Ops, GCancel(id)
  PROVE  Tracking'
<1>0. GTypeOK /\ Tracked /\ PairsSound /\ PairsOnce /\ AllHeld
  BY DEF Tracking, Holding
<1>1. PICK p \in Pairs(id) :
        /\ trackIds' = RemoveIf(trackIds, {p})
        /\ \/ /\ CancelPending(p.pend) \/ CancelQueued(p.pend)
              /\ callbacks' = RemoveIf(callbacks, {p.pend})
           \/ /\ p.pend \notin {pendingReq, pendingInd}
                               \cup ToSet(reqQueue \o indQueue \o writeQueue)
              /\ UNCHANGED <<vars, callbacks>>
  BY DEF GCancel
<1>2. UNCHANGED <<known, branched>>
  BY DEF GCancel
<1>3. p \in ToSet(trackIds) /\ p.org = id
  BY <1>0, FindIfFound DEF Pairs, GTypeOK
<1>4. p.pend \in Live /\ p.pend # None /\ p.org = known[p.pend]
  BY <1>0, <1>3, OpSets DEF PairsSound
<1>5. callbacks \in Seq(WithCallback) /\ IsInjective(callbacks) /\ trackIds \in Seq(Pair)
  BY <1>0 DEF GTypeOK, Tracked
<1>6. PICK f, k :
        /\ Embeds(f, trackIds', trackIds)
        /\ k \in 1..Len(trackIds) /\ trackIds[k] = p
        /\ \A i \in 1..Len(trackIds') : f[i] # k
        /\ ToSet(trackIds) \ {p} \subseteq ToSet(trackIds')
  BY <1>1, <1>3, <1>5, RemoveIfEmbeds
<1>7. trackIds' \in Seq(Pair)
  BY <1>1, <1>5, RemoveIfTyped
<1>8. \A q \in ToSet(trackIds') : q.pend # p.pend
  <2> SUFFICES ASSUME NEW i \in 1..Len(trackIds'), trackIds'[i].pend = p.pend PROVE FALSE
    BY <1>7, ToSetIs
  <2>1. f[i] \in 1..Len(trackIds) /\ trackIds[f[i]].pend = p.pend /\ f[i] # k
    BY <1>6 DEF Embeds
  <2> QED
    BY <1>0, <1>4, <1>6, <2>1 DEF PairsOnce
<1>9. /\ UNCHANGED <<io, at, cur, left>>
      /\ \A o \in Ops : InHand(o)' <=> InHand(o)
  BY <1>1 DEF CancelPending, CancelQueued, link, loop, vars, InHand
<1>10. CASE /\ CancelPending(p.pend) \/ CancelQueued(p.pend)
            /\ callbacks' = RemoveIf(callbacks, {p.pend})
  <2> DEFINE lost == {p.pend}
  <2>1. state' = [o \in Ops |-> IF o = p.pend THEN "silent" ELSE state[o]]
        \/ state' = [o \in Ops |-> IF o = p.pend THEN "freed" ELSE state[o]]
    BY <1>10 DEF CancelPending, CancelQueued, Silence, Destroy
  <2>2. lost \in SUBSET Live /\ Live' = Live \ lost
    BY <1>4, <2>1 DEF Live, WithCallback
  <2>3. \A o \in Ops : state'[o] = "new" <=> state[o] = "new"
    BY <1>4, <2>1 DEF Live
  <2>4. /\ callbacks' \in Seq(WithCallback) /\ IsInjective(callbacks')
        /\ ToSet(callbacks') = ToSet(callbacks) \ lost
    BY <1>5, <1>10, RemoveOne
  <2>5. Live' \subseteq ToSet(callbacks')
    BY <1>0, <2>2, <2>4 DEF Tracked, Live
  <2>6. ASSUME NEW o \in Live', ~InHand(o)'
        PROVE  [org |-> known[o], pend |-> o] \in ToSet(trackIds')
    <3>1. o \in Live /\ o # p.pend /\ o \in Ops
      BY <2>2 DEF Live, WithCallback
    <3>2. [org |-> known[o], pend |-> o] \in ToSet(trackIds)
      BY <1>0, <1>9, <2>6, <3>1 DEF Tracked, Live
    <3>3. [org |-> known[o], pend |-> o] # p
      BY <3>1
    <3> QED
      BY <1>6, <3>2, <3>3
  <2>7. Open' => Open
    BY <1>9 DEF Open
  <2>8. \A q \in ToSet(trackIds') : q.pend \notin lost
    BY <1>8
  <2> HIDE DEF lost
  <2> QED
    BY <1>2, <1>6, <1>7, <1>9, <2>2, <2>3, <2>4, <2>5, <2>6, <2>7, <2>8, Shrinks
<1>11. CASE /\ p.pend \notin {pendingReq, pendingInd}
                             \cup ToSet(reqQueue \o indQueue \o writeQueue)
            /\ UNCHANGED <<vars, callbacks>>
  <2>1. UNCHANGED <<state, callbacks>> /\ UNCHANGED Live
    BY <1>11 DEF vars, ops, Live
  <2>2. InHand(p.pend)
    <3>1. p.pend \in Queued \cup Pending \cup Called
      BY <1>0, <1>4 DEF AllHeld, Live, WithCallback
    <3>2. p.pend \in Called
      BY <1>11, <3>1, QueuedOps DEF Pending
    <3> QED
      BY <3>2 DEF Called, InHand
  <2>3. ASSUME NEW o \in Live', ~InHand(o)'
        PROVE  [org |-> known[o], pend |-> o] \in ToSet(trackIds')
    <3>1. o \in Live /\ o \in Ops
      BY <2>1 DEF Live, WithCallback
    <3>2. ~InHand(o)
      BY <1>9, <2>3, <3>1
    <3>3. [org |-> known[o], pend |-> o] \in ToSet(trackIds)
      BY <1>0, <3>1, <3>2 DEF Tracked, Live
    <3>4. [org |-> known[o], pend |-> o] # p
      BY <2>2, <3>2
    <3> QED
      BY <1>6, <3>3, <3>4
  <2>4. Open' => Open
    BY <1>9 DEF Open
  <2> DEFINE lost == {}
  <2>5. lost \in SUBSET Live /\ Live' = Live \ lost
    BY <2>1
  <2>6. /\ callbacks' \in Seq(WithCallback) /\ IsInjective(callbacks')
        /\ ToSet(callbacks') = ToSet(callbacks) \ lost /\ Live' \subseteq ToSet(callbacks')
    BY <1>0, <1>5, <2>1 DEF Tracked, Live
  <2>7. /\ \A q \in ToSet(trackIds') : q.pend \notin lost
        /\ \A o \in Ops : state'[o] = "new" <=> state[o] = "new"
    BY <2>1
  <2> HIDE DEF lost
  <2> QED
    BY <1>2, <1>6, <1>7, <1>9, <2>3, <2>4, <2>5, <2>6, <2>7, Shrinks
<1> QED
  BY <1>1, <1>10, <1>11

\* A request that lives waits, is sent, or is being called back.
LEMMA LiveHeld ==
  ASSUME AllHeld, NEW o \in Live
  PROVE  o \in Queued \cup Pending \cup Called /\ (o \in Called => InHand(o))
<1>1. o \in Ops /\ state[o] = "live"
  BY DEF Live, WithCallback
<1> QED
  BY <1>1 DEF AllHeld, Called, InHand

\* g_attrib_cancel_all keeps the tracking.
LEMMA CancelAllTracks ==
  ASSUME TypeOK, TypeOK', Holding, Tracking, GCancelAll
  PROVE  Tracking'
<1>0. GTypeOK /\ Tracked /\ PairsSound /\ AllHeld
  BY DEF Tracking, Holding
<1>1. PICK queued \in SUBSET Queued, sent \in SUBSET Pending :
        /\ queued = {p.pend : p \in ToSet(trackIds)} \cap Queued
        /\ sent = {p.pend : p \in ToSet(trackIds)} \cap Pending
        /\ state' = [o \in Ops |-> IF o \in queued THEN "freed"
                                   ELSE IF o \in sent THEN "silent" ELSE state[o]]
        /\ callbacks' = RemoveAll(callbacks, queued \cup sent)
        /\ trackIds' = <<>>
        /\ UNCHANGED <<pending, link, loop, known, branched>>
  BY CancelAllIs
<1> DEFINE lost == queued \cup sent
<1>2. UNCHANGED <<io, at, cur, left>> /\ \A o \in Ops : InHand(o)' <=> InHand(o)
  BY <1>1 DEF link, loop, InHand
<1>3. lost \in SUBSET Live
  <2> SUFFICES ASSUME NEW o \in lost PROVE o \in Live
    OBVIOUS
  <2>1. PICK p \in ToSet(trackIds) : o = p.pend
    BY <1>1
  <2>2. o \in Ops
    BY <1>1, OpSets, QueueSets, SMTT(30) DEF Queued, Pending, TypeOK
  <2> QED
    BY <1>0, <2>1, <2>2, OpSets DEF PairsSound
<1>4. Live' = Live \ lost
  BY <1>1 DEF Live, WithCallback
<1>5. \A o \in Ops : state'[o] = "new" <=> state[o] = "new"
  BY <1>1, <1>3 DEF Live
<1>6. callbacks' = RemoveAll(callbacks, lost)
  BY <1>1
<1> HIDE DEF lost
<1>7. /\ callbacks' \in Seq(WithCallback) /\ IsInjective(callbacks')
      /\ ToSet(callbacks') = ToSet(callbacks) \ lost
  <2>1. callbacks \in Seq(WithCallback) /\ IsInjective(callbacks)
    BY <1>0 DEF GTypeOK, Tracked
  <2> QED
    BY <1>6, <2>1, RemoveAllQueue
<1>8. Live' \subseteq ToSet(callbacks')
  BY <1>0, <1>4, <1>7 DEF Tracked, Live
<1>9. /\ trackIds' \in Seq(Pair) /\ Embeds([i \in {} |-> 0], trackIds', trackIds)
      /\ ToSet(trackIds') = {}
  BY <1>1, EmptyEmbeds, EmptyQueue
<1>10. ASSUME NEW o \in Live', ~InHand(o)' PROVE FALSE
  <2>1. o \in Live /\ o \notin lost /\ o \in Ops /\ ~InHand(o)
    BY <1>2, <1>4, <1>10 DEF Live, WithCallback
  <2>2. o \in Queued \cup Pending
    BY <1>0, <2>1, LiveHeld
  <2>3. [org |-> known[o], pend |-> o] \in ToSet(trackIds)
    BY <1>0, <2>1 DEF Tracked, Live
  <2>4. o \in {p.pend : p \in ToSet(trackIds)}
    <3> DEFINE q == [org |-> known[o], pend |-> o]
    <3>1. q.pend = o /\ q \in ToSet(trackIds)
      BY <2>3
    <3> HIDE DEF q
    <3> QED
      BY <3>1
  <2> QED
    BY <1>1, <2>1, <2>2, <2>4 DEF lost
<1>11. Open' => Open
  BY <1>2 DEF Open
<1>12. UNCHANGED <<known, branched>> /\ \A p \in ToSet(trackIds') : p.pend \notin lost
  BY <1>1, <1>9
<1> QED
  BY <1>2, <1>3, <1>4, <1>5, <1>7, <1>8, <1>9, <1>10, <1>11, <1>12, Shrinks

\* The last g_attrib_unref keeps the tracking.
LEMMA UnrefTracks ==
  ASSUME TypeOK, TypeOK', Holding, Tracking, GUnref
  PROVE  Tracking'
<1>1. /\ io' = "freed" /\ at = "loop"
      /\ callbacks' = <<>> /\ trackIds' = <<>> /\ UNCHANGED <<known, branched>>
      /\ state' = [o \in Ops |-> IF state[o] \in {"live", "silent"} THEN "freed" ELSE state[o]]
  BY DEF GUnref, Unref, Destroy
<1> DEFINE lost == Live
<1>2. lost \in SUBSET Live /\ Live' = Live \ lost /\ Live' = {}
  BY <1>1 DEF Live, WithCallback
<1>3. \A o \in Ops : state'[o] = "new" <=> state[o] = "new"
  BY <1>1
<1>4. /\ callbacks' \in Seq(WithCallback) /\ IsInjective(callbacks') /\ ToSet(callbacks') = {}
      /\ trackIds' \in Seq(Pair) /\ Embeds([i \in {} |-> 0], trackIds', trackIds)
      /\ ToSet(trackIds') = {}
  BY <1>1, EmptyEmbeds, EmptyQueue
<1>5. ~Open'
  BY <1>1 DEF Open
<1> HIDE DEF lost
<1> QED
  BY <1>1, <1>2, <1>3, <1>4, <1>5, Shrinks

\* store_id of a request that has no pair keeps the pairs different.
LEMMA PairAppended ==
  ASSUME GTypeOK, PairsOnce, NEW p \in Pair,
         p.pend # None => \A q \in ToSet(trackIds) : q.pend # p.pend,
         trackIds' = PushTail(trackIds, p)
  PROVE  /\ trackIds' \in Seq(Pair) /\ ToSet(trackIds') = ToSet(trackIds) \cup {p}
         /\ PairsOnce'
<1>1. trackIds \in Seq(Pair) /\ trackIds' = Append(trackIds, p)
  BY DEF GTypeOK, PushTail
<1>2. trackIds' \in Seq(Pair) /\ ToSet(trackIds') = ToSet(trackIds) \cup {p}
  BY <1>1, AppendQueue
<1>3. /\ Len(trackIds) \in Nat /\ Len(trackIds') = Len(trackIds) + 1
      /\ trackIds'[Len(trackIds) + 1] = p
      /\ \A i \in 1..Len(trackIds) : trackIds'[i] = trackIds[i] /\ trackIds[i] \in ToSet(trackIds)
  BY <1>1, AppendProperties, ToSetIs
<1>4. PairsOnce'
  <2> SUFFICES ASSUME NEW i \in 1..Len(trackIds'), NEW j \in 1..Len(trackIds'),
                      trackIds'[i].pend = trackIds'[j].pend, trackIds'[i].pend # None
               PROVE  i = j
    BY DEF PairsOnce
  <2>1. CASE i \in 1..Len(trackIds) /\ j \in 1..Len(trackIds)
    <3>1. trackIds[i].pend = trackIds[j].pend /\ trackIds[i].pend # None
      BY <1>3, <2>1
    <3> QED
      BY <2>1, <3>1 DEF PairsOnce
  <2>2. CASE i \in 1..Len(trackIds) /\ j = Len(trackIds) + 1
    BY <1>3, <2>2
  <2>3. CASE i = Len(trackIds) + 1 /\ j \in 1..Len(trackIds)
    BY <1>3, <2>3
  <2>4. CASE i = Len(trackIds) + 1 /\ j = Len(trackIds) + 1
    BY <2>4
  <2> QED
    BY <1>3, <2>1, <2>2, <2>3, <2>4
<1> QED
  BY <1>2, <1>4

\* g_attrib_send on a connection that is gone keeps the tracking.
LEMMA SendFailsTracks ==
  ASSUME TypeOK, Tracking, NEW o \in Ops, GSendFails(o)
  PROVE  Tracking'
<1>0. GTypeOK /\ Tracked /\ PairsSound /\ PairsOnce /\ KnownOnce /\ FailedGone /\ OnePerId
  BY DEF Tracking
<1>1. /\ io = "gone" /\ o \in WithCallback /\ state[o] = "new" /\ o \notin ToSet(callbacks)
      /\ callbacks' = PushHead(callbacks, o)
      /\ trackIds' = PushTail(trackIds, [org |-> None, pend |-> None])
      /\ UNCHANGED <<vars, known, branched>>
  BY DEF GSendFails
<1>2. UNCHANGED <<state, io, at, cur, left>> /\ UNCHANGED Live
  BY <1>1 DEF vars, ops, link, loop, Live
<1>3. /\ callbacks' \in Seq(WithCallback) /\ ToSet(callbacks') = {o} \cup ToSet(callbacks)
      /\ IsInjective(callbacks')
  BY <1>0, <1>1, PushHeadQueue DEF GTypeOK, Tracked
<1>4. /\ trackIds' \in Seq(Pair)
      /\ ToSet(trackIds') = ToSet(trackIds) \cup {[org |-> None, pend |-> None]}
      /\ PairsOnce'
  <2> DEFINE p == [org |-> None, pend |-> None]
  <2>1. p \in Pair /\ p.pend = None
    BY DEF Pair
  <2>2. trackIds' = PushTail(trackIds, p)
    BY <1>1
  <2> HIDE DEF p
  <2>3. trackIds' \in Seq(Pair) /\ ToSet(trackIds') = ToSet(trackIds) \cup {p} /\ PairsOnce'
    BY <1>0, <2>1, <2>2, PairAppended
  <2> QED
    BY <2>3 DEF p
<1>5. GTypeOK'
  BY <1>0, <1>1, <1>3, <1>4 DEF GTypeOK
<1>6. PairsSound'
  BY <1>0, <1>1, <1>2, <1>4 DEF PairsSound
<1>7. KnownOnce' /\ OnePerId'
  BY <1>0, <1>1, <1>2 DEF KnownOnce, OnePerId
<1>8. FailedGone'
  BY <1>1, <1>2 DEF FailedGone, Open
<1>9. Tracked'
  <2>1. Live \subseteq ToSet(callbacks') /\ o \in {w \in WithCallback : state[w] = "new"}
    BY <1>0, <1>1, <1>3 DEF Tracked, Live
  <2>2. ToSet(callbacks') \subseteq Live \cup {w \in WithCallback : state[w] = "new"}
    BY <1>0, <1>3, <2>1 DEF Tracked, Live
  <2>3. \A w \in Live : ~InHand(w) => [org |-> known[w], pend |-> w] \in ToSet(trackIds')
    BY <1>0, <1>4 DEF Tracked, Live
  <2>4. \A p \in ToSet(trackIds') : p.pend \in Live \cup {None}
    BY <1>0, <1>4 DEF Tracked, Live
  <2> QED
    BY <1>1, <1>2, <1>3, <2>1, <2>2, <2>3, <2>4 DEF Tracked, Live, InHand
<1> QED
  BY <1>4, <1>5, <1>6, <1>7, <1>8, <1>9 DEF Tracking

\* The id a request is sent under is its own, or the one of the request that is being
\* called back.
LEMMA UnderIds ==
  ASSUME TypeOK, Holding, Tracking, NEW o \in Ops, NEW id \in Under(o)
  PROVE  /\ id \in Ops /\ (id # o => state[id] # "new")
         /\ id # o => at = "rsp" /\ cur \in Live /\ id = known[cur]
<1>0. KnownOnce /\ GTypeOK /\ InHandler
  BY DEF Tracking, Holding
<1>1. CASE id = o
  BY <1>1
<1>2. CASE id # o
  <2>1. at = "rsp" /\ state[cur] = "live" /\ id = known[cur]
    BY <1>2 DEF Under
  <2>2. cur \in Reqs /\ cur \in WithCallback
    BY <1>0, <2>1, OpSets DEF InHandler, TypeOK, WithCallback
  <2>3. known[cur] \in Ops \cup {None} /\ known[cur] # None
    BY <1>0, <2>1, <2>2 DEF KnownOnce, GTypeOK, WithCallback
  <2> QED
    BY <1>0, <2>1, <2>2, <2>3 DEF KnownOnce, Live
<1> QED
  BY <1>1, <1>2

\* g_attrib_send keeps the tracking.
LEMMA SendTracks ==
  ASSUME TypeOK, Holding, Tracking, NEW o \in Ops, NEW id \in Under(o), GSend(o, id)
  PROVE  Tracking'
<1>0. GTypeOK /\ Tracked /\ PairsSound /\ PairsOnce /\ KnownOnce /\ FailedGone /\ OnePerId
  BY DEF Tracking
<1>1. /\ Open /\ state[o] = "new" /\ known[o] = None
      /\ state' = [state EXCEPT ![o] = "live"] /\ state \in [Ops -> {"new", "live", "silent", "freed"}]
      /\ UNCHANGED <<io, at, cur, left>>
  BY DEF GSend, Send, link, loop, TypeOK
<1>2. \A w \in Ops : state'[w] = IF w = o THEN "live" ELSE state[w]
  BY <1>1
<1>3. \A w \in ToSet(callbacks) : w \in Ops /\ state[w] # "new" /\ w # o
  <2>1. \A w \in ToSet(callbacks) : w \in WithCallback
    BY <1>0, ToSetIs DEF GTypeOK
  <2> QED
    BY <1>0, <1>1, <2>1 DEF FailedGone, WithCallback
<1>4. o \notin Live
  BY <1>1 DEF Live
<1>5. CASE o \notin WithCallback
  <2>1. UNCHANGED <<callbacks, trackIds, known, branched>>
    BY <1>5 DEF GSend, attrib
  <2>2. UNCHANGED Live /\ \A w \in WithCallback : state'[w] = state[w]
    BY <1>2, <1>5 DEF Live, WithCallback
  <2>3. GTypeOK'
    BY <1>0, <2>1 DEF GTypeOK
  <2>4. Tracked'
    BY <1>0, <1>1, <2>1, <2>2 DEF Tracked, InHand
  <2>5. PairsSound' /\ PairsOnce' /\ OnePerId'
    BY <1>0, <1>1, <2>1, <2>2 DEF PairsSound, PairsOnce, OnePerId
  <2>6. KnownOnce'
    <3> SUFFICES ASSUME NEW w \in WithCallback
                 PROVE  /\ known[w] = None <=> state[w] = "new"
                        /\ known[w] # None => state'[known[w]] # "new"
      BY <2>1, <2>2 DEF KnownOnce
    <3>1. known[w] # None => known[w] \in Ops
      BY <1>0 DEF GTypeOK, WithCallback
    <3> QED
      BY <1>0, <1>2, <3>1 DEF KnownOnce
  <2>7. FailedGone'
    BY <1>2, <1>3, <2>1 DEF FailedGone
  <2> QED
    BY <2>3, <2>4, <2>5, <2>6, <2>7 DEF Tracking
<1>6. CASE o \in WithCallback
  <2> DEFINE p == [org |-> id, pend |-> o]
  <2>1. /\ callbacks' = PushHead(callbacks, o) /\ trackIds' = PushTail(trackIds, p)
        /\ known' = [known EXCEPT ![o] = id]
        /\ branched' = IF WentOn(id) THEN branched \cup {id} ELSE branched
    BY <1>6 DEF GSend
  <2>2. /\ id \in Ops /\ (id # o => state[id] # "new")
        /\ id # o => at = "rsp" /\ cur \in Live /\ id = known[cur]
    BY UnderIds
  <2>3. p \in Pair /\ p.pend = o /\ p.org = id
    BY <2>2 DEF Pair
  <2> HIDE DEF p
  <2>4. \A w \in Ops : known'[w] = IF w = o THEN id ELSE known[w]
    BY <1>0, <2>1 DEF GTypeOK
  <2>5. Live' = Live \cup {o}
    BY <1>2, <1>6 DEF Live, WithCallback
  <2>6. /\ callbacks' \in Seq(WithCallback) /\ ToSet(callbacks') = {o} \cup ToSet(callbacks)
        /\ IsInjective(callbacks')
    <3>1. o \notin ToSet(callbacks) /\ callbacks \in Seq(WithCallback) /\ IsInjective(callbacks)
      BY <1>0, <1>3 DEF GTypeOK, Tracked
    <3> QED
      BY <1>6, <2>1, <3>1, PushHeadQueue
  <2>7. trackIds' \in Seq(Pair) /\ ToSet(trackIds') = ToSet(trackIds) \cup {p} /\ PairsOnce'
    <3>1. \A q \in ToSet(trackIds) : q.pend # o
      BY <1>0, <1>4, OpSets DEF PairsSound
    <3> QED
      BY <1>0, <2>1, <2>3, <3>1, PairAppended
  <2>8. GTypeOK'
    <3>1. known' \in [Ops -> Ops \cup {None}]
      BY <1>0, <2>1, <2>2 DEF GTypeOK
    <3>2. branched' \subseteq Ops
      BY <1>0, <2>1, <2>2 DEF GTypeOK
    <3> QED
      BY <2>6, <2>7, <3>1, <3>2 DEF GTypeOK
  <2>9. PairsSound'
    <3> SUFFICES ASSUME NEW q \in ToSet(trackIds')
                 PROVE  IF q.pend = None THEN q.org = None
                        ELSE q.pend \in Live' /\ q.org = known'[q.pend]
      BY DEF PairsSound
    <3>1. CASE q = p
      BY <2>3, <2>4, <2>5, <3>1, OpSets
    <3>2. CASE q \in ToSet(trackIds)
      <4>1. IF q.pend = None THEN q.org = None ELSE q.pend \in Live /\ q.org = known[q.pend]
        BY <1>0, <3>2 DEF PairsSound
      <4>2. q.pend \in Live => q.pend \in Ops /\ q.pend # o
        BY <1>4 DEF Live, WithCallback
      <4> QED
        BY <2>4, <2>5, <4>1, <4>2
    <3> QED
      BY <2>7, <3>1, <3>2
  <2>10. KnownOnce'
    <3> SUFFICES ASSUME NEW w \in WithCallback
                 PROVE  /\ known'[w] = None <=> state'[w] = "new"
                        /\ known'[w] # None => state'[known'[w]] # "new"
      BY DEF KnownOnce
    <3>1. w \in Ops
      BY DEF WithCallback
    <3>2. CASE w = o
      BY <1>2, <2>2, <2>4, <3>2, OpSets
    <3>3. CASE w # o
      <4>1. known'[w] = known[w] /\ state'[w] = state[w]
        BY <1>2, <2>4, <3>1, <3>3
      <4>2. known[w] # None => known[w] \in Ops /\ state[known[w]] # "new"
        BY <1>0, <3>1 DEF KnownOnce, GTypeOK
      <4>3. known[w] # None => state'[known[w]] # "new"
        BY <1>2, <4>2
      <4>4. known[w] = None <=> state[w] = "new"
        BY <1>0 DEF KnownOnce
      <4> QED
        BY <4>1, <4>3, <4>4
    <3> QED
      BY <3>2, <3>3
  <2>11. FailedGone'
    BY <1>2, <1>3, <2>6 DEF FailedGone
  <2>12. OnePerId'
    <3>1. ASSUME NEW w \in Live, known[w] = id, id \notin branched'
          PROVE  at = "rsp" /\ cur = w
      <4>1. w \in WithCallback /\ state[w] = "live" /\ w \in Ops
        BY DEF Live, WithCallback
      <4>2. id # o
        BY <1>0, <1>1, <3>1, <4>1, <2>2, OpSets DEF KnownOnce
      <4>3. at = "rsp"
        BY <2>2, <4>2
      <4>4. ~WentOn(id)
        BY <2>1, <3>1
      <4> QED
        BY <3>1, <4>1, <4>3, <4>4 DEF WentOn
    <3> SUFFICES ASSUME NEW o1 \in Live', NEW o2 \in Live', known'[o1] = known'[o2],
                        known'[o1] \notin branched', o1 # o2
                 PROVE  at = "rsp" /\ cur \in {o1, o2}
      BY <1>1 DEF OnePerId
    <3>2. o1 \in Ops /\ o2 \in Ops /\ branched \subseteq branched'
      BY <2>1 DEF Live, WithCallback
    <3>3. CASE o1 = o
      <4>1. o2 \in Live /\ known[o2] = id /\ id \notin branched'
        BY <2>4, <2>5, <3>2, <3>3
      <4> QED
        BY <3>1, <4>1
    <3>4. CASE o2 = o
      <4>1. o1 \in Live /\ known[o1] = id /\ id \notin branched'
        BY <2>4, <2>5, <3>2, <3>4
      <4> QED
        BY <3>1, <4>1
    <3>5. CASE o1 # o /\ o2 # o
      <4>1. o1 \in Live /\ o2 \in Live /\ known[o1] = known[o2] /\ known[o1] \notin branched
        BY <2>4, <2>5, <3>2, <3>5
      <4> QED
        BY <1>0, <4>1 DEF OnePerId
    <3> QED
      BY <3>3, <3>4, <3>5
  <2>13. Tracked'
    <3>1. Live' \subseteq ToSet(callbacks')
      BY <1>0, <2>5, <2>6 DEF Tracked, Live
    <3>2. ToSet(callbacks') \subseteq Live'
      <4>1. ToSet(callbacks) \subseteq Live \cup {w \in WithCallback : state[w] = "new"}
        BY <1>0 DEF Tracked, Live
      <4> QED
        BY <1>3, <2>5, <2>6, <4>1
    <3>3. ASSUME NEW w \in Live', ~InHand(w)'
          PROVE  [org |-> known'[w], pend |-> w] \in ToSet(trackIds')
      <4>1. CASE w = o
        BY <2>4, <2>7, <4>1 DEF p
      <4>2. CASE w # o
        <5>1. w \in Live /\ w \in Ops /\ ~InHand(w)
          BY <1>1, <2>5, <3>3, <4>2 DEF Live, WithCallback, InHand
        <5>2. [org |-> known[w], pend |-> w] \in ToSet(trackIds)
          BY <1>0, <5>1 DEF Tracked, Live
        <5> QED
          BY <2>4, <2>7, <4>2, <5>1, <5>2
      <4> QED
        BY <4>1, <4>2
    <3>4. \A q \in ToSet(trackIds') : q.pend \in Live' \cup {None}
      BY <2>9 DEF PairsSound
    <3> QED
      BY <2>6, <3>1, <3>2, <3>3, <3>4 DEF Tracked, Live
  <2> QED
    BY <2>7, <2>8, <2>9, <2>10, <2>11, <2>12, <2>13 DEF Tracking
<1> QED
  BY <1>5, <1>6

\* Every step keeps the tracking.
LEMMA TrackingStep ==
  TypeOK /\ TypeOK' /\ Holding /\ Tracking /\ [GNext]_gvars => Tracking'
<1> SUFFICES ASSUME TypeOK, TypeOK', Holding, Tracking, [GNext]_gvars PROVE Tracking'
  OBVIOUS
<1>1. ASSUME NEW o \in Ops, NEW id \in Under(o), GSend(o, id) PROVE Tracking'
  BY <1>1, SendTracks
<1>2. ASSUME NEW o \in Ops, GSendFails(o) PROVE Tracking'
  BY <1>2, SendFailsTracks
<1>3. ASSUME NEW id \in Ops, GCancel(id) PROVE Tracking'
  BY <1>3, CancelTracks
<1>4. CASE GCancelAll
  BY <1>4, CancelAllTracks
<1>5. CASE GUnref
  BY <1>5, UnrefTracks
<1>6. CASE Transport
  BY <1>6, TransportTracks
<1>7. CASE UNCHANGED gvars
  <2>1. /\ UNCHANGED <<callbacks, trackIds, known, branched>>
        /\ UNCHANGED <<state, io, at, cur, left>>
    BY <1>7 DEF gvars, attrib, vars, ops, link, loop
  <2> QED
    BY <2>1 DEF Tracking, GTypeOK, Tracked, PairsSound, PairsOnce, KnownOnce, FailedGone,
                OnePerId, Live, InHand, Open
<1> QED
  BY <1>1, <1>2, <1>3, <1>4, <1>5, <1>6, <1>7 DEF GNext, GUser

\* g_attrib_new tracks nothing.
LEMMA InitTracking == GInit => Tracking
<1> SUFFICES ASSUME GInit PROVE Tracking
  OBVIOUS
<1>1. /\ callbacks = <<>> /\ trackIds = <<>> /\ branched = {}
      /\ known = [o \in Ops |-> None] /\ state = [o \in Ops |-> "new"]
  BY DEF GInit, Init
<1>2. /\ <<>> \in Seq(WithCallback) /\ <<>> \in Seq(Pair) /\ Len(<<>>) = 0
      /\ ToSet(<<>>) = {} /\ IsInjective(<<>>)
  BY EmptySeq, EmptyQueue
<1>3. Live = {}
  BY <1>1 DEF Live, WithCallback
<1>4. GTypeOK /\ Tracked
  BY <1>1, <1>2, <1>3 DEF GTypeOK, Tracked, Live
<1>5. PairsSound /\ PairsOnce /\ FailedGone /\ OnePerId
  BY <1>1, <1>2, <1>3 DEF PairsSound, PairsOnce, FailedGone, OnePerId
<1>6. KnownOnce
  BY <1>1 DEF KnownOnce, WithCallback
<1> QED
  BY <1>4, <1>5, <1>6 DEF Tracking

\* The inductive invariant holds.
LEMMA TrackingAlways == GSpec => [](TypeOK /\ Holding /\ Tracking)
<1>1. GInit => Tracking
  BY InitTracking
<1>2. TypeOK /\ TypeOK' /\ Holding /\ Tracking /\ [GNext]_gvars => Tracking'
  BY TrackingStep
<1> QED
  BY <1>1, <1>2, GHoldingInvariant, PTL DEF GSpec

\* A request of which the result has not been called and which was not cancelled has its
\* callback object and can be cancelled under the id g_attrib_send gave its user; nothing
\* tracks a request that is gone.
THEOREM RequestsTracked == GSpec => []Tracked
<1>1. Tracking => Tracked
  BY DEF Tracking
<1> QED
  BY <1>1, TrackingAlways, PTL

\* g_attrib_cancel ends the one request under its id that is not being called back.
LEMMA CancelEndsStep ==
  ASSUME TypeOK, Holding, Tracking, NEW id \in Ops \ branched, GCancel(id),
         NEW o \in WithCallback, known[o] = id, ~InHand(o)
  PROVE  state'[o] # "live"
<1>0. GTypeOK /\ PairsSound /\ OnePerId /\ AllHeld /\ o \in Ops
  BY DEF Tracking, Holding, WithCallback
<1> SUFFICES ASSUME state'[o] = "live" PROVE FALSE
  OBVIOUS
<1>1. PICK p \in Pairs(id) :
        \/ CancelPending(p.pend) \/ CancelQueued(p.pend)
        \/ /\ p.pend \notin {pendingReq, pendingInd}
                            \cup ToSet(reqQueue \o indQueue \o writeQueue)
           /\ UNCHANGED vars
  BY DEF GCancel
<1>2. p \in ToSet(trackIds) /\ p.org = id
  BY <1>0, FindIfFound DEF Pairs, GTypeOK
<1>3. p.pend \in Live /\ p.pend \in Ops /\ known[p.pend] = id
  BY <1>0, <1>2, OpSets DEF PairsSound, Live, WithCallback
<1>4. \/ state' = [w \in Ops |-> IF w = p.pend THEN "silent" ELSE state[w]]
      \/ state' = [w \in Ops |-> IF w = p.pend THEN "freed" ELSE state[w]]
      \/ /\ p.pend \notin {pendingReq, pendingInd}
                          \cup ToSet(reqQueue \o indQueue \o writeQueue)
         /\ state' = state
  BY <1>1 DEF CancelPending, CancelQueued, Silence, Destroy, vars, ops
<1>5. o \in Live
  BY <1>0, <1>4 DEF Live
<1>6. o = p.pend
  <2>1. CASE at = "loop"
    BY <1>0, <1>3, <1>5, <2>1 DEF OnePerId
  <2>2. CASE at # "loop"
    BY <1>5, <2>2 DEF GCancel, WentOn, InHand, Live
  <2> QED
    BY <2>1, <2>2
<1>7. o \notin Queued \cup Pending
  BY <1>0, <1>4, <1>6, QueuedOps DEF Pending
<1> QED
  BY <1>0, <1>5, <1>7, LiveHeld

\* Once g_attrib_cancel was called with the id of a procedure none of its requests is
\* called back any more, unless one of its callbacks sent several at once.
THEOREM CancelEndsProcedure == GSpec => CancelEnds
<1>1. ASSUME TypeOK, Holding, Tracking
      PROVE  \A id \in Ops \ branched : GCancel(id) =>
               \A o \in WithCallback : known[o] = id /\ ~InHand(o) => state'[o] # "live"
  BY <1>1, CancelEndsStep
<1> QED
  BY <1>1, TrackingAlways, PTL DEF CancelEnds
=============================================================================
