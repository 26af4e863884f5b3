---------------------------- MODULE AttTransport ----------------------------
(***************************************************************************)
(* The ATT transport of the helper process (bluez-5.47/src/shared/att.c):  *)
(* operations wait in three queues, a write handler of the main loop sends *)
(* them, one request and one indication at most wait for their answer,     *)
(* each under a timer.  A request refused for its security is sent again.  *)
(*                                                                         *)
(* One thread runs the main loop.  A handler that calls back user code is  *)
(* interrupted at the call (variable at): user code may send and cancel    *)
(* there, as it may between two handlers.  An operation is the object      *)
(* struct att_send_op; packets are abstracted to the operations they       *)
(* carry, the lists of registered callbacks are left out.                  *)
(***************************************************************************)
EXTENDS Queue

CONSTANTS
  Reqs,   \* requests, answered by a response
  Inds,   \* indications, answered by a confirmation
  Rsps,   \* responses to the requests of the other side
  Cmds,   \* commands, notifications and confirmations, not answered
  None

Answered == Reqs \cup Inds
Ops == Answered \cup Rsps \cup Cmds

ASSUME OpsAssumption ==
  /\ Reqs \cap (Inds \cup Rsps \cup Cmds) = {} /\ Inds \cap (Rsps \cup Cmds) = {}
  /\ Rsps \cap Cmds = {}
  /\ None \notin Ops

Low == 1   Medium == 2   High == 3   \* BT_ATT_SECURITY_*

VARIABLES
  io,            \* "up", "shut" (io_shutdown), "gone" (NULL) or "freed" (with the bt_att)
  reqQueue, indQueue, writeQueue,
  pendingReq, pendingInd,
  writerActive,  \* the write handler is set
  inReq,         \* the other side waits for a response
  security,      \* level of the socket
  state,         \* of each operation: "new", "live", "silent" (no handlers) or "freed"
  timerOf,       \* its timeout_id, numbered per operation, 0 for none
  timers,        \* the timers that run, as <<operation, number>>
  at,            \* what the main loop is in: "loop", or the handler calling back
  cur,           \* the operation whose callback it calls
  left           \* the detached queue disconnect_cb works through

queues == <<reqQueue, indQueue, writeQueue>>
pending == <<pendingReq, pendingInd>>
link == <<io, inReq, security>>
ops == <<state, timerOf, timers>>
loop == <<at, cur, left>>
vars == <<queues, pending, writerActive, link, ops, loop>>

Init ==
  /\ io = "up" /\ inReq = FALSE /\ security = Low
  /\ reqQueue = <<>> /\ indQueue = <<>> /\ writeQueue = <<>>
  /\ pendingReq = None /\ pendingInd = None
  /\ writerActive = FALSE
  /\ state = [o \in Ops |-> "new"]
  /\ timerOf = [o \in Ops |-> 0] /\ timers = {}
  /\ at = "loop" /\ cur = None /\ left = <<>>

Open == io \in {"up", "shut"}

----------------------------------------------------------------------------
(* Helpers *)

ReqReady == pendingReq = None /\ reqQueue # <<>>
IndReady == pendingInd = None /\ indQueue # <<>>
Sendable == writeQueue # <<>> \/ ReqReady \/ IndReady

\* (A mutant: the indications are forgotten.)
WakeupForRequests ==
  writerActive' = (writerActive \/ (Open' /\ (writeQueue' # <<>> \/ ReqReady')))

\* wakeup_writer, once the queues have their new values.
WakeupWriter == writerActive' = (writerActive \/ (Open' /\ Sendable'))

\* pick_next_send_op: responses and commands first, then a request, then an
\* indication.
Pick(o) ==
  \/ /\ writeQueue # <<>> /\ o = Head(writeQueue)
     /\ writeQueue' = Tail(writeQueue)
     /\ UNCHANGED <<reqQueue, indQueue>>
  \/ /\ writeQueue = <<>> /\ ReqReady /\ o = Head(reqQueue)
     /\ reqQueue' = Tail(reqQueue)
     /\ UNCHANGED <<indQueue, writeQueue>>
  \/ /\ writeQueue = <<>> /\ ~ReqReady /\ IndReady /\ o = Head(indQueue)
     /\ indQueue' = Tail(indQueue)
     /\ UNCHANGED <<reqQueue, writeQueue>>

\* destroy_att_send_op removes the timer the operation knows of.
Destroy(gone) ==
  /\ state' = [o \in Ops |-> IF o \in gone THEN "freed" ELSE state[o]]
  /\ timers' = timers \ {<<o, timerOf[o]>> : o \in gone}
  /\ timerOf' = [o \in Ops |-> IF o \in gone THEN 0 ELSE timerOf[o]]

\* cancel_att_send_op keeps the operation and drops its handlers.
Silence(silenced) ==
  state' = [o \in Ops |-> IF o \in silenced THEN "silent" ELSE state[o]]

\* The callback is called, unless it was dropped; control is in user code.
CallBack(o, handler) ==
  at' = handler /\ cur' = o

----------------------------------------------------------------------------
(* Calls of user code, between two handlers or in a callback *)

\* bt_att_send.  The other side's request is responded to once.
Send(o) ==
  /\ Open
  /\ state[o] = "new"
  /\ o \in Rsps => inReq /\ \A p \in Rsps : state[p] # "live"
  /\ reqQueue' = IF o \in Reqs THEN Append(reqQueue, o) ELSE reqQueue
  /\ indQueue' = IF o \in Inds THEN Append(indQueue, o) ELSE indQueue
  /\ writeQueue' = IF o \in Rsps \cup Cmds THEN Append(writeQueue, o) ELSE writeQueue
  /\ state' = [state EXCEPT ![o] = "live"]
  /\ UNCHANGED <<pending, link, timerOf, timers, loop>>
  /\ WakeupWriter

\* bt_att_cancel of a pending operation: it stays, without handlers.
CancelPending(o) ==
  /\ io # "freed"
  /\ o \in {pendingReq, pendingInd} \ {None}
  /\ Silence({o})
  /\ UNCHANGED <<queues, pending, writerActive, link, timerOf, timers, loop>>

\* bt_att_cancel of a queued operation.
CancelQueued(o) ==
  /\ o \in ToSet(reqQueue \o indQueue \o writeQueue)
  /\ reqQueue' = RemoveIf(reqQueue, {o})
  /\ indQueue' = RemoveIf(indQueue, {o})
  /\ writeQueue' = RemoveIf(writeQueue, {o})
  /\ Destroy({o})
  /\ UNCHANGED <<pending, link, loop>>
  /\ WakeupWriter

\* The last bt_att_unref: everything is cancelled and freed.
Unref ==
  /\ at = "loop" /\ io # "freed"
  /\ io' = "freed"
  /\ reqQueue' = <<>> /\ indQueue' = <<>> /\ writeQueue' = <<>>
  /\ pendingReq' = None /\ pendingInd' = None
  /\ writerActive' = FALSE
  /\ Destroy({o \in Ops : state[o] \in {"live", "silent"}})
  /\ UNCHANGED <<inReq, security, loop>>

----------------------------------------------------------------------------
(* can_write_data *)

Writing(o) == at = "loop" /\ writerActive /\ Open /\ Pick(o)

\* An operation to be answered becomes pending, under a new timer.
WriteAnswered(o) ==
  /\ Writing(o) /\ io = "up"
  /\ o \in Answered
  /\ pendingReq' = IF o \in Reqs THEN o ELSE pendingReq
  /\ pendingInd' = IF o \in Inds THEN o ELSE pendingInd
  /\ \E n \in 1..High :
       /\ \A k \in 1..High : <<o, k>> \notin timers => n <= k
       /\ <<o, n>> \notin timers
       /\ timerOf' = [timerOf EXCEPT ![o] = n]
       /\ timers' = timers \cup {<<o, n>>}
  /\ UNCHANGED <<writerActive, link, state, loop>>

\* Another one is finished; a response ends the other side's request.
WriteOther(o) ==
  /\ Writing(o) /\ io = "up"
  /\ o \in Rsps \cup Cmds
  /\ inReq' = (inReq /\ o \notin Rsps)
  /\ Destroy({o})
  /\ UNCHANGED <<pending, writerActive, io, security, loop>>

\* The write fails: the operation is finished with an error.
WriteFails(o) ==
  /\ Writing(o)
  /\ CallBack(o, "write")
  /\ UNCHANGED <<pending, writerActive, link, state, timerOf, timers, left>>

WriteFailed ==
  /\ at = "write"
  /\ Destroy({cur})
  /\ at' = "loop" /\ cur' = None
  /\ UNCHANGED <<queues, pending, writerActive, link, left>>

\* Nothing to send: the handler is removed.
WriterStops ==
  /\ at = "loop" /\ writerActive /\ Open
  /\ ~Sendable
  /\ writerActive' = FALSE
  /\ UNCHANGED <<queues, pending, link, ops, loop>>

----------------------------------------------------------------------------
(* can_read_data *)

Reading == at = "loop" /\ io = "up"

\* An unexpected response, an unexpected or invalid confirmation, or a request
\* while another one is pending ends the connection.
Unexpected ==
  /\ Reading
  /\ io' = "shut"
  /\ UNCHANGED <<queues, pending, writerActive, inReq, security, ops, loop>>

\* (A mutant: no highest level.)
RaisedBeyond(insufficient) ==
  IF security < Medium THEN {Medium}
  ELSE IF insufficient = "authentication" THEN {security + 1} ELSE {}

\* change_security: the levels that an error can raise the security to.
RaisedSecurity(insufficient) ==
  IF security < Medium THEN {Medium}
  ELSE IF insufficient = "authentication" /\ security < High THEN {High} ELSE {}

\* (A mutant: the request goes to the tail.)
RetryLast ==
  /\ Reading /\ pendingReq # None
  /\ \E e \in {"encryption", "authentication"} : security' \in RaisedSecurity(e)
  /\ reqQueue' = Append(reqQueue, pendingReq)
  /\ pendingReq' = None
  /\ UNCHANGED <<indQueue, writeQueue, pendingInd, io, inReq, ops, loop>>
  /\ WakeupWriter

\* handle_error_rsp: the request goes back to the head of its queue.
Retry ==
  /\ Reading /\ pendingReq # None
  /\ \E e \in {"encryption", "authentication"} : security' \in RaisedSecurity(e)
  /\ reqQueue' = <<pendingReq>> \o reqQueue
  /\ pendingReq' = None
  /\ UNCHANGED <<indQueue, writeQueue, pendingInd, io, inReq, ops, loop>>
  /\ WakeupWriter

\* handle_rsp and handle_conf call back ...
Response ==
  /\ Reading /\ pendingReq # None
  /\ CallBack(pendingReq, "rsp")
  /\ UNCHANGED <<queues, pending, writerActive, link, state, timerOf, timers, left>>

Confirmation ==
  /\ Reading /\ pendingInd # None
  /\ CallBack(pendingInd, "conf")
  /\ UNCHANGED <<queues, pending, writerActive, link, state, timerOf, timers, left>>

\* ... and finish the operation.
ResponseDone ==
  /\ at = "rsp"
  /\ Destroy({cur})
  /\ pendingReq' = None
  /\ at' = "loop" /\ cur' = None
  /\ UNCHANGED <<queues, pendingInd, link, left>>
  /\ WakeupWriter

\* (A mutant: the indication stays pending.)
ConfirmationKept ==
  /\ at = "conf"
  /\ Destroy({cur})
  /\ at' = "loop" /\ cur' = None
  /\ UNCHANGED <<queues, pending, link, left>>
  /\ WakeupWriter

ConfirmationDone ==
  /\ at = "conf"
  /\ Destroy({cur})
  /\ pendingInd' = None
  /\ at' = "loop" /\ cur' = None
  /\ UNCHANGED <<queues, pendingReq, link, left>>
  /\ WakeupWriter

\* A request of the other side, for the registered callbacks.
ReadRequest ==
  /\ Reading /\ ~inReq
  /\ inReq' = TRUE
  /\ UNCHANGED <<queues, pending, writerActive, io, security, ops, loop>>

----------------------------------------------------------------------------
(* timeout_cb *)

\* (A mutant: the connection goes on.)
TimeoutGoesOn(o, n) ==
  /\ at = "loop" /\ io # "freed"
  /\ <<o, n>> \in timers
  /\ o \in {pendingReq, pendingInd}
  /\ state' = [state EXCEPT ![o] = "freed"]
  /\ timers' = timers \ {<<o, n>>}
  /\ timerOf' = [timerOf EXCEPT ![o] = 0]
  /\ pendingReq' = IF o \in Reqs THEN None ELSE pendingReq
  /\ pendingInd' = IF o \in Inds THEN None ELSE pendingInd
  /\ UNCHANGED <<queues, writerActive, link, loop>>

\* A timer ends the operation of its id if that is pending, and the connection.
Timeout(o, n) ==
  /\ at = "loop" /\ io # "freed"
  /\ <<o, n>> \in timers
  /\ o \in {pendingReq, pendingInd}
  /\ state' = [state EXCEPT ![o] = "freed"]
  /\ timers' = timers \ {<<o, n>>}
  /\ timerOf' = [timerOf EXCEPT ![o] = 0]
  /\ pendingReq' = IF o \in Reqs THEN None ELSE pendingReq
  /\ pendingInd' = IF o \in Inds THEN None ELSE pendingInd
  /\ io' = IF io = "up" THEN "shut" ELSE io
  /\ UNCHANGED <<queues, writerActive, inReq, security, loop>>

TimeoutIgnored(o, n) ==
  /\ at = "loop" /\ io # "freed"
  /\ <<o, n>> \in timers
  /\ o \notin {pendingReq, pendingInd}
  /\ timers' = timers \ {<<o, n>>}
  /\ UNCHANGED <<queues, pending, writerActive, link, state, timerOf, loop>>

----------------------------------------------------------------------------
(* disconnect_cb: every operation is finished with an error *)

Disconnect ==
  /\ at = "loop" /\ Open
  /\ io' = "gone"
  /\ writerActive' = FALSE
  /\ at' = "dropReqs" /\ left' = reqQueue /\ reqQueue' = <<>>
  /\ UNCHANGED <<indQueue, writeQueue, pending, inReq, security, ops, cur>>

Dropping == at \in {"dropReqs", "dropInds", "dropWrites", "dropPendingReq", "dropPendingInd"}

Drop ==
  /\ Dropping /\ cur = None /\ left # <<>>
  /\ CallBack(Head(left), at)
  /\ left' = Tail(left)
  /\ UNCHANGED <<queues, pending, writerActive, link, state, timerOf, timers>>

Dropped ==
  /\ Dropping /\ cur # None
  /\ Destroy({cur})
  /\ cur' = None
  /\ pendingReq' = IF at = "dropPendingReq" THEN None ELSE pendingReq
  /\ pendingInd' = IF at = "dropPendingInd" THEN None ELSE pendingInd
  /\ UNCHANGED <<queues, writerActive, link, at, left>>

OneOf(o) == IF o = None THEN <<>> ELSE <<o>>

DropMore ==
  /\ cur = None /\ left = <<>>
  /\ \/ at = "dropReqs" /\ at' = "dropInds" /\ left' = indQueue
     \/ at = "dropInds" /\ at' = "dropWrites" /\ left' = writeQueue
     \/ at = "dropWrites" /\ at' = "dropPendingReq" /\ left' = OneOf(pendingReq)
     \/ at = "dropPendingReq" /\ at' = "dropPendingInd" /\ left' = OneOf(pendingInd)
     \/ at = "dropPendingInd" /\ at' = "loop" /\ left' = <<>>
  /\ indQueue' = IF at = "dropReqs" THEN <<>> ELSE indQueue
  /\ writeQueue' = IF at = "dropInds" THEN <<>> ELSE writeQueue
  /\ UNCHANGED <<reqQueue, pending, writerActive, link, ops, cur>>

----------------------------------------------------------------------------
User ==
  \/ \E o \in Ops : Send(o) \/ CancelPending(o) \/ CancelQueued(o)
  \/ Unref

Write == (\E o \in Ops : WriteAnswered(o) \/ WriteOther(o) \/ WriteFails(o)) \/ WriterStops

Done == WriteFailed \/ ResponseDone \/ ConfirmationDone \/ Drop \/ Dropped \/ DropMore

Expire == \E o \in Ops, n \in 1..High : Timeout(o, n) \/ TimeoutIgnored(o, n)

Next ==
  \/ User \/ Write \/ Done \/ Expire
  \/ Unexpected \/ Retry \/ Response \/ Confirmation \/ ReadRequest
  \/ Disconnect

Spec == Init /\ [][Next]_vars

----------------------------------------------------------------------------
(* Properties *)

\* Types of the transport's fields and of the operations.
TypeOK ==
  /\ io \in {"up", "shut", "gone", "freed"}
  /\ reqQueue \in Seq(Reqs) /\ indQueue \in Seq(Inds) /\ writeQueue \in Seq(Rsps \cup Cmds)
  /\ pendingReq \in Reqs \cup {None} /\ pendingInd \in Inds \cup {None}
  /\ writerActive \in BOOLEAN /\ inReq \in BOOLEAN
  /\ security \in Low..High
  /\ state \in [Ops -> {"new", "live", "silent", "freed"}]
  /\ timerOf \in [Ops -> 0..High] /\ timers \subseteq Ops \X (1..High)
  /\ at \in {"loop", "write", "rsp", "conf", "dropReqs", "dropInds", "dropWrites",
             "dropPendingReq", "dropPendingInd"}
  /\ cur \in Ops \cup {None} /\ left \in Seq(Ops)

\* The handler that calls back has already taken the operation from its queue.
Taken == at \in {"write", "dropReqs", "dropInds", "dropWrites"}
Detached == at \in {"dropReqs", "dropInds", "dropWrites"}

Held ==
  reqQueue \o indQueue \o writeQueue \o OneOf(pendingReq) \o OneOf(pendingInd)
    \o (IF Detached THEN left ELSE <<>>) \o (IF Taken THEN OneOf(cur) ELSE <<>>)

\* Every operation that was sent and is not freed is held in one place, once:
\* none is leaked, freed twice or used after it was freed, whatever user code
\* sends and cancels in callbacks and however the connection ends.
HeldOnce ==
  /\ IsInjective(Held)
  /\ ToSet(Held) = {o \in Ops : state[o] \in {"live", "silent"}}

\* wakeup_writer (l.508) is called wherever something becomes ready to send:
\* while the connection is up nothing waits for a write handler that is not set.
WriterAwake == io = "up" /\ at = "loop" /\ Sendable => writerActive

\* The requests follow RequestLine: they are sent in the order of bt_att_send,
\* one at a time, a retried one before the others.
Line ==
  INSTANCE RequestLine WITH
    waiting <- IF at = "dropReqs" THEN left \o reqQueue ELSE reqQueue,
    flying <- pendingReq,
    finished <- {r \in Reqs : state[r] = "freed" \/ (Taken /\ cur = r)}
FollowsLine == Line!Spec

\* Every operation that expects an answer is finished in the end, by its answer,
\* its timer, cancellation or the end of the connection.
EveryRequestEnds == \A o \in Answered : state[o] = "live" ~> state[o] = "freed"
=============================================================================
