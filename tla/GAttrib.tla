------------------------------ MODULE GAttrib ------------------------------
(***************************************************************************)
(* The requests of the helper over the ATT transport                       *)
(* (bluez-5.47/attrib/gattrib.c).  Every request has a callback object in  *)
(* a queue, and a pair of ids in another: the id its user knows it by and  *)
(* the id of the transport's operation.  A procedure of several requests   *)
(* keeps the id of its first.                                              *)
(*                                                                         *)
(* The operations are those of AttTransport; an operation's id is the      *)
(* operation.  When the transport finishes or cancels one it runs its      *)
(* destroy function, attrib_callbacks_remove.  Responses and commands are  *)
(* sent without a callback (bt_att_send refuses one for them).  No object  *)
(* is created at the address of a pair that a callback object still names. *)
(***************************************************************************)
EXTENDS AttTransport

VARIABLES
  callbacks,   \* the callback objects, by operation
  trackIds,    \* the id pairs
  known,       \* the id each request was sent under, None for a send that failed
  branched     \* ghost: ids a callback sent two requests under

attrib == <<callbacks, trackIds, known, branched>>
gvars == <<vars, attrib>>

GInit ==
  /\ Init
  /\ callbacks = <<>> /\ trackIds = <<>>
  /\ known = [o \in Ops |-> None] /\ branched = {}

WithCallback == Ops \ (Rsps \cup Cmds)

\* find_with_org_id.
Pairs(id) == FindIf(trackIds, {p \in ToSet(trackIds) : p.org = id})

----------------------------------------------------------------------------
(* attrib_callbacks_remove, for the operations a step of the transport ends *)

\* (A mutant: the pairs are left.)
UnhookCallbacks ==
  LET gone == {o \in WithCallback : state[o] = "live" /\ state'[o] # "live"}
  IN callbacks' = RemoveAll(callbacks, gone) /\ UNCHANGED trackIds

Unhook ==
  LET gone == {o \in WithCallback : state[o] = "live" /\ state'[o] # "live"}
  IN /\ callbacks' = RemoveAll(callbacks, gone)
     /\ trackIds' = RemoveAll(trackIds, {p \in ToSet(trackIds) : p.pend \in gone})

----------------------------------------------------------------------------
(* Calls of user code *)

\* The ids a request may be sent under: its own, or in the callback of a request of
\* the same procedure that one's.
Under(o) ==
  {o} \cup (IF at = "rsp" /\ state[cur] = "live" THEN {known[cur]} ELSE {})

\* A callback has sent the next request of the procedure.
WentOn(id) == at # "loop" /\ \E o \in WithCallback \ {cur} : state[o] = "live" /\ known[o] = id

\* (A mutant: the pair is stored under the transport's id.)
GSendUnderOwn(o, id) ==
  /\ known[o] = None /\ Send(o)
  /\ IF o \in WithCallback
       THEN /\ callbacks' = PushHead(callbacks, o)
            /\ trackIds' = PushTail(trackIds, [org |-> o, pend |-> o])
            /\ known' = [known EXCEPT ![o] = id]
            /\ branched' = IF WentOn(id) THEN branched \cup {id} ELSE branched
       ELSE UNCHANGED attrib

\* g_attrib_send.
GSend(o, id) ==
  /\ known[o] = None /\ Send(o)
  /\ IF o \in WithCallback
       THEN /\ callbacks' = PushHead(callbacks, o)
            /\ trackIds' = PushTail(trackIds, [org |-> id, pend |-> o])
            /\ known' = [known EXCEPT ![o] = id]
            /\ branched' = IF WentOn(id) THEN branched \cup {id} ELSE branched
       ELSE UNCHANGED attrib

\* The transport is disconnected: bt_att_send returns 0, the callback object stays
\* until the GAttrib is freed and its function is not called.
GSendFails(o) ==
  /\ io = "gone" /\ o \in WithCallback /\ state[o] = "new" /\ o \notin ToSet(callbacks)
  /\ callbacks' = PushHead(callbacks, o)
  /\ trackIds' = PushTail(trackIds, [org |-> None, pend |-> None])
  /\ UNCHANGED <<vars, known, branched>>

\* g_attrib_cancel: the first pair with this id, and its operation if the transport
\* still has it.  A callback that went on with its procedure leaves it at that.
GCancel(id) ==
  /\ io # "freed" /\ ~WentOn(id)
  /\ \E p \in Pairs(id) :
       /\ trackIds' = RemoveIf(trackIds, {p})
       /\ \/ /\ CancelPending(p.pend) \/ CancelQueued(p.pend)
             /\ callbacks' = RemoveIf(callbacks, {p.pend})
          \/ /\ p.pend \notin {pendingReq, pendingInd} \cup ToSet(reqQueue \o indQueue \o writeQueue)
             /\ UNCHANGED <<vars, callbacks>>
  /\ UNCHANGED <<known, branched>>

\* g_attrib_cancel_all: every operation with a pair that the transport still has.
GCancelAll ==
  LET tracked == {p.pend : p \in ToSet(trackIds)}
      queued == tracked \cap ToSet(reqQueue \o indQueue \o writeQueue)
      sent == tracked \cap ({pendingReq, pendingInd} \ {None})
  IN /\ io # "freed" /\ trackIds # <<>>
     /\ reqQueue' = RemoveAll(reqQueue, queued)
     /\ indQueue' = RemoveAll(indQueue, queued)
     /\ writeQueue' = RemoveAll(writeQueue, queued)
     /\ state' = [o \in Ops |-> IF o \in queued THEN "freed"
                                ELSE IF o \in sent THEN "silent" ELSE state[o]]
     /\ timers' = timers \ {<<o, timerOf[o]>> : o \in queued}
     /\ timerOf' = [o \in Ops |-> IF o \in queued THEN 0 ELSE timerOf[o]]
     /\ callbacks' = RemoveAll(callbacks, queued \cup sent)
     /\ trackIds' = <<>>
     /\ UNCHANGED <<pending, link, loop, known, branched>>
     /\ WakeupWriter

\* The last g_attrib_unref: the transport's operations are destroyed, then what is
\* left of the queues.
GUnref ==
  /\ Unref
  /\ callbacks' = <<>> /\ trackIds' = <<>>
  /\ UNCHANGED <<known, branched>>

----------------------------------------------------------------------------
GUser ==
  \/ \E o \in Ops : (\E id \in Under(o) : GSend(o, id)) \/ GSendFails(o)
  \/ \E id \in Ops : GCancel(id)
  \/ GCancelAll
  \/ GUnref

\* The steps of the transport itself.
Step(A) == A /\ Unhook /\ UNCHANGED <<known, branched>>

GWrite ==
  \/ \E o \in Ops : Step(WriteAnswered(o)) \/ Step(WriteOther(o)) \/ Step(WriteFails(o))
  \/ Step(WriterStops)

GDone ==
  \/ Step(WriteFailed) \/ Step(ResponseDone) \/ Step(ConfirmationDone)
  \/ Step(Drop) \/ Step(Dropped) \/ Step(DropMore)

GExpire == \E o \in Ops, n \in 1..High : Step(Timeout(o, n)) \/ Step(TimeoutIgnored(o, n))

Transport ==
  \/ GWrite \/ GDone \/ GExpire
  \/ Step(Unexpected) \/ Step(Retry) \/ Step(Response) \/ Step(Confirmation)
  \/ Step(ReadRequest) \/ Step(Disconnect)

GNext == GUser \/ Transport

GSpec == GInit /\ [][GNext]_gvars

\* The main loop runs: the socket can be written to, timers expire, handlers
\* return, and a connection that was shut down is reported as such.
GFairSpec ==
  /\ GSpec
  /\ WF_gvars(GWrite) /\ WF_gvars(GDone) /\ WF_gvars(GExpire)
  /\ WF_gvars(io = "shut" /\ Step(Disconnect))

----------------------------------------------------------------------------
(* Properties *)

\* The transport called back an operation that left its queues: it is not cancelled.
InHand(o) == o = cur \/ o \in ToSet(left)

\* A request of which the result has not been called, and which was not cancelled,
\* has its callback object and can be cancelled under the id its user knows, through
\* the requests of a procedure, retries and disconnection; nothing tracks a request
\* that is gone ("it has to be on the tracking id queue", gattrib.c:361).
Tracked ==
  LET live == {o \in WithCallback : state[o] = "live"}
      failed == {o \in WithCallback : state[o] = "new"}
  IN /\ IsInjective(callbacks)
     /\ live \subseteq ToSet(callbacks) /\ ToSet(callbacks) \subseteq live \cup failed
     /\ \A o \in live : ~InHand(o) => [org |-> known[o], pend |-> o] \in ToSet(trackIds)
     /\ \A p \in ToSet(trackIds) : p.pend \in live \cup {None}

\* Once a procedure is cancelled, in a callback or between two handlers, none of its
\* requests is called back any more (g_attrib_cancel, l.352), unless one of its
\* callbacks sent several at once (resolve_included_uuid, gatt.c:449): cancelling
\* ends the first of those only.
CancelEnds ==
  [][\A id \in Ops \ branched : GCancel(id) =>
       \A o \in WithCallback : known[o] = id /\ ~InHand(o) => state'[o] # "live"]_gvars
=============================================================================
