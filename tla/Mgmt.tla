-------------------------------- MODULE Mgmt --------------------------------
(***************************************************************************)
(* The management socket of the helper process                             *)
(* (bluez-5.47/src/shared/mgmt.c): requests to the kernel wait in two      *)
(* queues, a write handler of the main loop sends one plain request at a   *)
(* time and the replies ahead of it, the kernel's completion names only    *)
(* the opcode and index it is about.  Events go to the handlers registered *)
(* for them.                                                               *)
(*                                                                         *)
(* One thread runs the main loop.  A handler that calls back user code is  *)
(* interrupted at the call (variable at): user code may send, cancel,      *)
(* register and unregister there, as it may between two handlers.  A       *)
(* request is the object struct mgmt_request, a handler the object struct  *)
(* mgmt_notify; each is created once.                                      *)
(***************************************************************************)
EXTENDS Queue

CONSTANTS
  Requests,   \* the requests user code may create
  Key,        \* the opcode and index of each
  Index,      \* the index of each opcode and index
  Notifies,   \* the handlers user code may register
  Wanted,     \* the events each is registered for, its index included
  IndexOf,    \* the index each is registered with
  IndexNone,  \* MGMT_INDEX_NONE: no controller
  None

Keys == {Key[r] : r \in Requests}
Indices == {Index[k] : k \in Keys}
Events == UNION {Wanted[n] : n \in Notifies}

ASSUME MgmtAssumption ==
  /\ None \notin Requests \cup Notifies \cup Events
  /\ DOMAIN Key = Requests /\ DOMAIN Index = Keys
  /\ DOMAIN Wanted = Notifies /\ DOMAIN IndexOf = Notifies

VARIABLES
  ref,           \* "held" by user code, "released" in a handler that holds it, or "freed"
  writerActive,  \* the write handler is set
  requestQueue, replyQueue, pendingList,
  reqState,      \* of each request: "new", "live" or "freed"
  kernel,        \* the requests the kernel has not completed
  notifyList,
  notState,      \* of each handler: "new", "listed", "unlinked" or "freed"
  removed,       \* the handlers marked removed
  needCleanup,   \* need_notify_cleanup
  at,            \* what the main loop is in: "loop", or a handler
  cur,           \* the request whose callback is called
  event,         \* the event that is distributed
  next,          \* queue_foreach's next handler
  due,           \* ghost: the handlers that event must still reach
  mixed,         \* ghost: keys a completion of which may be another request's
  unwoken        \* ghost: requests were cancelled without wakeup_writer

queues == <<requestQueue, replyQueue, pendingList>>
notifies == <<notifyList, notState, removed, needCleanup>>
walk == <<event, next, due>>
vars == <<ref, writerActive, queues, reqState, kernel, notifies, at, cur, walk, mixed, unwoken>>

Init ==
  /\ ref = "held" /\ writerActive = FALSE
  /\ requestQueue = <<>> /\ replyQueue = <<>> /\ pendingList = <<>>
  /\ reqState = [r \in Requests |-> "new"]
  /\ kernel = {}
  /\ notifyList = <<>> /\ notState = [n \in Notifies |-> "new"]
  /\ removed = {} /\ needCleanup = FALSE
  /\ at = "loop" /\ cur = None
  /\ event = None /\ next = None /\ due = {}
  /\ mixed = {} /\ unwoken = FALSE

InNotify == at \in {"notify", "notified"}

----------------------------------------------------------------------------
(* Helpers *)

\* Something may be sent: a reply, or a request while none is pending.
Sendable == replyQueue # <<>> \/ (requestQueue # <<>> /\ pendingList = <<>>)

\* (A mutant: replies wait for the pending request.)
WakeupWhenFree ==
  /\ writerActive' = (writerActive \/ pendingList' = <<>>)
  /\ unwoken' = FALSE

\* wakeup_writer, once the queues have their new values: the write handler is set
\* when nothing is pending, and for a reply in any case.
WakeupWriter ==
  /\ writerActive' = (writerActive \/ pendingList' = <<>> \/ replyQueue' # <<>>)
  /\ unwoken' = FALSE

Become(gone, what) == reqState' = [r \in Requests |-> IF r \in gone THEN what ELSE reqState[r]]
NotBecome(gone, what) == notState' = [n \in Notifies |-> IF n \in gone THEN what ELSE notState[n]]

\* Requests with a key of these, sent and not completed by the kernel.
Outstanding(r) == \E q \in kernel \ {r} : Key[q] = Key[r]

\* Requests that user code gives up while the kernel works on them.
GivenUp(gone) == {Key[r] : r \in gone \cap kernel}

----------------------------------------------------------------------------
(* Calls of user code, between two handlers or in a callback *)

Calling == ref = "held" /\ at # "notify"

\* mgmt_send and mgmt_reply: to the queue.
Send(r) ==
  /\ Calling /\ reqState[r] = "new"
  /\ requestQueue' = PushTail(requestQueue, r)
  /\ Become({r}, "live")
  /\ UNCHANGED <<ref, replyQueue, pendingList, kernel, notifies, at, cur, walk, mixed>>
  /\ WakeupWriter

Reply(r) ==
  /\ Calling /\ reqState[r] = "new"
  /\ replyQueue' = PushTail(replyQueue, r)
  /\ Become({r}, "live")
  /\ UNCHANGED <<ref, requestQueue, pendingList, kernel, notifies, at, cur, walk, mixed>>
  /\ WakeupWriter

\* mgmt_send_nowait: past the queues, pending beside others ...
SendNowait(r) ==
  /\ Calling /\ reqState[r] = "new"
  /\ pendingList' = PushTail(pendingList, r)
  /\ kernel' = kernel \cup {r}
  /\ mixed' = IF Outstanding(r) THEN mixed \cup {Key[r]} ELSE mixed
  /\ Become({r}, "live")
  /\ UNCHANGED <<ref, writerActive, requestQueue, replyQueue, notifies, at, cur, walk, unwoken>>

\* ... or it cannot be written: its callback is told and it is destroyed at once.
SendNowaitFails(r) ==
  /\ Calling /\ reqState[r] = "new"
  /\ Become({r}, "freed")
  /\ UNCHANGED <<ref, writerActive, queues, kernel, notifies, at, cur, walk, mixed, unwoken>>

\* (A mutant: a pending request stays pending.)
CancelQueued(r) ==
  /\ Calling
  /\ r \in ToSet(requestQueue \o replyQueue \o pendingList)
  /\ requestQueue' = RemoveIf(requestQueue, {r})
  /\ replyQueue' = RemoveIf(replyQueue, {r})
  /\ Become({r}, "freed")
  /\ mixed' = mixed \cup GivenUp({r})
  /\ UNCHANGED <<ref, pendingList, kernel, notifies, at, cur, walk>>
  /\ WakeupWriter

\* mgmt_cancel, of a request in any of the three lists.
Cancel(r) ==
  /\ Calling
  /\ r \in ToSet(requestQueue \o replyQueue \o pendingList)
  /\ requestQueue' = RemoveIf(requestQueue, {r})
  /\ replyQueue' = RemoveIf(replyQueue, {r})
  /\ pendingList' = RemoveIf(pendingList, {r})
  /\ Become({r}, "freed")
  /\ mixed' = mixed \cup GivenUp({r})
  /\ UNCHANGED <<ref, kernel, notifies, at, cur, walk>>
  /\ WakeupWriter

\* mgmt_cancel_index and mgmt_cancel_all do not wake the writer.
CancelWhere(matching) ==
  LET gone == ToSet(requestQueue \o replyQueue \o pendingList) \cap matching
  IN /\ requestQueue' = RemoveAll(requestQueue, matching)
     /\ replyQueue' = RemoveAll(replyQueue, matching)
     /\ pendingList' = RemoveAll(pendingList, matching)
     /\ Become(gone, "freed")
     /\ mixed' = mixed \cup GivenUp(gone)
     /\ unwoken' = TRUE
     /\ UNCHANGED <<ref, writerActive, kernel, notifies, at, cur, walk>>

CancelIndex(i) == Calling /\ CancelWhere({r \in Requests : Index[Key[r]] = i})
CancelAll == Calling /\ CancelWhere(Requests)

\* mgmt_register.
Register(n) ==
  /\ Calling /\ notState[n] = "new"
  /\ notifyList' = PushTail(notifyList, n)
  /\ NotBecome({n}, "listed")
  /\ UNCHANGED <<ref, writerActive, queues, reqState, kernel, removed, needCleanup, at, cur, walk,
                 mixed, unwoken>>

\* mgmt_unregister.  In a callback of an event the handler is unlinked and marked,
\* but not destroyed.  User code does not unregister the handler that queue_foreach
\* calls next: its entry would be read after it was freed.
Unregister(n) ==
  /\ Calling /\ notState[n] = "listed"
  /\ InNotify => n # next
  /\ notifyList' = RemoveIf(notifyList, {n})
  /\ NotBecome({n}, IF InNotify THEN "unlinked" ELSE "freed")
  /\ removed' = IF InNotify THEN removed \cup {n} ELSE removed
  /\ needCleanup' = (needCleanup \/ InNotify)
  /\ due' = due \ {n}
  /\ UNCHANGED <<ref, writerActive, queues, reqState, kernel, at, cur, event, next, mixed, unwoken>>

\* mgmt_unregister_index and mgmt_unregister_all: in a callback of an event the
\* handlers are only marked.
UnregisterWhere(matching) ==
  LET gone == ToSet(notifyList) \cap matching
  IN /\ IF InNotify
          THEN /\ removed' = removed \cup gone /\ needCleanup' = TRUE
               /\ UNCHANGED <<notifyList, notState>>
          ELSE /\ notifyList' = RemoveAll(notifyList, matching)
               /\ NotBecome(gone, "freed")
               /\ UNCHANGED <<removed, needCleanup>>
     /\ due' = due \ gone
     /\ UNCHANGED <<ref, writerActive, queues, reqState, kernel, at, cur, event, next, mixed, unwoken>>

\* In such a callback MGMT_INDEX_NONE stands for every index (mark_notify_removed),
\* otherwise for itself (match_notify_index).
UnregisterIndex(i) ==
  /\ Calling
  /\ UnregisterWhere({n \in Notifies : IndexOf[n] = i \/ (InNotify /\ i = IndexNone)})

UnregisterAll == Calling /\ UnregisterWhere(Notifies)

----------------------------------------------------------------------------
(* mgmt_unref *)

\* The last reference: handlers unregistered, requests cancelled, all freed.
Freed(destroyed) ==
  /\ ref' = "freed" /\ writerActive' = FALSE
  /\ requestQueue' = <<>> /\ replyQueue' = <<>> /\ pendingList' = <<>>
  /\ Become(destroyed \cup ToSet(requestQueue \o replyQueue \o pendingList), "freed")
  /\ notifyList' = <<>> /\ NotBecome(ToSet(notifyList), "freed")
  /\ removed' = {} /\ needCleanup' = FALSE
  /\ UNCHANGED <<kernel, mixed, unwoken>>

\* can_read_data holds a reference of its own while it calls back.
Unref ==
  /\ Calling
  /\ IF at \in {"loop", "failed"}
       THEN Freed({}) /\ UNCHANGED <<at, cur, walk>>
       ELSE /\ ref' = "released"
            /\ UNCHANGED <<writerActive, queues, reqState, kernel, notifies, at, cur, walk, mixed,
                           unwoken>>

----------------------------------------------------------------------------
(* can_write_data *)

Writing == at = "loop" /\ ref = "held" /\ writerActive

\* Replies first; the handler stays for the next of them.
WriteReply ==
  /\ Writing /\ replyQueue # <<>>
  /\ LET r == Head(replyQueue) IN
       /\ pendingList' = PushTail(pendingList, r)
       /\ kernel' = kernel \cup {r}
       /\ mixed' = IF Outstanding(r) THEN mixed \cup {Key[r]} ELSE mixed
  /\ replyQueue' = Tail(replyQueue)
  /\ writerActive' = (replyQueue' # <<>>)
  /\ UNCHANGED <<ref, requestQueue, reqState, notifies, at, cur, walk, unwoken>>

\* (A mutant: a request does not wait for the pending one.)
WriteRequestAtOnce ==
  /\ Writing /\ replyQueue = <<>> /\ requestQueue # <<>>
  /\ pendingList' = PushTail(pendingList, Head(requestQueue))
  /\ kernel' = kernel \cup {Head(requestQueue)}
  /\ requestQueue' = Tail(requestQueue)
  /\ writerActive' = (requestQueue' # <<>>)
  /\ UNCHANGED <<ref, replyQueue, reqState, notifies, at, cur, walk, mixed, unwoken>>

\* Then a request, if none is pending.
WriteRequest ==
  /\ Writing /\ replyQueue = <<>> /\ pendingList = <<>> /\ requestQueue # <<>>
  /\ pendingList' = <<Head(requestQueue)>>
  /\ kernel' = kernel \cup {Head(requestQueue)}
  /\ requestQueue' = Tail(requestQueue)
  /\ writerActive' = FALSE
  /\ UNCHANGED <<ref, replyQueue, reqState, notifies, at, cur, walk, mixed, unwoken>>

\* Nothing to send: the handler is removed.
WriterStops ==
  /\ Writing /\ ~Sendable
  /\ writerActive' = FALSE
  /\ UNCHANGED <<ref, queues, reqState, kernel, notifies, at, cur, walk, mixed, unwoken>>

\* send_request fails: the callback is told; the handler stays.
WriteFails ==
  /\ Writing /\ Sendable
  /\ at' = "failed"
  /\ IF replyQueue # <<>>
       THEN /\ cur' = Head(replyQueue) /\ replyQueue' = Tail(replyQueue)
            /\ UNCHANGED requestQueue
       ELSE /\ cur' = Head(requestQueue) /\ requestQueue' = Tail(requestQueue)
            /\ UNCHANGED replyQueue
  /\ UNCHANGED <<ref, writerActive, pendingList, reqState, kernel, notifies, walk, mixed, unwoken>>

WriteFailed ==
  /\ at = "failed"
  /\ Become({cur}, "freed")
  /\ at' = "loop" /\ cur' = None
  /\ UNCHANGED <<ref, writerActive, queues, kernel, notifies, walk, mixed, unwoken>>

----------------------------------------------------------------------------
(* can_read_data *)

\* request_complete: the kernel completes r; the first pending request of the same
\* opcode and index is taken for it.
Complete(r) ==
  /\ at = "loop" /\ ref = "held" /\ r \in kernel
  /\ kernel' = kernel \ {r}
  /\ UNCHANGED <<ref, requestQueue, replyQueue, reqState, notifies, walk, mixed>>
  /\ LET matching == {q \in Requests : Key[q] = Key[r]} IN
       \/ /\ \E q \in FindIf(pendingList, matching) : cur' = q
          /\ pendingList' = RemoveIf(pendingList, matching)
          /\ at' = "complete"
          /\ UNCHANGED <<writerActive, unwoken>>
       \/ /\ FindIf(pendingList, matching) = {}
          /\ UNCHANGED <<pendingList, at, cur>>
          /\ WakeupWriter

\* (A mutant: the writer is not woken.)
CompletedQuietly ==
  /\ at = "complete"
  /\ at' = "loop" /\ cur' = None
  /\ UNCHANGED <<kernel, walk, mixed>>
  /\ IF ref = "released"
       THEN Freed({cur})
       ELSE /\ Become({cur}, "freed")
            /\ UNCHANGED <<ref, queues, notifies, writerActive, unwoken>>

\* Its callback has returned.
Completed ==
  /\ at = "complete"
  /\ at' = "loop" /\ cur' = None
  /\ UNCHANGED <<kernel, walk, mixed>>
  /\ IF ref = "released"
       THEN Freed({cur})
       ELSE /\ Become({cur}, "freed")
            /\ UNCHANGED <<ref, queues, notifies>>
            /\ WakeupWriter

\* process_notify walks over the handlers.
Event(e) ==
  /\ at = "loop" /\ ref = "held"
  /\ at' = "notify" /\ event' = e
  /\ next' = IF notifyList = <<>> THEN None ELSE Head(notifyList)
  /\ due' = {n \in ToSet(notifyList) : e \in Wanted[n]}
  /\ UNCHANGED <<ref, writerActive, queues, reqState, kernel, notifies, cur, mixed, unwoken>>

Advance ==
  LET after == FollowerIn(notifyList, next)
  IN next' = IF after = {} THEN None ELSE CHOOSE n \in after : TRUE

\* (A mutant: the first handler called is the last.)
NotifyOne ==
  /\ at = "notify" /\ next # None
  /\ next \notin removed /\ event \in Wanted[next]
  /\ at' = "notified" /\ due' = due \ {next}
  /\ next' = None
  /\ UNCHANGED <<ref, writerActive, queues, reqState, kernel, notifies, cur, event, mixed, unwoken>>

\* notify_handler calls the handlers of the event that are not removed ...
Notify ==
  /\ at = "notify" /\ next # None
  /\ next \notin removed /\ event \in Wanted[next]
  /\ at' = "notified" /\ due' = due \ {next}
  /\ Advance
  /\ UNCHANGED <<ref, writerActive, queues, reqState, kernel, notifies, cur, event, mixed, unwoken>>

\* ... and passes over the others.
PassOver ==
  /\ at = "notify" /\ next # None
  /\ next \in removed \/ event \notin Wanted[next]
  /\ Advance
  /\ UNCHANGED <<ref, writerActive, queues, reqState, kernel, notifies, at, cur, event, due, mixed,
                 unwoken>>

Notified ==
  /\ at = "notified"
  /\ at' = "notify"
  /\ UNCHANGED <<ref, writerActive, queues, reqState, kernel, notifies, cur, walk, mixed, unwoken>>

\* (A mutant: the marks are kept.)
NotifyEndsMarked ==
  /\ at = "notify" /\ next = None
  /\ at' = "loop" /\ event' = None
  /\ UNCHANGED <<kernel, cur, next, due, mixed, unwoken>>
  /\ IF ref = "released"
       THEN Freed({})
       ELSE /\ notifyList' = RemoveAll(notifyList, removed)
            /\ NotBecome(ToSet(notifyList) \cap removed, "freed")
            /\ needCleanup' = FALSE
            /\ UNCHANGED <<ref, writerActive, queues, reqState, removed>>

\* After the last one the marked handlers that are still listed are destroyed.
NotifyEnds ==
  /\ at = "notify" /\ next = None
  /\ at' = "loop" /\ event' = None
  /\ UNCHANGED <<kernel, cur, next, due, mixed, unwoken>>
  /\ IF ref = "released"
       THEN Freed({})
       ELSE /\ notifyList' = RemoveAll(notifyList, removed)
            /\ NotBecome(ToSet(notifyList) \cap removed, "freed")
            /\ removed' = {} /\ needCleanup' = FALSE
            /\ UNCHANGED <<ref, writerActive, queues, reqState>>

----------------------------------------------------------------------------
User ==
  \/ \E r \in Requests : Send(r) \/ Reply(r) \/ SendNowait(r) \/ SendNowaitFails(r) \/ Cancel(r)
  \/ \E i \in Indices : CancelIndex(i)
  \/ CancelAll
  \/ \E n \in Notifies : Register(n) \/ Unregister(n)
  \/ \E i \in {IndexOf[n] : n \in Notifies} \cup {IndexNone} : UnregisterIndex(i)
  \/ UnregisterAll
  \/ Unref

Write == WriteReply \/ WriteRequest \/ WriterStops \/ WriteFails

Done == WriteFailed \/ Completed \/ Notify \/ PassOver \/ Notified \/ NotifyEnds

Next ==
  \/ User \/ Write \/ Done
  \/ \E r \in Requests : Complete(r)
  \/ \E e \in Events : Event(e)

Spec == Init /\ [][Next]_vars

\* The main loop serves all its ready sources in turn, callbacks return, and the
\* kernel completes every request.
FairSpec ==
  /\ Spec
  /\ SF_vars(Write) /\ WF_vars(Done) /\ SF_vars(\E r \in Requests : Complete(r))

----------------------------------------------------------------------------
(* Properties *)

\* Types of the fields of struct mgmt and of the objects.
TypeOK ==
  /\ ref \in {"held", "released", "freed"} /\ writerActive \in BOOLEAN
  /\ requestQueue \in Seq(Requests) /\ replyQueue \in Seq(Requests) /\ pendingList \in Seq(Requests)
  /\ reqState \in [Requests -> {"new", "live", "freed"}] /\ kernel \subseteq Requests
  /\ notifyList \in Seq(Notifies) /\ notState \in [Notifies -> {"new", "listed", "unlinked", "freed"}]
  /\ removed \subseteq Notifies /\ needCleanup \in BOOLEAN /\ (removed # {} => needCleanup)
  /\ at \in {"loop", "failed", "complete", "notify", "notified"}
  /\ cur \in Requests \cup {None} /\ (cur # None) = (at \in {"failed", "complete"})
  /\ event \in Events \cup {None} /\ (event # None) = InNotify
  /\ next \in Notifies \cup {None} /\ due \subseteq Notifies
  /\ mixed \subseteq Keys /\ unwoken \in BOOLEAN

Held == requestQueue \o replyQueue \o pendingList \o (IF cur = None THEN <<>> ELSE <<cur>>)

\* A request that was sent and not destroyed is in one place, once: none is leaked
\* or destroyed twice, whatever callbacks send and cancel (destroy_request, l.84).
HeldOnce ==
  /\ IsInjective(Held)
  /\ ToSet(Held) = {r \in Requests : reqState[r] = "live"}

\* wakeup_writer (l.219) is called wherever a request becomes ready: nothing waits
\* for a write handler that is not set, but after mgmt_cancel_index and
\* mgmt_cancel_all, which do not call it.
WriterAwake == at = "loop" /\ ref = "held" /\ Sendable => writerActive \/ unwoken

\* A completion is taken for the request it completes (request_complete, l.236),
\* unless user code had two of its opcode and index at the kernel by mgmt_reply or
\* mgmt_send_nowait, or cancelled one there.
OwnCompletion == [][\A r \in Requests : Complete(r) => cur' \in {r, None} \/ Key[r] \in mixed]_vars

\* Every request is destroyed in the end, its callback told or not, unless a
\* cancellation left the writer asleep.
EveryRequestEnds == \A r \in Requests : reqState[r] = "live" ~> reqState[r] = "freed" \/ unwoken

\* An event reaches every handler that was registered for it when it came and has
\* not been unregistered since, whatever the callbacks register and unregister
\* (process_notify, l.296).
EveryoneHears == at = "loop" => due = {}
=============================================================================
