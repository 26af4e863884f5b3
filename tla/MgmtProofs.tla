----------------------------- MODULE MgmtProofs -----------------------------
(***************************************************************************)
(* Proofs about Mgmt, for any requests, handlers and events: type          *)
(* correctness, that every request is held in one place, that the write    *)
(* handler is set when there is something to send, that an event reaches   *)
(* every handler it must, and that a completion goes to its own request.   *)
(***************************************************************************)
EXTENDS Mgmt, QueueProofs

\* queue_foreach goes from an entry to the next position.
LEMMA FollowerIs ==
  ASSUME NEW X, NEW q \in Seq(X), IsInjective(q), NEW i \in 1..Len(q)
  PROVE  FollowerIn(q, q[i]) = IF i < Len(q) THEN {q[i + 1]} ELSE {}
<1> DEFINE k == FirstMatch(q, {q[i]})
<1>1. k = i
  <2>1. ToSet(q) \cap {q[i]} # {}
    BY ToSetIs
  <2>2. k \in 1..Len(q) /\ q[k] \in {q[i]}
    BY <2>1, FirstMatchQueue
  <2> HIDE DEF k
  <2> QED
    BY <2>2, ToSetIs
<1>2. FollowerIn(q, q[i]) = IF k \in 1..(Len(q) - 1) THEN {q[k + 1]} ELSE {}
  BY DEF FollowerIn
<1>3. Len(q) \in Nat
  OBVIOUS
<1> HIDE DEF k
<1> QED
  BY <1>1, <1>2, <1>3

\* queue_foreach stays in the queue.
LEMMA FollowerTyped ==
  ASSUME NEW X, NEW q \in Seq(X), NEW x
  PROVE  FollowerIn(q, x) \subseteq X
<1> DEFINE k == FirstMatch(q, {x})
<1>1. FollowerIn(q, x) = IF k \in 1..(Len(q) - 1) THEN {q[k + 1]} ELSE {}
  BY DEF FollowerIn
<1> HIDE DEF k
<1>2. k \in 1..(Len(q) - 1) => k + 1 \in 1..Len(q) /\ q[k + 1] \in X
  OBVIOUS
<1> QED
  BY <1>1, <1>2

\* The walk over the handlers goes to a handler or ends.
LEMMA AdvanceTyped == TypeOK /\ Advance => next' \in Notifies \cup {None}
<1> SUFFICES ASSUME TypeOK, Advance PROVE next' \in Notifies \cup {None}
  OBVIOUS
<1> DEFINE after == FollowerIn(notifyList, next)
<1>1. next' = IF after = {} THEN None ELSE CHOOSE n \in after : TRUE
  BY DEF Advance
<1>2. after \subseteq Notifies
  BY FollowerTyped DEF TypeOK
<1>3. after # {} => (CHOOSE n \in after : TRUE) \in after
  OBVIOUS
<1> HIDE DEF after
<1> QED
  BY <1>1, <1>2, <1>3

\* What is left of a struct mgmt after its destruction has its types.
LEMMA FreedTyped ==
  ASSUME TypeOK, NEW gone, Freed(gone)
  PROVE  /\ ref' = "freed" /\ writerActive' \in BOOLEAN /\ needCleanup' \in BOOLEAN
         /\ requestQueue' \in Seq(Requests) /\ replyQueue' \in Seq(Requests)
         /\ pendingList' \in Seq(Requests) /\ notifyList' \in Seq(Notifies) /\ removed' = {}
         /\ reqState' \in [Requests -> {"new", "live", "freed"}]
         /\ notState' \in [Notifies -> {"new", "listed", "unlinked", "freed"}]
<1>1. <<>> \in Seq(Requests) /\ <<>> \in Seq(Notifies)
  BY EmptySeq
<1> QED
  BY <1>1 DEF Freed, Become, NotBecome, TypeOK

\* Every handler and every call of user code keeps the types.
LEMMA TypeStep == TypeOK /\ [Next]_vars => TypeOK'
<1> SUFFICES ASSUME TypeOK, [Next]_vars PROVE TypeOK'
  OBVIOUS
<1> USE DEF queues, notifies, walk
<1>0. /\ \A r \in Requests : Key[r] \in Keys
      /\ \A n \in Notifies : Wanted[n] \subseteq Events
      /\ None \notin Requests /\ None \notin Notifies /\ None \notin Events
  BY MgmtAssumption DEF Keys, Events
<1>1. ASSUME NEW r \in Requests, Send(r) \/ Reply(r) PROVE TypeOK'
  <2>1. /\ requestQueue' \in Seq(Requests) /\ replyQueue' \in Seq(Requests)
    <3>1. /\ Append(requestQueue, r) \in Seq(Requests) /\ Append(replyQueue, r) \in Seq(Requests)
          /\ requestQueue \in Seq(Requests) /\ replyQueue \in Seq(Requests)
      BY AppendProperties DEF TypeOK
    <3> QED
      BY <1>1, <3>1 DEF Send, Reply, PushTail
  <2>2. reqState' \in [Requests -> {"new", "live", "freed"}] /\ writerActive' \in BOOLEAN
        /\ unwoken' \in BOOLEAN
    BY <1>1 DEF TypeOK, Send, Reply, Become, WakeupWriter
  <2> QED
    BY <1>1, <2>1, <2>2 DEF TypeOK, Send, Reply, InNotify
<1>2. ASSUME NEW r \in Requests, SendNowait(r) \/ SendNowaitFails(r) PROVE TypeOK'
  <2>1. pendingList' \in Seq(Requests)
    <3>1. Append(pendingList, r) \in Seq(Requests) /\ pendingList \in Seq(Requests)
      BY AppendProperties DEF TypeOK
    <3> QED
      BY <1>2, <3>1 DEF SendNowait, SendNowaitFails, PushTail
  <2>2. reqState' \in [Requests -> {"new", "live", "freed"}] /\ mixed' \subseteq Keys
        /\ kernel' \subseteq Requests
    BY <1>0, <1>2 DEF TypeOK, SendNowait, SendNowaitFails, Become
  <2> QED
    BY <1>2, <2>1, <2>2 DEF TypeOK, SendNowait, SendNowaitFails, InNotify
<1>3. ASSUME NEW r \in Requests, Cancel(r) PROVE TypeOK'
  <2>1. /\ requestQueue' \in Seq(Requests) /\ replyQueue' \in Seq(Requests)
        /\ pendingList' \in Seq(Requests)
    BY <1>3, RemoveIfTyped DEF TypeOK, Cancel
  <2>2. reqState' \in [Requests -> {"new", "live", "freed"}] /\ writerActive' \in BOOLEAN
        /\ unwoken' \in BOOLEAN /\ mixed' \subseteq Keys
    BY <1>0, <1>3, ZenonT(40) DEF TypeOK, Cancel, Become, WakeupWriter, GivenUp
  <2> QED
    BY <1>3, <2>1, <2>2 DEF TypeOK, Cancel, InNotify
<1>4. ASSUME NEW matching, CancelWhere(matching) PROVE TypeOK'
  <2>1. /\ requestQueue' \in Seq(Requests) /\ replyQueue' \in Seq(Requests)
        /\ pendingList' \in Seq(Requests)
    BY <1>4, RemoveAllQueue DEF TypeOK, CancelWhere
  <2>2. reqState' \in [Requests -> {"new", "live", "freed"}]
    BY <1>4 DEF TypeOK, CancelWhere, Become
  <2>3. mixed' \subseteq Keys
    BY <1>0, <1>4 DEF TypeOK, CancelWhere, GivenUp
  <2> QED
    BY <1>4, <2>1, <2>2, <2>3 DEF TypeOK, CancelWhere, InNotify
<1>5. ASSUME NEW n \in Notifies, Register(n) PROVE TypeOK'
  <2>1. notifyList' \in Seq(Notifies)
    BY <1>5, AppendQueue DEF TypeOK, Register, PushTail
  <2> QED
    BY <1>5, <2>1 DEF TypeOK, Register, NotBecome, InNotify
<1>6. ASSUME NEW n \in Notifies, Unregister(n) PROVE TypeOK'
  <2>1. notifyList' \in Seq(Notifies)
    BY <1>6, RemoveIfTyped DEF TypeOK, Unregister
  <2>2. notState' \in [Notifies -> {"new", "listed", "unlinked", "freed"}]
    BY <1>6 DEF TypeOK, Unregister, NotBecome
  <2>3. removed' \subseteq Notifies /\ needCleanup' \in BOOLEAN /\ (removed' # {} => needCleanup')
    BY <1>6 DEF TypeOK, Unregister, InNotify
  <2> QED
    BY <1>6, <2>1, <2>2, <2>3 DEF TypeOK, Unregister, InNotify
<1>7. ASSUME NEW matching, UnregisterWhere(matching) PROVE TypeOK'
  <2>1. notifyList' \in Seq(Notifies) /\ ToSet(notifyList) \subseteq Notifies
    BY <1>7, RemoveAllQueue, ToSetIs DEF TypeOK, UnregisterWhere
  <2>2. notState' \in [Notifies -> {"new", "listed", "unlinked", "freed"}]
    BY <1>7 DEF TypeOK, UnregisterWhere, NotBecome
  <2>3. removed' \subseteq Notifies /\ needCleanup' \in BOOLEAN /\ (removed' # {} => needCleanup')
    BY <1>7, <2>1 DEF TypeOK, UnregisterWhere
  <2> QED
    BY <1>7, <2>1, <2>2, <2>3 DEF TypeOK, UnregisterWhere, InNotify
<1>8. CASE Unref
  BY <1>8, FreedTyped DEF TypeOK, Unref, Freed, InNotify
<1>9. CASE Write
  <2>1. CASE WriteReply
    <3>1. replyQueue # <<>> /\ Head(replyQueue) \in Requests /\ Tail(replyQueue) \in Seq(Requests)
      BY <2>1, HeadTailProperties DEF TypeOK, WriteReply
    <3>2. pendingList' \in Seq(Requests)
      BY <2>1, <3>1, AppendQueue DEF TypeOK, WriteReply, PushTail
    <3>3. kernel' \subseteq Requests /\ mixed' \subseteq Keys /\ writerActive' \in BOOLEAN
      BY <1>0, <2>1, <3>1 DEF TypeOK, WriteReply
    <3> QED
      BY <2>1, <3>1, <3>2, <3>3 DEF TypeOK, WriteReply, InNotify
  <2>2. CASE WriteRequest
    <3>1. /\ requestQueue # <<>> /\ Head(requestQueue) \in Requests
          /\ Tail(requestQueue) \in Seq(Requests)
      BY <2>2, HeadTailProperties DEF TypeOK, WriteRequest
    <3>2. pendingList' \in Seq(Requests) /\ kernel' \subseteq Requests
      BY <2>2, <3>1 DEF TypeOK, WriteRequest
    <3> QED
      BY <2>2, <3>1, <3>2 DEF TypeOK, WriteRequest, InNotify
  <2>3. CASE WriterStops
    BY <2>3 DEF TypeOK, WriterStops, InNotify
  <2>4. CASE WriteFails
    <3>1. /\ requestQueue # <<>> => Head(requestQueue) \in Requests
                                    /\ Tail(requestQueue) \in Seq(Requests)
          /\ replyQueue # <<>> => Head(replyQueue) \in Requests /\ Tail(replyQueue) \in Seq(Requests)
      BY HeadTailProperties DEF TypeOK
    <3>2. /\ cur' \in Requests /\ requestQueue' \in Seq(Requests) /\ replyQueue' \in Seq(Requests)
      BY <2>4, <3>1 DEF TypeOK, WriteFails, Sendable
    <3> QED
      BY <1>0, <2>4, <3>2 DEF TypeOK, WriteFails, Writing, InNotify
  <2> QED
    BY <1>9, <2>1, <2>2, <2>3, <2>4 DEF Write
<1>10. CASE WriteFailed
  <2>1. reqState' \in [Requests -> {"new", "live", "freed"}]
    BY <1>10 DEF TypeOK, WriteFailed, Become
  <2> QED
    BY <1>10, <2>1 DEF TypeOK, WriteFailed, InNotify
<1>11. CASE Completed
  <2>1. CASE Freed({cur})
    <3>1. /\ ref' = "freed" /\ writerActive' \in BOOLEAN /\ needCleanup' \in BOOLEAN
          /\ requestQueue' \in Seq(Requests) /\ replyQueue' \in Seq(Requests)
          /\ pendingList' \in Seq(Requests) /\ notifyList' \in Seq(Notifies) /\ removed' = {}
          /\ reqState' \in [Requests -> {"new", "live", "freed"}]
          /\ notState' \in [Notifies -> {"new", "listed", "unlinked", "freed"}]
          /\ UNCHANGED <<kernel, mixed, unwoken>>
      BY <2>1, FreedTyped DEF Freed
    <3> QED
      BY <1>11, <3>1 DEF TypeOK, Completed, InNotify
  <2>2. CASE Become({cur}, "freed") /\ UNCHANGED <<ref, queues, notifies>> /\ WakeupWriter
    <3>1. /\ reqState' \in [Requests -> {"new", "live", "freed"}]
          /\ writerActive' \in BOOLEAN /\ unwoken' \in BOOLEAN
      BY <2>2 DEF TypeOK, Become, WakeupWriter
    <3> QED
      BY <1>11, <2>2, <3>1 DEF TypeOK, Completed, InNotify
  <2> QED
    BY <1>11, <2>1, <2>2 DEF Completed
<1>12. CASE Notify \/ PassOver
  <2>1. next' \in Notifies \cup {None}
    BY <1>12, AdvanceTyped DEF Notify, PassOver
  <2> QED
    BY <1>12, <2>1 DEF TypeOK, Notify, PassOver, InNotify
<1>13. CASE Notified
  BY <1>13 DEF TypeOK, Notified, InNotify
<1>14. CASE NotifyEnds
  <2>1. CASE Freed({})
    <3>1. /\ ref' = "freed" /\ writerActive' \in BOOLEAN /\ needCleanup' \in BOOLEAN
          /\ requestQueue' \in Seq(Requests) /\ replyQueue' \in Seq(Requests)
          /\ pendingList' \in Seq(Requests) /\ notifyList' \in Seq(Notifies) /\ removed' = {}
          /\ reqState' \in [Requests -> {"new", "live", "freed"}]
          /\ notState' \in [Notifies -> {"new", "listed", "unlinked", "freed"}]
          /\ UNCHANGED <<kernel, mixed, unwoken>>
      BY <2>1, FreedTyped DEF Freed
    <3> QED
      BY <1>14, <3>1 DEF TypeOK, NotifyEnds, InNotify
  <2>2. CASE ref # "released"
    <3>1. notifyList' \in Seq(Notifies)
      BY <1>14, <2>2, RemoveAllQueue DEF TypeOK, NotifyEnds
    <3>2. notState' \in [Notifies -> {"new", "listed", "unlinked", "freed"}]
      BY <1>14, <2>2 DEF TypeOK, NotifyEnds, NotBecome
    <3>3. /\ at' = "loop" /\ event' = None /\ removed' = {} /\ needCleanup' = FALSE
          /\ UNCHANGED <<ref, writerActive, queues, reqState, kernel, cur, next, due, mixed, unwoken>>
      BY <1>14, <2>2 DEF NotifyEnds
    <3>4. at = "notify"
      BY <1>14 DEF NotifyEnds
    <3>5. /\ ref' \in {"held", "released", "freed"} /\ writerActive' \in BOOLEAN
          /\ requestQueue' \in Seq(Requests) /\ replyQueue' \in Seq(Requests)
          /\ pendingList' \in Seq(Requests)
          /\ reqState' \in [Requests -> {"new", "live", "freed"}] /\ kernel' \subseteq Requests
          /\ next' \in Notifies \cup {None} /\ due' \subseteq Notifies
          /\ mixed' \subseteq Keys /\ unwoken' \in BOOLEAN
      BY <3>3 DEF TypeOK
    <3>6. /\ cur' \in Requests \cup {None} /\ (cur' # None) = (at' \in {"failed", "complete"})
          /\ event' \in Events \cup {None} /\ (event' # None) = InNotify'
      BY <3>3, <3>4 DEF TypeOK, InNotify
    <3> QED
      BY <3>1, <3>2, <3>3, <3>5, <3>6 DEF TypeOK
  <2> QED
    BY <1>14, <2>1, <2>2 DEF NotifyEnds
<1>15. ASSUME NEW r \in Requests, Complete(r) PROVE TypeOK'
  <2> DEFINE matching == {q \in Requests : Key[q] = Key[r]}
  <2>1. /\ RemoveIf(pendingList, matching) \in Seq(Requests)
        /\ \A q \in FindIf(pendingList, matching) : q \in matching
    BY RemoveIfTyped, FindIfFound DEF TypeOK
  <2>2. \/ /\ cur' \in Requests /\ pendingList' \in Seq(Requests)
           /\ at' = "complete" /\ UNCHANGED <<writerActive, unwoken>>
        \/ UNCHANGED <<pendingList, at, cur>> /\ WakeupWriter
    BY <1>15, <2>1 DEF Complete
  <2>3. pendingList' \in Seq(Requests) /\ writerActive' \in BOOLEAN /\ unwoken' \in BOOLEAN
        /\ kernel' \subseteq Requests
    BY <1>15, <2>2 DEF TypeOK, WakeupWriter, Complete
  <2> HIDE DEF matching
  <2> QED
    BY <1>0, <1>15, <2>2, <2>3 DEF TypeOK, Complete, InNotify
<1>16. ASSUME NEW e \in Events, Event(e) PROVE TypeOK'
  <2>1. notifyList # <<>> => Head(notifyList) \in Notifies
    BY HeadTailProperties DEF TypeOK
  <2>2. ToSet(notifyList) \subseteq Notifies
    BY ToSetIs DEF TypeOK
  <2> QED
    BY <1>0, <1>16, <2>1, <2>2 DEF TypeOK, Event, InNotify
<1>17. CASE UNCHANGED vars
  BY <1>17 DEF TypeOK, vars, InNotify
<1> QED
  BY <1>1, <1>2, <1>3, <1>4, <1>5, <1>6, <1>7, <1>8, <1>9, <1>10, <1>11, <1>12, <1>13,
     <1>14,
     <1>15, <1>16, <1>17
     DEF Next, User, Done, CancelIndex, CancelAll, UnregisterIndex, UnregisterAll

----------------------------------------------------------------------------

\* The requests that wait to be sent or for their completion.
Queued == ToSet(requestQueue) \cup ToSet(replyQueue) \cup ToSet(pendingList)

\* No request is in two places, and the one being called back is in none.
Apart ==
  /\ IsInjective(requestQueue) /\ IsInjective(replyQueue) /\ IsInjective(pendingList)
  /\ ToSet(requestQueue) \cap ToSet(replyQueue) = {}
  /\ ToSet(requestQueue) \cap ToSet(pendingList) = {}
  /\ ToSet(replyQueue) \cap ToSet(pendingList) = {}
  /\ cur \notin Queued

\* The requests that exist are the queued ones and the one being called back.
AllHeld == \A r \in Requests : reqState[r] = "live" <=> r \in Queued \cup {cur}

\* For a key of which no completion is ambiguous, the kernel has the requests that are
\* pending, one at most.
AtKernel ==
  ref # "freed" => \A r \in Requests : Key[r] \notin mixed =>
    /\ r \in kernel <=> r \in ToSet(pendingList)
    /\ \A q \in kernel : r \in kernel /\ Key[q] = Key[r] => q = r

\* The inductive invariant of the request queues.
Holding == Apart /\ AllHeld /\ AtKernel

\* The types of the queues, as sets of requests.
LEMMA QueueSets ==
  ASSUME TypeOK
  PROVE  /\ ToSet(requestQueue) \subseteq Requests /\ ToSet(replyQueue) \subseteq Requests
         /\ ToSet(pendingList) \subseteq Requests /\ Queued \subseteq Requests
         /\ None \notin Requests /\ ToSet(<<>>) = {} /\ IsInjective(<<>>)
<1>1. ToSet(requestQueue) \subseteq Requests
  BY ToSetIs, Zenon DEF TypeOK
<1>2. ToSet(replyQueue) \subseteq Requests
  BY ToSetIs, Zenon DEF TypeOK
<1>3. ToSet(pendingList) \subseteq Requests
  BY ToSetIs, Zenon DEF TypeOK
<1> QED
  BY <1>1, <1>2, <1>3, EmptyQueue, MgmtAssumption DEF Queued

\* A request is queued if one of the three queues has it.
LEMMA QueuedRequests ==
  ASSUME TypeOK
  PROVE  ToSet(requestQueue \o replyQueue \o pendingList) = Queued
<1>1. /\ requestQueue \in Seq(Requests) /\ replyQueue \in Seq(Requests)
      /\ pendingList \in Seq(Requests)
  BY DEF TypeOK
<1>2. /\ requestQueue \o replyQueue \in Seq(Requests)
      /\ ToSet(requestQueue \o replyQueue) = ToSet(requestQueue) \cup ToSet(replyQueue)
  BY <1>1, ConcatQueue, Zenon
<1>3. ToSet((requestQueue \o replyQueue) \o pendingList)
        = ToSet(requestQueue \o replyQueue) \cup ToSet(pendingList)
  BY <1>1, <1>2, ConcatQueue, Zenon
<1> QED
  BY <1>2, <1>3 DEF Queued

\* A step that leaves the requests alone keeps the invariant.
LEMMA QueuesStay ==
  ASSUME Holding, UNCHANGED <<requestQueue, replyQueue, pendingList, reqState, cur, kernel, mixed>>,
         ref' # "freed" => ref # "freed"
  PROVE  Holding'
<1>1. UNCHANGED Queued
  BY DEF Queued
<1> QED
  BY <1>1 DEF Holding, Apart, AllHeld, AtKernel

\* mgmt_send, mgmt_reply and mgmt_send_nowait queue a new request.
LEMMA SendHolds ==
  ASSUME TypeOK, Holding, NEW r \in Requests,
         Send(r) \/ Reply(r) \/ SendNowait(r) \/ SendNowaitFails(r)
  PROVE  Holding'
<1> USE QueueSets
<1>0. Apart /\ AllHeld /\ AtKernel
  BY DEF Holding
<1>1. r \notin Queued /\ r # cur /\ reqState[r] = "new"
  BY <1>0 DEF AllHeld, Send, Reply, SendNowait, SendNowaitFails
<1>2. /\ requestQueue \in Seq(Requests) /\ replyQueue \in Seq(Requests)
      /\ pendingList \in Seq(Requests)
  BY DEF TypeOK
<1>3. CASE Send(r)
  <2>1. /\ ToSet(requestQueue') = ToSet(requestQueue) \cup {r} /\ IsInjective(requestQueue')
    BY <1>0, <1>1, <1>2, <1>3, AppendQueue DEF Send, PushTail, Apart, Queued
  <2>2. /\ Queued' = Queued \cup {r}
        /\ UNCHANGED <<ref, replyQueue, pendingList, kernel, mixed, cur>>
        /\ reqState' = [q \in Requests |-> IF q = r THEN "live" ELSE reqState[q]]
    BY <1>3, <2>1 DEF Send, Queued, Become
  <2>3. Apart'
    BY <1>0, <1>1, <2>1, <2>2 DEF Apart, Queued
  <2>4. AllHeld' /\ AtKernel'
    BY <1>0, <2>2 DEF AllHeld, AtKernel
  <2> QED
    BY <2>3, <2>4 DEF Holding
<1>4. CASE Reply(r)
  <2>1. /\ ToSet(replyQueue') = ToSet(replyQueue) \cup {r} /\ IsInjective(replyQueue')
    BY <1>0, <1>1, <1>2, <1>4, AppendQueue DEF Reply, PushTail, Apart, Queued
  <2>2. /\ Queued' = Queued \cup {r}
        /\ UNCHANGED <<ref, requestQueue, pendingList, kernel, mixed, cur>>
        /\ reqState' = [q \in Requests |-> IF q = r THEN "live" ELSE reqState[q]]
    BY <1>4, <2>1 DEF Reply, Queued, Become
  <2>3. Apart'
    BY <1>0, <1>1, <2>1, <2>2 DEF Apart, Queued
  <2>4. AllHeld' /\ AtKernel'
    BY <1>0, <2>2 DEF AllHeld, AtKernel
  <2> QED
    BY <2>3, <2>4 DEF Holding
<1>5. CASE SendNowait(r)
  <2>1. /\ ToSet(pendingList') = ToSet(pendingList) \cup {r} /\ IsInjective(pendingList')
    BY <1>0, <1>1, <1>2, <1>5, AppendQueue DEF SendNowait, PushTail, Apart, Queued
  <2>2. /\ Queued' = Queued \cup {r}
        /\ UNCHANGED <<ref, requestQueue, replyQueue, cur>> /\ kernel' = kernel \cup {r}
        /\ mixed' = IF Outstanding(r) THEN mixed \cup {Key[r]} ELSE mixed
        /\ reqState' = [q \in Requests |-> IF q = r THEN "live" ELSE reqState[q]]
    BY <1>5, <2>1 DEF SendNowait, Queued, Become
  <2>3. Apart'
    BY <1>0, <1>1, <2>1, <2>2 DEF Apart, Queued
  <2>4. AllHeld'
    BY <1>0, <2>2 DEF AllHeld
  <2>5. AtKernel'
    BY <1>0, <2>1, <2>2 DEF AtKernel, Outstanding
  <2> QED
    BY <2>3, <2>4, <2>5 DEF Holding
<1>6. CASE SendNowaitFails(r)
  <2>1. /\ UNCHANGED <<ref, requestQueue, replyQueue, pendingList, kernel, mixed, cur>>
        /\ reqState' = [q \in Requests |-> IF q = r THEN "freed" ELSE reqState[q]]
    BY <1>6 DEF SendNowaitFails, Become, queues
  <2>2. UNCHANGED Queued
    BY <2>1 DEF Queued
  <2> QED
    BY <1>0, <1>1, <2>1, <2>2 DEF Holding, Apart, AllHeld, AtKernel
<1> QED
  BY <1>3, <1>4, <1>5, <1>6

\* Taking requests out of the queues and destroying them keeps the invariant.
LEMMA TakenOut ==
  ASSUME TypeOK, Holding, NEW gone \in SUBSET Queued, UNCHANGED <<ref, kernel, cur>>,
         IsInjective(requestQueue'), ToSet(requestQueue') = ToSet(requestQueue) \ gone,
         IsInjective(replyQueue'), ToSet(replyQueue') = ToSet(replyQueue) \ gone,
         IsInjective(pendingList'), ToSet(pendingList') = ToSet(pendingList) \ gone,
         Become(gone, "freed"), mixed' = mixed \cup GivenUp(gone)
  PROVE  Holding'
<1>0. Apart /\ AllHeld /\ AtKernel
  BY DEF Holding
<1>1. Queued' = Queued \ gone
  BY DEF Queued
<1>2. Apart'
  BY <1>0, <1>1 DEF Apart, Queued
<1>3. AllHeld'
  BY <1>0, <1>1 DEF AllHeld, Become, Apart
<1>4. AtKernel'
  <2> SUFFICES ASSUME ref # "freed", NEW r \in Requests, Key[r] \notin mixed'
               PROVE  /\ r \in kernel <=> r \in ToSet(pendingList) \ gone
                      /\ \A q \in kernel : r \in kernel /\ Key[q] = Key[r] => q = r
    BY DEF AtKernel
  <2>1. Key[r] \notin mixed /\ ~(r \in gone \cap kernel)
    BY DEF GivenUp
  <2> QED
    BY <1>0, <2>1 DEF AtKernel
<1> QED
  BY <1>2, <1>3, <1>4 DEF Holding

\* mgmt_cancel takes one request out.
LEMMA CancelHolds ==
  ASSUME TypeOK, Holding, NEW r \in Requests, Cancel(r)
  PROVE  Holding'
<1>0. Apart
  BY DEF Holding
<1>1. /\ requestQueue \in Seq(Requests) /\ replyQueue \in Seq(Requests)
      /\ pendingList \in Seq(Requests) /\ IsInjective(requestQueue) /\ IsInjective(replyQueue)
      /\ IsInjective(pendingList)
  BY <1>0 DEF TypeOK, Apart
<1>2. IsInjective(requestQueue') /\ ToSet(requestQueue') = ToSet(requestQueue) \ {r}
  BY <1>1, RemoveOne DEF Cancel
<1>3. IsInjective(replyQueue') /\ ToSet(replyQueue') = ToSet(replyQueue) \ {r}
  BY <1>1, RemoveOne DEF Cancel
<1>4. IsInjective(pendingList') /\ ToSet(pendingList') = ToSet(pendingList) \ {r}
  BY <1>1, RemoveOne DEF Cancel
<1>5. /\ r \in Queued /\ Become({r}, "freed") /\ mixed' = mixed \cup GivenUp({r})
      /\ UNCHANGED <<ref, kernel, cur>>
  BY QueuedRequests DEF Cancel
<1> DEFINE gone == {r}
<1>6. /\ gone \in SUBSET Queued /\ Become(gone, "freed") /\ mixed' = mixed \cup GivenUp(gone)
  BY <1>5
<1>7. /\ ToSet(requestQueue') = ToSet(requestQueue) \ gone
      /\ ToSet(replyQueue') = ToSet(replyQueue) \ gone
      /\ ToSet(pendingList') = ToSet(pendingList) \ gone
  BY <1>2, <1>3, <1>4
<1> HIDE DEF gone
<1> QED
  BY <1>2, <1>3, <1>4, <1>5, <1>6, <1>7, TakenOut

\* mgmt_cancel_index and mgmt_cancel_all take out the ones that match.
LEMMA CancelWhereHolds ==
  ASSUME TypeOK, Holding, NEW matching, CancelWhere(matching)
  PROVE  Holding'
<1>0. Apart
  BY DEF Holding
<1> DEFINE gone == Queued \cap matching
<1>1. /\ requestQueue \in Seq(Requests) /\ replyQueue \in Seq(Requests)
      /\ pendingList \in Seq(Requests) /\ IsInjective(requestQueue) /\ IsInjective(replyQueue)
      /\ IsInjective(pendingList)
  BY <1>0 DEF TypeOK, Apart
<1>2. IsInjective(requestQueue') /\ ToSet(requestQueue') = ToSet(requestQueue) \ matching
  BY <1>1, RemoveAllQueue DEF CancelWhere
<1>3. IsInjective(replyQueue') /\ ToSet(replyQueue') = ToSet(replyQueue) \ matching
  BY <1>1, RemoveAllQueue DEF CancelWhere
<1>4. IsInjective(pendingList') /\ ToSet(pendingList') = ToSet(pendingList) \ matching
  BY <1>1, RemoveAllQueue DEF CancelWhere
<1>5. /\ gone \in SUBSET Queued /\ Become(gone, "freed") /\ mixed' = mixed \cup GivenUp(gone)
      /\ UNCHANGED <<ref, kernel, cur>>
  BY QueuedRequests DEF CancelWhere
<1>6. /\ ToSet(requestQueue') = ToSet(requestQueue) \ gone
      /\ ToSet(replyQueue') = ToSet(replyQueue) \ gone
      /\ ToSet(pendingList') = ToSet(pendingList) \ gone
  BY <1>2, <1>3, <1>4 DEF Queued
<1> HIDE DEF gone
<1> QED
  BY <1>2, <1>3, <1>4, <1>5, <1>6, TakenOut

\* The destruction of the struct mgmt destroys what is queued.
LEMMA FreedHolds ==
  ASSUME TypeOK, Holding, NEW destroyed, Freed(destroyed), cur' \in {cur, None},
         destroyed \subseteq {cur}, cur' = cur => destroyed = {}, cur' = None => cur \in destroyed \cup {None}
  PROVE  Holding'
<1> USE QueueSets
<1>0. Apart /\ AllHeld
  BY DEF Holding
<1>1. /\ requestQueue' = <<>> /\ replyQueue' = <<>> /\ pendingList' = <<>> /\ ref' = "freed"
      /\ reqState' = [r \in Requests |-> IF r \in destroyed \cup Queued THEN "freed" ELSE reqState[r]]
  BY QueuedRequests DEF Freed, Become
<1>2. Queued' = {} /\ Apart' /\ AtKernel'
  BY <1>1 DEF Queued, Apart, AtKernel
<1>3. AllHeld'
  BY <1>0, <1>1, <1>2 DEF AllHeld, Apart
<1> QED
  BY <1>2, <1>3 DEF Holding

\* can_write_data moves a request to the pending ones, or finishes it.
LEMMA WriteHolds ==
  ASSUME TypeOK, Holding, Write
  PROVE  Holding'
<1> USE QueueSets
<1>0. /\ Apart /\ AllHeld /\ AtKernel /\ ref = "held" /\ at = "loop" /\ cur = None
      /\ requestQueue \in Seq(Requests) /\ replyQueue \in Seq(Requests)
      /\ pendingList \in Seq(Requests)
  BY DEF Holding, TypeOK, Write, WriteReply, WriteRequest, WriterStops, WriteFails,
     Writing
<1>1. CASE WriteReply
  <2> DEFINE r == Head(replyQueue)
  <2>1. /\ r \in Requests /\ ToSet(replyQueue) = {r} \cup ToSet(Tail(replyQueue))
        /\ IsInjective(Tail(replyQueue)) /\ r \notin ToSet(Tail(replyQueue))
    BY <1>0, <1>1, HeadQueue DEF WriteReply, Apart
  <2>2. /\ replyQueue' = Tail(replyQueue) /\ pendingList' = Append(pendingList, r)
        /\ kernel' = kernel \cup {r}
        /\ mixed' = IF Outstanding(r) THEN mixed \cup {Key[r]} ELSE mixed
    BY <1>1 DEF WriteReply, PushTail
  <2>3. UNCHANGED <<ref, requestQueue, reqState, cur>>
    BY <1>1 DEF WriteReply
  <2> HIDE DEF r
  <2>4. r \notin ToSet(pendingList)
    BY <1>0, <2>1 DEF Apart
  <2>5. IsInjective(pendingList') /\ ToSet(pendingList') = ToSet(pendingList) \cup {r}
    BY <1>0, <2>1, <2>2, <2>4, AppendQueue DEF Apart
  <2>6. UNCHANGED Queued
    BY <2>1, <2>2, <2>3, <2>5 DEF Queued
  <2>7. Apart' /\ AllHeld'
    BY <1>0, <2>1, <2>2, <2>3, <2>5, <2>6 DEF Apart, AllHeld
  <2>8. AtKernel'
    BY <1>0, <2>1, <2>2, <2>3, <2>5 DEF AtKernel, Outstanding
  <2> QED
    BY <2>7, <2>8 DEF Holding
<1>2. CASE WriteRequest
  <2> DEFINE r == Head(requestQueue)
  <2>1. /\ r \in Requests /\ ToSet(requestQueue) = {r} \cup ToSet(Tail(requestQueue))
        /\ IsInjective(Tail(requestQueue)) /\ r \notin ToSet(Tail(requestQueue))
    BY <1>0, <1>2, HeadQueue DEF WriteRequest, Apart
  <2>2. /\ requestQueue' = Tail(requestQueue) /\ pendingList = <<>> /\ pendingList' = <<r>>
        /\ kernel' = kernel \cup {r} /\ UNCHANGED <<ref, replyQueue, reqState, cur, mixed>>
    BY <1>2 DEF WriteRequest
  <2> HIDE DEF r
  <2>3. IsInjective(pendingList') /\ ToSet(pendingList') = {r} /\ ToSet(pendingList) = {}
    BY <2>2, SingleQueue
  <2>4. UNCHANGED Queued
    BY <2>1, <2>2, <2>3 DEF Queued
  <2>5. Apart' /\ AllHeld'
    BY <1>0, <2>1, <2>2, <2>3, <2>4 DEF Apart, AllHeld
  <2>6. \A q \in Requests : Key[q] \notin mixed => q \notin kernel
    BY <1>0, <2>3 DEF AtKernel
  <2>7. kernel \subseteq Requests
    BY DEF TypeOK
  <2>8. AtKernel'
    BY <2>1, <2>2, <2>3, <2>6, <2>7 DEF AtKernel
  <2> QED
    BY <2>5, <2>8 DEF Holding
<1>3. CASE WriterStops
  <2>1. UNCHANGED <<requestQueue, replyQueue, pendingList, reqState, cur, kernel, mixed, ref>>
    BY <1>3 DEF WriterStops, queues
  <2> QED
    BY <2>1, QueuesStay
<1>4. CASE WriteFails
  <2>1. /\ UNCHANGED <<pendingList, reqState, kernel, mixed, ref>>
        /\ \/ /\ replyQueue # <<>> /\ cur' = Head(replyQueue) /\ replyQueue' = Tail(replyQueue)
              /\ UNCHANGED requestQueue
           \/ /\ requestQueue # <<>> /\ cur' = Head(requestQueue)
              /\ requestQueue' = Tail(requestQueue) /\ UNCHANGED replyQueue
    BY <1>4 DEF WriteFails, Sendable
  <2>2. \/ /\ ToSet(replyQueue) = {cur'} \cup ToSet(replyQueue') /\ UNCHANGED requestQueue
           /\ IsInjective(replyQueue') /\ cur' \notin ToSet(replyQueue')
        \/ /\ ToSet(requestQueue) = {cur'} \cup ToSet(requestQueue') /\ UNCHANGED replyQueue
           /\ IsInjective(requestQueue') /\ cur' \notin ToSet(requestQueue')
    <3>1. replyQueue # <<>> =>
            /\ ToSet(replyQueue) = {Head(replyQueue)} \cup ToSet(Tail(replyQueue))
            /\ IsInjective(Tail(replyQueue)) /\ Head(replyQueue) \notin ToSet(Tail(replyQueue))
      BY <1>0, HeadQueue DEF Apart
    <3>2. requestQueue # <<>> =>
            /\ ToSet(requestQueue) = {Head(requestQueue)} \cup ToSet(Tail(requestQueue))
            /\ IsInjective(Tail(requestQueue)) /\ Head(requestQueue) \notin ToSet(Tail(requestQueue))
      BY <1>0, HeadQueue DEF Apart
    <3> QED
      BY <2>1, <3>1, <3>2
  <2>3. Queued = Queued' \cup {cur'} /\ cur' \notin Queued'
    BY <1>0, <2>1, <2>2 DEF Queued, Apart
  <2>4. Apart'
    BY <1>0, <2>1, <2>2, <2>3 DEF Apart
  <2>5. AllHeld' /\ AtKernel'
    BY <1>0, <2>1, <2>3 DEF AllHeld, AtKernel
  <2> QED
    BY <2>4, <2>5 DEF Holding
<1> QED
  BY <1>1, <1>2, <1>3, <1>4 DEF Write

\* A callback that returns leaves its request destroyed.
LEMMA CallbackDone ==
  ASSUME TypeOK, Holding, cur' = None, Become({cur}, "freed"),
         UNCHANGED <<requestQueue, replyQueue, pendingList, kernel, mixed, ref>>
  PROVE  Holding'
<1>1. UNCHANGED Queued
  BY DEF Queued
<1> QED
  BY <1>1, QueueSets DEF Holding, Apart, AllHeld, AtKernel, Become

\* request_complete takes out a pending request of the completed opcode and index; it is
\* the one the kernel completed unless that key is mixed.
LEMMA CompleteHolds ==
  ASSUME TypeOK, Holding, NEW r \in Requests, Complete(r)
  PROVE  Holding' /\ (cur' \in {r, None} \/ Key[r] \in mixed)
<1> USE QueueSets
<1> DEFINE matching == {q \in Requests : Key[q] = Key[r]}
           found == FindIf(pendingList, matching)
<1>0. /\ Apart /\ AllHeld /\ AtKernel /\ ref = "held" /\ cur = None /\ r \in kernel
      /\ pendingList \in Seq(Requests)
      /\ UNCHANGED <<ref, requestQueue, replyQueue, reqState, mixed>> /\ kernel' = kernel \ {r}
  BY DEF Holding, TypeOK, Complete
<1>1. /\ IsInjective(RemoveIf(pendingList, matching))
      /\ found \subseteq ToSet(pendingList) \cap matching
      /\ found = {} <=> ToSet(pendingList) \cap matching = {}
      /\ ToSet(RemoveIf(pendingList, matching)) = ToSet(pendingList) \ found
      /\ \A p, q \in found : p = q
  <2>1. IsInjective(pendingList) /\ pendingList \in Seq(Requests)
    BY <1>0 DEF Apart
  <2> HIDE DEF matching
  <2> QED
    BY <2>1, RemoveIfQueue
<1>2. \/ \E q \in found : cur' = q /\ pendingList' = RemoveIf(pendingList, matching)
      \/ found = {} /\ UNCHANGED <<pendingList, cur>>
  BY DEF Complete
<1>3. \A q \in ToSet(pendingList) \cap matching : q = r \/ Key[r] \in mixed
  BY <1>0 DEF AtKernel
<1>4. r \in ToSet(pendingList) \/ Key[r] \in mixed
  BY <1>0 DEF AtKernel
<1> HIDE DEF found
<1>5. CASE \E q \in found : cur' = q /\ pendingList' = RemoveIf(pendingList, matching)
  <2>1. PICK q \in found : cur' = q /\ pendingList' = RemoveIf(pendingList, matching)
    BY <1>5
  <2>2. /\ found = {q} /\ q \in ToSet(pendingList) /\ q \in Requests /\ Key[q] = Key[r]
        /\ q = r \/ Key[r] \in mixed
    BY <1>1, <1>3
  <2>3. ToSet(pendingList') = ToSet(pendingList) \ {q} /\ IsInjective(pendingList')
    BY <1>1, <2>1, <2>2
  <2>4. Queued' = Queued \ {q} /\ Queued = Queued' \cup {q} /\ cur' = q
    BY <1>0, <2>1, <2>2, <2>3 DEF Queued, Apart
  <2>5. Apart' /\ AllHeld'
    BY <1>0, <2>3, <2>4 DEF Apart, AllHeld
  <2>6. AtKernel'
    BY <1>0, <2>2, <2>3 DEF AtKernel
  <2> QED
    BY <2>2, <2>4, <2>5, <2>6 DEF Holding
<1>6. CASE found = {} /\ UNCHANGED <<pendingList, cur>>
  <2>1. Key[r] \in mixed
    BY <1>1, <1>4, <1>6
  <2>2. UNCHANGED Queued
    BY <1>0, <1>6 DEF Queued
  <2> QED
    BY <1>0, <1>6, <2>1, <2>2 DEF Holding, Apart, AllHeld, AtKernel
<1> QED
  BY <1>2, <1>5, <1>6

\* Every step keeps the invariant of the request queues.
LEMMA HoldingStep == TypeOK /\ Holding /\ [Next]_vars => Holding'
<1> SUFFICES ASSUME TypeOK, Holding, [Next]_vars PROVE Holding'
  OBVIOUS
<1> DEFINE Same == UNCHANGED <<requestQueue, replyQueue, pendingList, reqState, cur, kernel, mixed>>
<1>1. ASSUME NEW r \in Requests,
             Send(r) \/ Reply(r) \/ SendNowait(r) \/ SendNowaitFails(r) \/ Cancel(r)
      PROVE  Holding'
  BY <1>1, SendHolds, CancelHolds
<1>2. CASE CancelAll \/ \E i \in Indices : CancelIndex(i)
  BY <1>2, CancelWhereHolds DEF CancelAll, CancelIndex
<1>3. ASSUME NEW n \in Notifies, Register(n) \/ Unregister(n) PROVE Holding'
  <2>1. Same /\ UNCHANGED ref
    BY <1>3 DEF Register, Unregister, queues
  <2> QED
    BY <2>1, QueuesStay
<1>4. CASE UnregisterAll \/ \E i \in {IndexOf[n] : n \in Notifies} \cup {IndexNone} : UnregisterIndex(i)
  <2>1. Same /\ UNCHANGED ref
    BY <1>4 DEF UnregisterAll, UnregisterIndex, UnregisterWhere, queues
  <2> QED
    BY <2>1, QueuesStay
<1>5. CASE Unref
  <2>1. CASE at \in {"loop", "failed"}
    BY <1>5, <2>1, FreedHolds DEF Unref
  <2>2. CASE at \notin {"loop", "failed"}
    <3>1. Same /\ (ref' # "freed" => ref # "freed")
      BY <1>5, <2>2 DEF Unref, queues, Calling
    <3> QED
      BY <3>1, QueuesStay
  <2> QED
    BY <2>1, <2>2
<1>6. CASE Write
  BY <1>6, WriteHolds
<1>7. CASE WriteFailed
  BY <1>7, CallbackDone DEF WriteFailed, queues
<1>8. CASE Completed
  <2>1. CASE ref = "released"
    <3>1. Freed({cur}) /\ cur' = None /\ cur # None
      BY <1>8, <2>1 DEF Completed, TypeOK
    <3> QED
      BY <3>1, FreedHolds
  <2>2. CASE ref # "released"
    BY <1>8, <2>2, CallbackDone DEF Completed, queues
  <2> QED
    BY <2>1, <2>2
<1>9. CASE Notify \/ PassOver \/ Notified
  <2>1. Same /\ UNCHANGED ref
    BY <1>9 DEF Notify, PassOver, Notified, queues
  <2> QED
    BY <2>1, QueuesStay
<1>10. CASE NotifyEnds
  <2>1. CASE ref = "released"
    <3>1. cur' = cur /\ cur = None /\ Freed({})
      BY <1>10, <2>1 DEF NotifyEnds, TypeOK
    <3> QED
      BY <3>1, FreedHolds
  <2>2. CASE ref # "released"
    <3>1. Same /\ UNCHANGED ref
      BY <1>10, <2>2 DEF NotifyEnds, queues
    <3> QED
      BY <3>1, QueuesStay
  <2> QED
    BY <2>1, <2>2
<1>11. ASSUME NEW r \in Requests, Complete(r) PROVE Holding'
  BY <1>11, CompleteHolds
<1>12. ASSUME NEW e \in Events, Event(e) PROVE Holding'
  <2>1. Same /\ UNCHANGED ref
    BY <1>12 DEF Event, queues
  <2> QED
    BY <2>1, QueuesStay
<1>13. CASE UNCHANGED vars
  <2>1. Same /\ UNCHANGED ref
    BY <1>13 DEF vars, queues
  <2> QED
    BY <2>1, QueuesStay
<1> HIDE DEF Same
<1> QED
  BY <1>1, <1>2, <1>3, <1>4, <1>5, <1>6, <1>7, <1>8, <1>9, <1>10, <1>11, <1>12, <1>13
     DEF Next, User, Done

----------------------------------------------------------------------------

\* The inductive form of WriterAwake: also in the handlers that return without waking the
\* writer, which a completion, waking it when it is done, does not.
Awake == ref = "held" /\ at # "complete" /\ Sendable => writerActive \/ unwoken

\* After wakeup_writer the write handler is set if there is something to send.
LEMMA WokenUp ==
  ASSUME WakeupWriter
  PROVE  Sendable' => writerActive'
<1> SUFFICES ASSUME Sendable' PROVE writerActive'
  OBVIOUS
<1>1. pendingList' = <<>> \/ replyQueue' # <<>>
  BY DEF Sendable
<1>2. writerActive' = (writerActive \/ pendingList' = <<>> \/ replyQueue' # <<>>)
  BY DEF WakeupWriter
<1> QED
  BY <1>1, <1>2, Zenon

\* Every step keeps the writer awake.
LEMMA AwakeStep == TypeOK /\ Awake /\ [Next]_vars => Awake'
<1> SUFFICES ASSUME TypeOK, Awake, [Next]_vars, ref' = "held", at' # "complete", Sendable'
             PROVE  writerActive' \/ unwoken'
  BY DEF Awake
<1> USE DEF queues
<1>1. CASE WakeupWriter
  BY <1>1, WokenUp
<1>2. ASSUME UNCHANGED <<ref, writerActive, unwoken>>, Sendable, at # "complete"
      PROVE  writerActive' \/ unwoken'
  <2>1. writerActive \/ unwoken
    BY <1>2 DEF Awake
  <2> QED
    BY <1>2, <2>1
<1>3. ASSUME NEW r \in Requests,
             Send(r) \/ Reply(r) \/ SendNowait(r) \/ SendNowaitFails(r) \/ Cancel(r)
      PROVE  writerActive' \/ unwoken'
  <2>1. CASE Send(r) \/ Reply(r) \/ Cancel(r)
    BY <1>1, <2>1 DEF Send, Reply, Cancel
  <2>2. CASE SendNowait(r)
    <3>1. /\ pendingList' # <<>> /\ at' = at
          /\ UNCHANGED <<ref, writerActive, unwoken, requestQueue, replyQueue>>
      BY <2>2, AppendProperties DEF SendNowait, PushTail, TypeOK
    <3>2. Sendable
      BY <3>1 DEF Sendable
    <3> QED
      BY <1>2, <3>1, <3>2
  <2>3. CASE SendNowaitFails(r)
    BY <1>2, <2>3 DEF SendNowaitFails, Sendable
  <2> QED
    BY <1>3, <2>1, <2>2, <2>3
<1>4. CASE CancelAll \/ \E i \in Indices : CancelIndex(i)
  BY <1>4 DEF CancelAll, CancelIndex, CancelWhere
<1>5. ASSUME NEW n \in Notifies, Register(n) \/ Unregister(n)
      PROVE  writerActive' \/ unwoken'
  BY <1>2, <1>5 DEF Register, Unregister, Sendable
<1>6. CASE UnregisterAll \/ \E i \in {IndexOf[n] : n \in Notifies} \cup {IndexNone} : UnregisterIndex(i)
  BY <1>2, <1>6 DEF UnregisterAll, UnregisterIndex, UnregisterWhere, Sendable
<1>7. CASE Unref
  BY <1>7 DEF Unref, Freed
<1>8. CASE Write
  <2>1. CASE WriteReply
    <3>1. pendingList' # <<>>
      BY <2>1, AppendProperties, HeadTailProperties DEF WriteReply, PushTail, TypeOK
    <3>2. replyQueue' # <<>>
      BY <3>1 DEF Sendable
    <3>3. writerActive' = (replyQueue' # <<>>)
      BY <2>1 DEF WriteReply
    <3> QED
      BY <3>2, <3>3
  <2>2. CASE WriteRequest
    BY <2>2 DEF WriteRequest, Sendable
  <2>3. CASE WriterStops
    BY <2>3 DEF WriterStops, Sendable
  <2>4. CASE WriteFails
    BY <2>4 DEF WriteFails, Writing
  <2> QED
    BY <1>8, <2>1, <2>2, <2>3, <2>4 DEF Write
<1>9. CASE WriteFailed
  BY <1>2, <1>9 DEF WriteFailed, Sendable
<1>10. CASE Completed
  <2>1. CASE ref = "released"
    BY <1>10, <2>1 DEF Completed, Freed
  <2>2. CASE ref # "released"
    BY <1>1, <1>10, <2>2 DEF Completed
  <2> QED
    BY <2>1, <2>2
<1>11. CASE Notify \/ PassOver \/ Notified
  BY <1>2, <1>11 DEF Notify, PassOver, Notified, Sendable
<1>12. CASE NotifyEnds
  <2>1. CASE ref = "released"
    BY <1>12, <2>1 DEF NotifyEnds, Freed
  <2>2. CASE ref # "released"
    BY <1>2, <1>12, <2>2 DEF NotifyEnds, Sendable
  <2> QED
    BY <2>1, <2>2
<1>13. ASSUME NEW r \in Requests, Complete(r) PROVE writerActive' \/ unwoken'
  BY <1>1, <1>13 DEF Complete
<1>14. ASSUME NEW e \in Events, Event(e) PROVE writerActive' \/ unwoken'
  BY <1>2, <1>14 DEF Event, Sendable
<1>15. CASE UNCHANGED vars
  BY <1>2, <1>15 DEF vars, Sendable
<1> QED
  BY <1>3, <1>4, <1>5, <1>6, <1>7, <1>8, <1>9, <1>10, <1>11, <1>12, <1>13, <1>14, <1>15
     DEF Next, User, Done

----------------------------------------------------------------------------

\* The handlers that are listed are in the list, once.
Listed ==
  /\ IsInjective(notifyList)
  /\ \A n \in Notifies : notState[n] = "listed" <=> n \in ToSet(notifyList)

\* While an event is distributed, the handlers it must still reach are ahead in the list:
\* at the next entry of queue_foreach or after it.
Ahead ==
  /\ next # None => InNotify /\ next \in ToSet(notifyList)
  /\ removed # {} => InNotify
  /\ \A n \in due :
       /\ event \in Wanted[n] /\ n \notin removed
       /\ InOrder(notifyList, next, n)

\* The inductive invariant of the handlers.
Walking == Listed /\ Ahead

\* A step that leaves the handlers alone keeps the invariant.
LEMMA WalkStays ==
  ASSUME Walking, UNCHANGED <<notifyList, notState, removed, event, next, due>>,
         InNotify' = InNotify
  PROVE  Walking'
BY DEF Walking, Listed, Ahead

\* A walk that is at the end of the list has nothing left to do.
LEMMA DueInList ==
  ASSUME TypeOK, Walking
  PROVE  next = None => due = {}
<1> SUFFICES ASSUME next = None, NEW n \in due PROVE FALSE
  OBVIOUS
<1>1. PICK i \in 1..Len(notifyList) : notifyList[i] = next
  BY DEF Walking, Ahead, InOrder
<1>2. notifyList[i] \in Notifies
  BY DEF TypeOK
<1> QED
  BY <1>1, <1>2, MgmtAssumption

\* Outside process_notify no walk is under way.
LEMMA ListStart ==
  ASSUME TypeOK, Walking, ~InNotify
  PROVE  next = None /\ due = {} /\ removed = {}
BY DueInList DEF Walking, Ahead

\* The list may change when no walk is under way.
LEMMA ListChanged ==
  ASSUME TypeOK, Walking, ~InNotify \/ next = None, UNCHANGED <<next, due>>, removed' = {},
         Listed'
  PROVE  Walking'
<1>1. next' = None /\ due' = {}
  BY ListStart, DueInList
<1> QED
  BY <1>1 DEF Walking, Ahead

\* The walk starts with the first handler.
LEMMA NotifyHead ==
  ASSUME TypeOK, notifyList # <<>>
  PROVE  1 \in 1..Len(notifyList) /\ notifyList[1] = Head(notifyList)
         /\ Head(notifyList) \in ToSet(notifyList)
<1>1. notifyList \in Seq(Notifies)
  BY DEF TypeOK
<1>2. 1 \in 1..Len(notifyList) /\ notifyList[1] = Head(notifyList)
  BY <1>1
<1> QED
  BY <1>1, <1>2, ToSetIs

\* The walk goes from a position of the list to the next.
LEMMA AdvanceIs ==
  ASSUME TypeOK, Walking, next # None, Advance
  PROVE  \E i \in 1..Len(notifyList) :
           /\ notifyList[i] = next
           /\ next' = IF i < Len(notifyList) THEN notifyList[i + 1] ELSE None
<1>1. notifyList \in Seq(Notifies) /\ IsInjective(notifyList) /\ next \in ToSet(notifyList)
  BY DEF TypeOK, Walking, Listed, Ahead
<1>2. PICK i \in 1..Len(notifyList) : notifyList[i] = next
  BY <1>1, ToSetIs
<1> DEFINE after == FollowerIn(notifyList, next)
<1>3. after = IF i < Len(notifyList) THEN {notifyList[i + 1]} ELSE {}
  BY <1>1, <1>2, FollowerIs
<1>4. next' = IF after = {} THEN None ELSE CHOOSE n \in after : TRUE
  BY DEF Advance
<1>5. after # {} => (CHOOSE n \in after : TRUE) \in after
  OBVIOUS
<1> HIDE DEF after
<1>6. next' = IF i < Len(notifyList) THEN notifyList[i + 1] ELSE None
  BY <1>3, <1>4, <1>5
<1> QED
  BY <1>2, <1>6

\* Going on to the next handler passes over nobody the event must reach but the one just
\* left.
LEMMA AdvanceWalks ==
  ASSUME TypeOK, Walking, next # None, Advance, InNotify', due' \subseteq due \ {next},
         UNCHANGED <<notifyList, notState, removed, event>>
  PROVE  Walking'
<1>1. PICK i \in 1..Len(notifyList) :
           /\ notifyList[i] = next
           /\ next' = IF i < Len(notifyList) THEN notifyList[i + 1] ELSE None
  BY AdvanceIs
<1>2. notifyList \in Seq(Notifies) /\ IsInjective(notifyList) /\ Len(notifyList) \in Nat
  BY DEF TypeOK, Walking, Listed
<1>3. next' # None => next' \in ToSet(notifyList')
  <2>1. i < Len(notifyList) => i + 1 \in 1..Len(notifyList)
    BY <1>2
  <2> QED
    BY <1>1, <1>2, <2>1, ToSetIs
<1>4. ASSUME NEW n \in due'
      PROVE  /\ event' \in Wanted[n] /\ n \notin removed'
             /\ InOrder(notifyList', next', n)
  <2>1. n \in due /\ n # next
    BY <1>4
  <2>2. event \in Wanted[n] /\ n \notin removed
    BY <2>1 DEF Walking, Ahead
  <2>3. PICK a \in 1..Len(notifyList), b \in 1..Len(notifyList) :
             a <= b /\ notifyList[a] = next /\ notifyList[b] = n
    BY <2>1 DEF Walking, Ahead, InOrder
  <2>4. a = i
    BY <1>1, <1>2, <2>3, ToSetIs
  <2>5. i + 1 \in 1..Len(notifyList) /\ i + 1 <= b
    BY <1>1, <1>2, <2>1, <2>3, <2>4
  <2>6. notifyList[i + 1] = next'
    BY <1>1, <1>2, <2>5
  <2> QED
    BY <1>4, <2>2, <2>3, <2>5, <2>6 DEF InOrder
<1> QED
  BY <1>3, <1>4 DEF Walking, Listed, Ahead

\* mgmt_register appends a handler, which a walk under way need not reach.
LEMMA RegisterWalks ==
  ASSUME TypeOK, Walking, NEW n \in Notifies, Register(n)
  PROVE  Walking'
<1>1. notifyList \in Seq(Notifies) /\ IsInjective(notifyList) /\ n \notin ToSet(notifyList)
  BY DEF TypeOK, Walking, Listed, Register
<1>2. /\ notifyList' = Append(notifyList, n)
      /\ notState' = [m \in Notifies |-> IF m = n THEN "listed" ELSE notState[m]]
      /\ UNCHANGED <<removed, at, event, next, due>>
  BY DEF Register, PushTail, NotBecome, walk
<1>3. ToSet(notifyList') = ToSet(notifyList) \cup {n} /\ IsInjective(notifyList')
  BY <1>1, <1>2, AppendQueue
<1>4. /\ Len(notifyList) \in Nat /\ Len(notifyList') = Len(notifyList) + 1
      /\ \A i \in 1..Len(notifyList) : notifyList'[i] = notifyList[i]
  BY <1>1, <1>2, AppendProperties
<1>5. Listed'
  BY <1>2, <1>3 DEF Walking, Listed
<1>6. ASSUME NEW m \in due
      PROVE  InOrder(notifyList', next, m)
  <2>1. PICK i \in 1..Len(notifyList), j \in 1..Len(notifyList) :
             i <= j /\ notifyList[i] = next /\ notifyList[j] = m
    BY <1>6 DEF Walking, Ahead, InOrder
  <2>2. /\ i \in 1..Len(notifyList') /\ j \in 1..Len(notifyList')
        /\ notifyList'[i] = next /\ notifyList'[j] = m
    BY <1>4, <2>1
  <2> QED
    BY <2>1, <2>2 DEF InOrder
<1>7. Ahead'
  BY <1>2, <1>3, <1>6 DEF Walking, Ahead, InNotify
<1> QED
  BY <1>5, <1>7 DEF Walking

\* mgmt_unregister takes a handler out, or only marks it while a walk is under way.
LEMMA UnregisterWalks ==
  ASSUME TypeOK, Walking, NEW n \in Notifies, Unregister(n)
  PROVE  Walking'
<1>1. notifyList \in Seq(Notifies) /\ IsInjective(notifyList) /\ n \in ToSet(notifyList)
  BY DEF TypeOK, Walking, Listed, Unregister
<1>2. /\ notifyList' = RemoveIf(notifyList, {n}) /\ due' = due \ {n}
      /\ notState' = [m \in Notifies |->
                        IF m = n THEN IF InNotify THEN "unlinked" ELSE "freed" ELSE notState[m]]
      /\ removed' = IF InNotify THEN removed \cup {n} ELSE removed
      /\ UNCHANGED <<at, event, next>> /\ (InNotify => n # next)
  BY DEF Unregister, NotBecome
<1>3. ToSet(notifyList') = ToSet(notifyList) \ {n} /\ IsInjective(notifyList')
  BY <1>1, <1>2, RemoveOne
<1>4. Listed'
  BY <1>2, <1>3 DEF Walking, Listed
<1>5. CASE ~InNotify
  <2>1. next' = None /\ due' = {} /\ removed' = {}
    BY <1>2, <1>5, ListStart
  <2> QED
    BY <1>4, <2>1 DEF Walking, Ahead
<1>6. CASE InNotify
  <2>1. ASSUME NEW m \in due'
        PROVE  /\ event' \in Wanted[m] /\ m \notin removed'
               /\ InOrder(notifyList', next', m)
    <3>1. m \in due /\ m # n
      BY <1>2, <2>1
    <3>2. InOrder(notifyList, next, m) /\ next # n
      BY <1>2, <1>6, <3>1 DEF Walking, Ahead
    <3>3. InOrder(RemoveIf(notifyList, {n}), next, m)
      BY <1>1, <3>1, <3>2, RemoveIfOrder
    <3> QED
      BY <1>2, <1>6, <3>1, <3>3 DEF Walking, Ahead
  <2>2. next' # None => InNotify' /\ next' \in ToSet(notifyList')
    BY <1>2, <1>3, <1>6 DEF Walking, Ahead, InNotify
  <2>3. InNotify'
    BY <1>2, <1>6 DEF InNotify
  <2> QED
    BY <1>4, <2>1, <2>2, <2>3 DEF Walking, Ahead
<1> QED
  BY <1>5, <1>6

\* mgmt_unregister_index and mgmt_unregister_all do so with all that match.
LEMMA UnregisterWhereWalks ==
  ASSUME TypeOK, Walking, NEW matching, UnregisterWhere(matching)
  PROVE  Walking'
<1>1. notifyList \in Seq(Notifies) /\ IsInjective(notifyList)
  BY DEF TypeOK, Walking, Listed
<1> DEFINE gone == ToSet(notifyList) \cap matching
<1>2. CASE InNotify
  <2>1. /\ removed' = removed \cup gone /\ due' = due \ gone
        /\ UNCHANGED <<notifyList, notState, at, event, next>>
    BY <1>2 DEF UnregisterWhere
  <2> HIDE DEF gone
  <2>2. InNotify'
    BY <1>2, <2>1 DEF InNotify
  <2> QED
    BY <2>1, <2>2 DEF Walking, Listed, Ahead
<1>3. CASE ~InNotify
  <2>1. /\ notifyList' = RemoveAll(notifyList, matching) /\ due' = due \ gone
        /\ notState' = [m \in Notifies |-> IF m \in gone THEN "freed" ELSE notState[m]]
        /\ UNCHANGED <<removed, next>>
    BY <1>3 DEF UnregisterWhere, NotBecome
  <2>2. ToSet(notifyList') = ToSet(notifyList) \ matching /\ IsInjective(notifyList')
    BY <1>1, <2>1, RemoveAllQueue
  <2>3. Listed'
    BY <2>1, <2>2 DEF Walking, Listed
  <2>4. next' = None /\ due' = {} /\ removed' = {}
    BY <1>3, <2>1, ListStart
  <2> QED
    BY <2>3, <2>4 DEF Walking, Ahead
<1> QED
  BY <1>2, <1>3

\* The destruction of the struct mgmt empties the list.
LEMMA FreedWalks ==
  ASSUME TypeOK, Walking, NEW destroyed, Freed(destroyed), ~InNotify \/ next = None,
         UNCHANGED <<next, due>>
  PROVE  Walking'
<1>1. /\ notifyList' = <<>> /\ removed' = {}
      /\ notState' = [n \in Notifies |-> IF n \in ToSet(notifyList) THEN "freed" ELSE notState[n]]
  BY DEF Freed, NotBecome
<1>2. Listed'
  BY <1>1, EmptyQueue DEF Walking, Listed
<1> QED
  BY <1>1, <1>2, ListChanged

\* process_notify starts at the head of the list.
LEMMA EventWalks ==
  ASSUME TypeOK, Walking, NEW e \in Events, Event(e)
  PROVE  Walking'
<1>1. /\ at = "loop" /\ at' = "notify" /\ event' = e
      /\ next' = IF notifyList = <<>> THEN None ELSE Head(notifyList)
      /\ due' = {n \in ToSet(notifyList) : e \in Wanted[n]}
      /\ UNCHANGED <<notifyList, notState, removed>>
  BY DEF Event, notifies
<1>2. removed = {} /\ InNotify'
  BY <1>1, ListStart DEF InNotify
<1>3. notifyList \in Seq(Notifies) /\ Len(notifyList) \in Nat
  BY DEF TypeOK
<1>4. CASE notifyList = <<>>
  <2>1. due' = {} /\ next' = None
    BY <1>1, <1>4, EmptyQueue
  <2> QED
    BY <1>1, <1>2, <2>1 DEF Walking, Listed, Ahead
<1>5. CASE notifyList # <<>>
  <2>1. /\ 1 \in 1..Len(notifyList) /\ notifyList[1] = next' /\ next' \in ToSet(notifyList)
    BY <1>1, <1>5, NotifyHead
  <2>2. ASSUME NEW n \in due'
        PROVE  InOrder(notifyList, next', n)
    <3>1. n \in ToSet(notifyList)
      BY <1>1, <2>2
    <3>2. PICK j \in 1..Len(notifyList) : notifyList[j] = n
      BY <1>3, <3>1, ToSetIs
    <3>3. 1 <= j
      BY <1>3
    <3> QED
      BY <2>1, <3>2, <3>3 DEF InOrder
  <2> QED
    BY <1>1, <1>2, <2>1, <2>2 DEF Walking, Listed, Ahead
<1> QED
  BY <1>4, <1>5

\* Every step keeps the invariant of the handlers.
LEMMA WalkStep == TypeOK /\ Walking /\ [Next]_vars => Walking'
<1> SUFFICES ASSUME TypeOK, Walking, [Next]_vars PROVE Walking'
  OBVIOUS
<1> DEFINE Same == UNCHANGED <<notifyList, notState, removed, event, next, due>>
<1>1. ASSUME NEW r \in Requests,
             Send(r) \/ Reply(r) \/ SendNowait(r) \/ SendNowaitFails(r) \/ Cancel(r)
      PROVE  Walking'
  <2>1. Same /\ UNCHANGED at
    BY <1>1 DEF Send, Reply, SendNowait, SendNowaitFails, Cancel, notifies, walk
  <2> QED
    BY <2>1, WalkStays DEF InNotify
<1>2. CASE CancelAll \/ \E i \in Indices : CancelIndex(i)
  <2>1. Same /\ UNCHANGED at
    BY <1>2 DEF CancelAll, CancelIndex, CancelWhere, notifies, walk
  <2> QED
    BY <2>1, WalkStays DEF InNotify
<1>3. ASSUME NEW n \in Notifies, Register(n) \/ Unregister(n) PROVE Walking'
  BY <1>3, RegisterWalks, UnregisterWalks
<1>4. CASE UnregisterAll \/ \E i \in {IndexOf[n] : n \in Notifies} \cup {IndexNone} : UnregisterIndex(i)
  BY <1>4, UnregisterWhereWalks DEF UnregisterAll, UnregisterIndex
<1>5. CASE Unref
  <2>1. CASE at \in {"loop", "failed"}
    BY <1>5, <2>1, FreedWalks DEF Unref, walk, InNotify
  <2>2. CASE at \notin {"loop", "failed"}
    <3>1. Same /\ UNCHANGED at
      BY <1>5, <2>2 DEF Unref, notifies, walk
    <3> QED
      BY <3>1, WalkStays DEF InNotify
  <2> QED
    BY <2>1, <2>2
<1>6. CASE Write
  <2>1. /\ Same
        /\ \/ UNCHANGED at
           \/ at = "loop" /\ at' = "failed"
    BY <1>6 DEF Write, WriteReply, WriteRequest, WriterStops, WriteFails, Writing,
       notifies, walk
  <2> QED
    BY <2>1, WalkStays DEF InNotify
<1>7. CASE WriteFailed
  <2>1. Same /\ at = "failed" /\ at' = "loop"
    BY <1>7 DEF WriteFailed, notifies, walk
  <2> QED
    BY <2>1, WalkStays DEF InNotify
<1>8. CASE Completed
  <2>1. CASE ref = "released"
    <3>1. Freed({cur}) /\ ~InNotify /\ UNCHANGED <<next, due>>
      BY <1>8, <2>1 DEF Completed, InNotify, walk
    <3> QED
      BY <3>1, FreedWalks
  <2>2. CASE ref # "released"
    <3>1. Same /\ at = "complete" /\ at' = "loop"
      BY <1>8, <2>2 DEF Completed, notifies, walk
    <3> QED
      BY <3>1, WalkStays DEF InNotify
  <2> QED
    BY <2>1, <2>2
<1>9. CASE Notify
  BY <1>9, AdvanceWalks DEF Notify, notifies, InNotify
<1>10. CASE PassOver
  <2>1. next \notin due
    BY <1>10 DEF PassOver, Walking, Ahead
  <2> QED
    BY <1>10, <2>1, AdvanceWalks DEF PassOver, notifies, InNotify
<1>11. CASE Notified
  <2>1. Same /\ at = "notified" /\ at' = "notify"
    BY <1>11 DEF Notified, notifies, walk
  <2> QED
    BY <2>1, WalkStays DEF InNotify
<1>12. CASE NotifyEnds
  <2>1. CASE ref = "released"
    <3>1. Freed({}) /\ next = None /\ UNCHANGED <<next, due>>
      BY <1>12, <2>1 DEF NotifyEnds
    <3> QED
      BY <3>1, FreedWalks
  <2>2. CASE ref # "released"
    <3>1. /\ notifyList' = RemoveAll(notifyList, removed) /\ removed' = {}
          /\ notState' = [n \in Notifies |->
                            IF n \in ToSet(notifyList) \cap removed THEN "freed" ELSE notState[n]]
          /\ next = None /\ UNCHANGED <<next, due>>
      BY <1>12, <2>2 DEF NotifyEnds, NotBecome
    <3>2. notifyList \in Seq(Notifies) /\ IsInjective(notifyList)
      BY DEF TypeOK, Walking, Listed
    <3>3. ToSet(notifyList') = ToSet(notifyList) \ removed /\ IsInjective(notifyList')
      BY <3>1, <3>2, RemoveAllQueue
    <3>4. Listed'
      BY <3>1, <3>3 DEF Walking, Listed
    <3> QED
      BY <3>1, <3>4, ListChanged
  <2> QED
    BY <2>1, <2>2
<1>13. ASSUME NEW r \in Requests, Complete(r) PROVE Walking'
  <2>1. Same /\ at = "loop" /\ at' \in {"loop", "complete"}
    BY <1>13 DEF Complete, notifies, walk
  <2> QED
    BY <2>1, WalkStays DEF InNotify
<1>14. ASSUME NEW e \in Events, Event(e) PROVE Walking'
  BY <1>14, EventWalks
<1>15. CASE UNCHANGED vars
  <2>1. Same /\ UNCHANGED at
    BY <1>15 DEF vars, notifies, walk
  <2> QED
    BY <2>1, WalkStays DEF InNotify
<1> HIDE DEF Same
<1> QED
  BY <1>1, <1>2, <1>3, <1>4, <1>5, <1>6, <1>7, <1>8, <1>9, <1>10, <1>11, <1>12, <1>13,
     <1>14,
     <1>15
     DEF Next, User, Done

----------------------------------------------------------------------------

\* A struct mgmt that mgmt_new has just made satisfies the invariants.
LEMMA InitHolds == Init => TypeOK /\ Holding /\ Awake /\ Walking
<1> SUFFICES ASSUME Init PROVE TypeOK /\ Holding /\ Awake /\ Walking
  OBVIOUS
<1>1. /\ <<>> \in Seq(Requests) /\ <<>> \in Seq(Notifies)
      /\ ToSet(<<>>) = {} /\ IsInjective(<<>>)
  BY EmptySeq, EmptyQueue
<1>2. TypeOK
  <2>1. /\ reqState \in [Requests -> {"new", "live", "freed"}]
        /\ notState \in [Notifies -> {"new", "listed", "unlinked", "freed"}]
    BY DEF Init
  <2>2. /\ writerActive \in BOOLEAN /\ needCleanup \in BOOLEAN /\ unwoken \in BOOLEAN
        /\ (removed # {} => needCleanup)
    BY DEF Init
  <2>3. /\ (cur # None) = (at \in {"failed", "complete"}) /\ (event # None) = InNotify
    BY DEF Init, InNotify
  <2> QED
    BY <1>1, <2>1, <2>2, <2>3 DEF Init, TypeOK
<1>3. Queued = {}
  BY <1>1 DEF Init, Queued
<1>4. Holding
  BY <1>1, <1>3, MgmtAssumption DEF Init, Holding, Apart, AllHeld, AtKernel
<1>5. Awake
  BY DEF Init, Awake, Sendable
<1>6. Walking
  BY <1>1 DEF Init, Walking, Listed, Ahead
<1> QED
  BY <1>2, <1>4, <1>5, <1>6

\* The inductive invariants hold.
LEMMA MgmtInvariant == Spec => [](TypeOK /\ Holding /\ Awake /\ Walking)
<1>1. TypeOK /\ Holding /\ Awake /\ Walking /\ [Next]_vars
        => (TypeOK /\ Holding /\ Awake /\ Walking)'
  BY TypeStep, HoldingStep, AwakeStep, WalkStep
<1> QED
  BY <1>1, InitHolds, PTL DEF Spec

\* The fields of struct mgmt always have their types.
THEOREM MgmtTyping == Spec => []TypeOK
  BY MgmtInvariant, PTL

\* Requests in one place each are in the sequence of all places once.
LEMMA HoldingHeldOnce == TypeOK /\ Holding => HeldOnce
<1> SUFFICES ASSUME TypeOK, Holding PROVE HeldOnce
  OBVIOUS
<1>0. Apart /\ AllHeld
  BY DEF Holding
<1> DEFINE q == requestQueue \o replyQueue
           h == q \o pendingList
           c == IF cur = None THEN <<>> ELSE <<cur>>
<1>1. /\ requestQueue \in Seq(Requests) /\ replyQueue \in Seq(Requests)
      /\ pendingList \in Seq(Requests)
  BY DEF TypeOK
<1>2. /\ q \in Seq(Requests) /\ ToSet(q) = ToSet(requestQueue) \cup ToSet(replyQueue)
      /\ IsInjective(q)
  BY <1>0, <1>1, ConcatQueue, ZenonT(40) DEF Apart
<1>3. ToSet(q) \cap ToSet(pendingList) = {}
  BY <1>0, <1>2 DEF Apart
<1> HIDE DEF q
<1>4. /\ h \in Seq(Requests) /\ ToSet(h) = ToSet(q) \cup ToSet(pendingList) /\ IsInjective(h)
  BY <1>0, <1>1, <1>2, <1>3, ConcatQueue, ZenonT(40) DEF Apart
<1>5. ToSet(h) = Queued
  BY <1>2, <1>4 DEF Queued
<1> HIDE DEF h
<1>6. c \in Seq(Requests) /\ ToSet(c) = {cur} \ {None} /\ IsInjective(c)
  <2>1. CASE cur = None
    BY <2>1, EmptySeq, EmptyQueue
  <2>2. CASE cur # None
    <3>1. cur \in Requests /\ c = <<cur>>
      BY <2>2 DEF TypeOK
    <3> QED
      BY <2>2, <3>1, SingleQueue
  <2> QED
    BY <2>1, <2>2
<1>7. ToSet(h) \cap ToSet(c) = {}
  BY <1>0, <1>5, <1>6 DEF Apart
<1> HIDE DEF c
<1>8. IsInjective(h \o c) /\ ToSet(h \o c) = ToSet(h) \cup ToSet(c)
  BY <1>4, <1>6, <1>7, ConcatQueue, Zenon
<1>9. Held = h \o c
  BY DEF Held, h, q, c
<1>10. ToSet(Held) = {r \in Requests : reqState[r] = "live"}
  <2>1. ToSet(Held) = Queued \cup ({cur} \ {None})
    BY <1>5, <1>6, <1>8, <1>9
  <2> QED
    BY <1>0, <2>1, QueueSets DEF AllHeld, TypeOK
<1> QED
  BY <1>8, <1>9, <1>10 DEF HeldOnce

\* Every request that was sent and is not destroyed is held in one place, once, whatever
\* user code sends and cancels in the callbacks.
THEOREM MgmtHeldOnce == Spec => []HeldOnce
  BY MgmtInvariant, HoldingHeldOnce, PTL

\* A request that can be sent does not wait for a write handler that is not set, but
\* after mgmt_cancel_index and mgmt_cancel_all, which do not wake the writer.
THEOREM MgmtWriterAwake == Spec => []WriterAwake
<1>1. Awake => WriterAwake
  BY DEF Awake, WriterAwake
<1> QED
  BY <1>1, MgmtInvariant, PTL

\* An event is not over before it has reached every handler that was registered for it
\* when it came and stayed so, whatever the handlers register and unregister.
THEOREM EventsReachEveryone == Spec => []EveryoneHears
<1>1. TypeOK /\ Walking => EveryoneHears
  BY ListStart DEF EveryoneHears, InNotify
<1> QED
  BY <1>1, MgmtInvariant, PTL

\* A completion is given to the request the kernel completed, unless one for the same
\* opcode and index was cancelled while the kernel had it, or two were there at once.
THEOREM CompletionsAreOwn == Spec => OwnCompletion
<1>1. TypeOK /\ Holding =>
        \A r \in Requests : Complete(r) => cur' \in {r, None} \/ Key[r] \in mixed
  BY CompleteHolds
<1> QED
  BY <1>1, MgmtInvariant, PTL DEF OwnCompletion
=============================================================================
