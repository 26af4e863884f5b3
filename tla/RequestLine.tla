---------------------------- MODULE RequestLine ----------------------------
(***************************************************************************)
(* What the ATT transport promises about requests: they wait in the order  *)
(* they were sent in, and one at a time flies to the other side until it   *)
(* is answered, refused (it flies again before the others), timed out or   *)
(* dropped.  Waiting requests may leave the line at any time.              *)
(***************************************************************************)
EXTENDS Queue

CONSTANTS Reqs, None

VARIABLES
  waiting,   \* requests not sent to the other side, in order
  flying,    \* the request that waits for its answer
  finished   \* those that are over

Init == waiting = <<>> /\ flying = None /\ finished = {}

Ask(r) ==
  /\ r \notin finished \cup ToSet(waiting) \cup {flying}
  /\ waiting' = Append(waiting, r)
  /\ UNCHANGED <<flying, finished>>

Fly ==
  /\ flying = None /\ waiting # <<>>
  /\ flying' = Head(waiting) /\ waiting' = Tail(waiting)
  /\ UNCHANGED finished

Refused ==
  /\ flying # None
  /\ flying' = None /\ waiting' = <<flying>> \o waiting
  /\ UNCHANGED finished

Land ==
  /\ flying # None
  /\ flying' = None /\ finished' = finished \cup {flying}
  /\ UNCHANGED waiting

Leave(gone) ==
  /\ gone \subseteq ToSet(waiting)
  /\ waiting' = RemoveAll(waiting, gone) /\ finished' = finished \cup gone
  /\ UNCHANGED flying

Close ==
  /\ waiting' = <<>> /\ flying' = None
  /\ finished' = finished \cup ToSet(waiting) \cup ({flying} \ {None})

Next ==
  \/ Fly \/ Refused \/ Land \/ Close
  \/ \E r \in Reqs : Ask(r)
  \/ \E gone \in SUBSET Reqs : Leave(gone)

Spec == Init /\ [][Next]_<<waiting, flying, finished>>
=============================================================================
