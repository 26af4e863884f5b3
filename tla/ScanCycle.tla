----------------------------- MODULE ScanCycle -----------------------------
(***************************************************************************)
(* What BLE_Service promises about its scans: they follow one another, each *)
(* owned by one thread at a time, and each goes once through the cycle      *)
(*                                                                         *)
(*   free --Acquire--> taken --Begin--> on --End--> over --Release--> free *)
(*                                                                         *)
(* scanOn() is true in phase "on", where the scan may change hands.  A      *)
(* thread that fails in that phase abandons its scan: it stays on for ever. *)
(***************************************************************************)
CONSTANTS Threads, None

VARIABLES
  phase,   \* where the current scan is in its cycle
  owner    \* the thread that answers for it

Init == phase = "free" /\ owner = None

Move(from, to) == phase = from /\ phase' = to

Acquire(t) == Move("free", "taken") /\ owner' = t
Begin == Move("taken", "on") /\ UNCHANGED owner
HandOver(t) == Move("on", "on") /\ owner # None /\ owner' = t
End == Move("on", "over") /\ owner # None /\ UNCHANGED owner
Release == Move("over", "free") /\ owner' = None
Abandon == Move("on", "on") /\ owner # None /\ owner' = None

Next ==
  \/ Begin \/ End \/ Release \/ Abandon
  \/ \E t \in Threads : Acquire(t) \/ HandOver(t)

Spec == Init /\ [][Next]_<<phase, owner>>
=============================================================================
