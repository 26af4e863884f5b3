------------------------------- MODULE MCMgmt -------------------------------
(* Instances of Mgmt for TLC. *)
EXTENDS Mgmt, TLC

CONSTANTS r1, r2, r3, n1, n2

\* Two requests with one opcode, a third with another, on two controllers.
MCKey == (r1 :> "scan") @@ (r2 :> "scan") @@ (r3 :> "pair")
MCIndex == ("scan" :> 0) @@ ("pair" :> 1)

\* n1 and n2 want the same event, n2 another one too.
MCWanted == (n1 :> {"found"}) @@ (n2 :> {"found", "discovering"})
MCIndexOf == (n1 :> 0) @@ (n2 :> 1)
=============================================================================
