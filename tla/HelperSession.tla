---------------------------- MODULE HelperSession ----------------------------
(***************************************************************************)
(* A BluepyHelper object (src/bluepy/btle.py) and its helper process: a    *)
(* Peripheral or a Scanner starts the process, writes command lines, reads *)
(* lines until one is of the type it wants, and stops the process.         *)
(*                                                                         *)
(* A public call is a script, the sequence of its steps that are left: a   *)
(* line to write, an answer to wait for, the stop of the helper in its two *)
(* steps.  A call that raises ends; a Peripheral whose constructor raises  *)
(* is disconnected (__del__).  One thread calls; the pipe of answers has a *)
(* buffer on this side (TextIOWrapper).                                    *)
(***************************************************************************)
EXTENDS HelperProcess

CONSTANTS
  Uses,     \* what objects are used for: sets of calls, with "passive" for
            \* passive scans and "foreign" if other processes scan too
  MaxSent   \* bound: command lines written

\* A Peripheral and a Scanner have no call in common but status().
ASSUME UsesAssumption ==
  \A u \in Uses :
    \/ u \subseteq {"connect", "disconnect", "status", "waitForNotifications", "svcs", "incl",
                     "char", "desc", "rd", "rdu", "wr", "wrr", "mtu", "secu", "pair", "unpair",
                     "local_oob", "foreign"}
    \/ u \subseteq {"scan", "passive", "status", "foreign"}

VARIABLES
  obj,       \* _helper is not None
  stopFlag,  \* _stopFlag
  buf,       \* lines read from the pipe and not yet returned
  use,       \* the calls the object is used for
  script,    \* the steps left of the call
  phase,     \* where _waitResp is: "test", "poll" or "read"
  sent,      \* command lines written so far, the number of the last one
  given      \* the last answer handed to a call, and the command it was for

client == <<obj, stopFlag, buf, use, script, phase, sent, given>>
vars == <<helper, client>>

----------------------------------------------------------------------------
(* Scripts *)

Write(verb) == [do |-> "write", verb |-> verb]
Wait(want, timed, then) == [do |-> "wait", want |-> want, timed |-> timed, then |-> then]
Start == [do |-> "start"]
StopHelper == <<[do |-> "quit"], [do |-> "reap"]>>
Made == [do |-> "made"]   \* the constructor returns

\* Peripheral's commands, and the type of line each waits for (_getResp
\* accepts notifications besides).
Notified == {"ntfy"}
Wants(verb) ==
  CASE verb \in {"svcs", "incl", "char"} -> {"find"}
    [] verb = "desc" -> {"desc"}
    [] verb \in {"rd", "rdu"} -> {"rd"}
    [] verb \in {"wr", "wrr"} -> {"wr"}
    [] verb \in {"mtu", "secu", "disc", "conn"} -> {"stat"}
    [] verb = "local_oob" -> {"oob"}

Request(verb) == <<Write(verb), Wait(Wants(verb) \cup Notified, FALSE, "value")>>

MgmtCmd2(verb) == <<Write(verb), Wait({"mgmt"}, FALSE, "success")>>

Connecting == Wait({"stat"} \cup Notified, FALSE, "connecting")
ScanVerb(passive) == IF passive THEN "pasv" ELSE "scan"
EndVerb(passive) == IF passive THEN "pasvend" ELSE "scanend"

Passive == "passive" \in use
MtuWanted == "mtu" \in use

Processing == Wait({"scan", "stat"}, TRUE, "process")

\* The script of a public call.
Script(call) ==
  CASE call = "connect" -> <<Start, Write("conn"), Connecting, Made>>
    [] call = "disconnect" -> Request("disc") \o StopHelper
    [] call = "status" -> <<Write("stat"), Wait({"stat"}, FALSE, "value")>>
    [] call = "waitForNotifications" -> <<Wait(Notified, TRUE, "value")>>
    [] call \in {"pair", "unpair"} -> MgmtCmd2(call)
    [] call = "scan" ->
         <<Start>> \o MgmtCmd2("le")
           \o <<Write(ScanVerb(Passive)), Wait({"mgmt"}, FALSE, "scanning"), Processing>>
           \o MgmtCmd2(EndVerb(Passive)) \o StopHelper
    [] call = "local_oob" -> <<Start>> \o Request(call)
    [] OTHER -> Request(call)

\* What is left when the call raises.
Raised == IF script[Len(script)] = Made THEN Script("disconnect") ELSE <<>>

\* What is left after a line that was wanted.
After(wait, line, rest) ==
  LET again == <<wait>> \o rest
  IN CASE wait.then = "connecting" ->
            IF line.rsp = "ntfy" \/ line.code = "tryconn" THEN again
            ELSE IF line.code = "conn" THEN (IF MtuWanted THEN Request("mtu") ELSE <<>>) \o rest
            ELSE <<Wait({"err"} \cup Notified, TRUE, "value")>> \o StopHelper
       [] wait.then = "value" -> IF line.rsp = "ntfy" /\ wait.want # Notified THEN again ELSE rest
       [] wait.then = "success" -> IF line.code = "success" THEN rest ELSE StopHelper
       [] wait.then = "scanning" ->
            IF line.code = "busy"
            THEN MgmtCmd2(EndVerb(Passive)) \o <<Wait({"stat"}, FALSE, "ended")>>
                   \o MgmtCmd2(ScanVerb(Passive)) \o rest
            ELSE rest
       [] wait.then = "ended" -> IF line.code = "disc" THEN rest ELSE <<>>
       [] wait.then = "process" ->
            IF line.rsp = "stat" /\ line.code = "disc" THEN MgmtCmd2(ScanVerb(Passive)) \o again
            ELSE again

\* What is left when _waitResp returns None: process asks for the status, as
\* its time ends; the
\* other callers but disconnect and waitForNotifications use the answer, which
\* raises.
AfterNone(wait, rest) ==
  CASE wait.then = "process" -> <<Write("stat")>> \o rest
    [] wait.then = "value" /\ (wait.want = Notified \/ "err" \in wait.want \/ rest # <<>>) -> rest
    [] OTHER -> Raised

----------------------------------------------------------------------------
Init ==
  /\ NotStarted
  /\ obj = FALSE /\ stopFlag = FALSE /\ buf = <<>>
  /\ use \in Uses /\ foreign = ("foreign" \in use)
  /\ script = <<>> /\ phase = "test"
  /\ sent = 0
  /\ given = [to |-> 0, n |-> 0]

Goes(rest) == script' = rest /\ phase' = "test"

\* The calls that start the helper.
Opening == {"connect", "scan"}

\* A call of user code: an object is opened, used and closed.
Call(call) ==
  /\ script = <<>> /\ call \in use
  /\ sent < MaxSent
  /\ call = "local_oob" \/ (call \in Opening <=> ~obj \/ stopFlag)
  /\ Goes(Script(call))
  /\ UNCHANGED <<helper, obj, stopFlag, buf, use, sent, given>>

Rest == Tail(script)
Doing(step) == script # <<>> /\ Head(script).do = step

ConstructorReturns ==
  /\ Doing("made")
  /\ Goes(Rest)
  /\ UNCHANGED <<helper, obj, stopFlag, buf, use, sent, given>>

\* _startHelper; the helper of an object that was not stopped is kept.
StartHelper ==
  /\ Doing("start")
  /\ Goes(Rest)
  /\ UNCHANGED <<use, sent, given>>
  /\ IF obj
     THEN UNCHANGED <<helper, obj, stopFlag, buf>>
     ELSE /\ obj' = TRUE /\ stopFlag' = FALSE /\ buf' = <<>>
          /\ Launch

\* Commands whose arguments come from user code.
Argued == {"incl", "char", "desc", "rd", "rdu", "wr", "wrr", "mtu", "secu", "pairable", "remote_oob"}

\* _writeCmd raises when the process is gone.
WriteCmd ==
  /\ Doing("write")
  /\ UNCHANGED <<conn, mgmt, output, alive, obj, stopFlag, buf, use, given>>
  /\ IF obj /\ alive
     THEN /\ sent' = sent + 1
          /\ LET verb == Head(script).verb
             IN \E ok \in {TRUE, verb \notin Argued} :
                  input' = Append(input, [verb |-> verb, n |-> sent', ok |-> ok])
          /\ Goes(Rest)
     ELSE UNCHANGED <<input, sent>> /\ Goes(<<>>)

----------------------------------------------------------------------------
(* _waitResp *)

wait == Head(script)

WaitTest ==
  /\ Doing("wait") /\ phase = "test"
  /\ UNCHANGED <<helper, obj, stopFlag, buf, use, sent, given>>
  /\ IF ~obj \/ stopFlag
     THEN Goes(AfterNone(wait, Rest))
     ELSE phase' = (IF wait.timed THEN "poll" ELSE "read") /\ UNCHANGED script

\* poll sees the pipe, not the buffer.
Pollable == output # <<>> \/ ~alive

WaitPoll ==
  /\ Doing("wait") /\ phase = "poll"
  /\ UNCHANGED <<helper, obj, stopFlag, buf, use, sent, given>>
  /\ IF Pollable THEN phase' = "read" /\ UNCHANGED script ELSE Goes(AfterNone(wait, Rest))

\* (A mutant: the end of the connection is passed over.)
UnwantedDisc(line) == IF line.rsp \in {"stat", "scan"} THEN script ELSE Raised

\* A line that is not wanted.
Unwanted(line) ==
  CASE line.rsp = "stat" /\ line.code = "disc" -> StopHelper
    [] line.rsp = "stat" /\ line.code # "disc" -> script
    [] line.rsp = "scan" -> script
    [] OTHER -> Raised

Deliver(line) ==
  /\ Goes(IF line.rsp \in wait.want THEN After(wait, line, Rest) ELSE Unwanted(line))
  /\ given' = IF line.rsp \in wait.want /\ wait.then \in {"value", "success"}
              THEN [to |-> sent, n |-> line.n] ELSE given

\* readline takes all there is into the buffer.  At the end of the pipe it
\* returns nothing, which is tried 20 times.
WaitRead ==
  /\ Doing("wait") /\ phase = "read"
  /\ UNCHANGED <<alive, conn, mgmt, input, obj, stopFlag, use, sent>>
  /\ \/ buf # <<>> /\ Deliver(Head(buf)) /\ buf' = Tail(buf) /\ UNCHANGED output
     \/ /\ buf = <<>> /\ output # <<>>
        /\ Deliver(Head(output)) /\ buf' = Tail(output) /\ output' = <<>>
     \/ /\ buf = <<>> /\ output = <<>> /\ ~alive
        /\ Goes(StopHelper)
        /\ UNCHANGED <<buf, output, given>>

\* The time of Scanner.process is over.
ProcessEnds ==
  /\ Doing("wait") /\ wait.then = "process" /\ phase = "test"
  /\ Goes(Rest)
  /\ UNCHANGED <<helper, obj, stopFlag, buf, use, sent, given>>

----------------------------------------------------------------------------
(* _stopHelper *)

StopQuit ==
  /\ Doing("quit")
  /\ UNCHANGED <<conn, mgmt, output, alive, obj, buf, use, sent, given>>
  /\ IF ~obj \/ stopFlag
     THEN Goes(Tail(Rest)) /\ UNCHANGED <<stopFlag, input>>
     ELSE /\ stopFlag' = TRUE
          /\ IF alive
             THEN Goes(Rest) /\ input' = Append(input, [verb |-> "quit", n |-> sent, ok |-> TRUE])
             ELSE Goes(<<>>) /\ UNCHANGED input

\* Waiting for the process, and forgetting it.
StopReap ==
  /\ Doing("reap")
  /\ ~alive
  /\ obj' = FALSE
  /\ Goes(Rest)
  /\ UNCHANGED <<helper, stopFlag, buf, use, sent, given>>

----------------------------------------------------------------------------
Client ==
  \/ ConstructorReturns \/ StartHelper \/ WriteCmd \/ WaitTest \/ WaitPoll \/ WaitRead \/ ProcessEnds
  \/ StopQuit \/ StopReap

Next ==
  \/ \E call \in use \ {"passive", "foreign"} : Call(call)
  \/ Client /\ UNCHANGED foreign
  \/ (Work \/ Environment) /\ UNCHANGED <<foreign, client>>
  \/ sent < MaxSent /\ ScanEvents /\ UNCHANGED <<foreign, client>>

Spec == Init /\ [][Next]_vars

\* The thread runs and time passes; the main loop serves each of its sources;
\* the kernel answers, connections are made or fail, a device answers or is lost.
FairSpec ==
  /\ Spec
  /\ WF_vars(Client /\ UNCHANGED foreign) /\ SF_vars(ProcessEnds /\ UNCHANGED foreign)
  /\ WF_vars(CommandLine /\ UNCHANGED <<foreign, client>>)
  /\ WF_vars((MgmtReply \/ MgmtScanning \/ MgmtDeviceFound) /\ UNCHANGED <<foreign, client>>)
  /\ WF_vars((Connected \/ ConnectFailed) /\ UNCHANGED <<foreign, client>>)
  /\ WF_vars((GattDone \/ LinkLost) /\ UNCHANGED <<foreign, client>>)
  /\ WF_vars(ChannelWatcher /\ UNCHANGED <<foreign, client>>)
  /\ WF_vars(KernelReplies /\ UNCHANGED <<foreign, client>>)

----------------------------------------------------------------------------
(* Properties *)

\* Types of the helper's and of the object's state.
TypeOK ==
  /\ alive \in BOOLEAN /\ connState \in {"disc", "tryconn", "conn", "scan"}
  /\ attrib \in BOOLEAN /\ link \in {"none", "connecting", "up", "lost"} /\ mtuSet \in BOOLEAN
  /\ master \in BOOLEAN /\ kernelScan \in BOOLEAN /\ hciScan \in BOOLEAN
  /\ obj \in BOOLEAN /\ stopFlag \in BOOLEAN
  /\ use \in Uses /\ phase \in {"test", "poll", "read"}
  /\ sent \in Nat

\* The types of line that answer this object's calls are not those of events,
\* and no call raises on an event.
Unambiguous == use \cap {"mtu", "secu", "status", "pair", "unpair"} = {}

\* The helper answers what this object asks for, and no other process makes it
\* change its state.
Answering == ~foreign /\ "secu" \notin use /\ ~({"mtu", "disconnect"} \subseteq use)

\* An answer handed to a call (l.448) is the answer to the call's own command or
\* an event, never that of an earlier command that is still in the pipe.
OwnAnswer == Unambiguous => given.n \in {0, given.to}

\* An object that is not used learns that its connection has ended (l.445): as
\* long as its helper runs disconnected, a line that says so is on its way.  (The
\* helper of an object that only asked for OOB data was never connected.)
Ended == Stat("disc", 0)
ToldOfTheEnd ==
  obj /\ alive /\ script = <<>> /\ connState = "disc"
    /\ Unambiguous /\ "connect" \in use /\ "local_oob" \notin use
    => Contains(buf \o output, Ended)

\* Every call of user code returns, with a value or an exception, if the helper
\* answers: no wait of _waitResp (l.421) without a line that ends it.
CallsReturn == script # <<>> /\ Answering ~> script = <<>>

\* "return True if the device needs to be disconnected due to failures"
\* (BLE_Client.py:288): the call that disconnects it returns, as the others do.
EveryCallReturns == script # <<>> ~> script = <<>>
=============================================================================
