---------------------------- MODULE HelperProcess ----------------------------
(***************************************************************************)
(* The helper process (bluepy-helper.c): one GLib main loop that reads     *)
(* command lines from a pipe, runs them on one connection to a device and  *)
(* on the management socket of the kernel, and prints answer lines and     *)
(* events on another pipe.  conn_state is one variable for the connection  *)
(* and for the scan.                                                       *)
(*                                                                         *)
(* A command is [verb, n, ok]: ok if its arguments are well formed, n its  *)
(* number.  A line is [rsp, code, n]: n the command it answers, 0 if it is *)
(* an event.  The module says what the process does; HelperSession closes  *)
(* it with the process at the other end of the pipes.                      *)
(***************************************************************************)
EXTENDS Naturals, Queue

CONSTANTS
  Masters,    \* whether the management socket can be opened
  Aborts,     \* an assertion of the helper may fail
  MaxEvents   \* bound: lines nobody asked for in the pipe

ASSUME MastersAssumption == Masters \subseteq BOOLEAN

VARIABLES
  foreign,     \* other processes scan, throughout
  alive,       \* the process runs
  connState,   \* conn_state: "disc", "tryconn", "conn" or "scan"
  attrib,      \* attrib is not NULL
  link,        \* the socket of iochannel: "none", "connecting", "up" or "lost"
  mtuSet,      \* opt_mtu is not 0
  inFlight,    \* commands that wait for the device, in order
  late,        \* those of an attrib that was given up and is still referenced
  master,      \* mgmt_master is not NULL
  mgmtOut,     \* commands the kernel has not answered
  mgmtIn,      \* what the kernel has sent on the management socket
  kernelScan,  \* the kernel scans for this process
  hciScan,     \* a socket of the HCI layer is watched
  input,       \* the pipe of command lines
  output       \* the pipe of answer lines

conn == <<connState, attrib, link, mtuSet, inFlight, late>>
mgmt == <<master, mgmtOut, mgmtIn, kernelScan, hciScan>>
helper == <<foreign, alive, conn, mgmt, input, output>>

\* No process has been started.
NotStarted ==
  /\ alive = FALSE
  /\ connState = "disc" /\ attrib = FALSE /\ link = "none" /\ mtuSet = FALSE
  /\ inFlight = <<>> /\ late = <<>>
  /\ master \in Masters
  /\ mgmtOut = <<>> /\ mgmtIn = <<>> /\ kernelScan = FALSE /\ hciScan = FALSE
  /\ input = <<>> /\ output = <<>>

\* main: a process starts, on pipes of its own.
Launch ==
  /\ alive' = TRUE
  /\ connState' = "disc" /\ attrib' = FALSE /\ link' = "none" /\ mtuSet' = FALSE
  /\ inFlight' = <<>> /\ late' = <<>>
  /\ master' \in Masters
  /\ mgmtOut' = <<>> /\ mgmtIn' = <<>> /\ kernelScan' = FALSE /\ hciScan' = FALSE
  /\ input' = <<>> /\ output' = <<>>

----------------------------------------------------------------------------
(* Lines *)

Line(rsp, code, n) == [rsp |-> rsp, code |-> code, n |-> n]
Stat(state, n) == Line("stat", state, n)
Err(code, n) == Line("err", code, n)
Mgmt(code, n) == Line("mgmt", code, n)

Say(lines) == output' = output \o lines

Silent == UNCHANGED output

\* Bound: the pipe holds a thousand lines, and is not filled here: events
\* nobody asked for happen while it is short.
Room == Len(output) + Len(mgmtIn) < MaxEvents

\* set_state, with the line it prints.
SetState(state, more) ==
  /\ connState' = state
  /\ Say(<<Stat(state, 0)>> \o more)

\* parse_line: the next command line, for the handler of its verb.
Take(verbs) ==
  /\ alive
  /\ input # <<>>
  /\ Head(input).verb \in verbs
  /\ input' = Tail(input)

cmd == Head(input)

\* An answer that changes nothing else.
Answer(line) == Say(<<line>>) /\ UNCHANGED <<alive, conn, mgmt>>
Ignore == Silent /\ UNCHANGED <<alive, conn, mgmt>>

CmdStatus == Take({"stat"}) /\ Answer(Stat(connState, cmd.n))

----------------------------------------------------------------------------
(* Connection *)

IsDiscovery(c) == c.verb \in {"svcs", "incl", "char", "desc"}

\* (A mutant: the state changes without a line.)
DisconnectIoKeeping ==
  IF connState = "disc"
  THEN Silent /\ UNCHANGED conn
  ELSE /\ attrib' = FALSE /\ link' = "none" /\ mtuSet' = FALSE
       /\ UNCHANGED <<inFlight, late>>
       /\ connState' = "disc"
       /\ Silent

\* disconnect_io: a connection that is not there is left alone, without a
\* line.  The commands that wait for the device are dropped; a discovery keeps
\* a reference to attrib and ends with an error once its socket is closed.
DisconnectIo ==
  IF connState = "disc"
  THEN Silent /\ UNCHANGED conn
  ELSE /\ attrib' = FALSE /\ link' = "none" /\ mtuSet' = FALSE
       /\ inFlight' = <<>>
       /\ late' = late \o RemoveAll(inFlight, {c \in ToSet(inFlight) : ~IsDiscovery(c)})
       /\ SetState("disc", <<>>)

\* The line names the device; gatt_connect may fail at once.
CmdConnect ==
  /\ Take({"conn"})
  /\ UNCHANGED <<alive, mgmt>>
  /\ \/ connState # "disc" /\ Silent /\ UNCHANGED conn
     \/ /\ connState = "disc"
        /\ UNCHANGED <<attrib, mtuSet, inFlight, late>>
        /\ \/ connState' = "tryconn" /\ link' = "connecting" /\ Say(<<Stat("tryconn", 0)>>)
           \/ UNCHANGED <<connState, link>> /\ Say(<<Stat("tryconn", 0), Stat("disc", 0)>>)

\* connect_cb, called when the socket is connected or has failed.
Connected ==
  /\ alive /\ link = "connecting"
  /\ link' = "up" /\ attrib' = TRUE
  /\ SetState("conn", <<>>)
  /\ UNCHANGED <<alive, mtuSet, inFlight, late, mgmt, input>>

ConnectFailed ==
  /\ alive /\ link = "connecting"
  /\ link' = "none"
  /\ SetState("disc", <<Err("connfail", 0)>>)
  /\ UNCHANGED <<alive, attrib, mtuSet, inFlight, late, mgmt, input>>

\* The device, the kernel or the ATT transport ends the connection ...
LinkLost ==
  /\ alive /\ link = "up"
  /\ link' = "lost"
  /\ UNCHANGED <<alive, connState, attrib, mtuSet, inFlight, late, mgmt, input, output>>

\* (A mutant: the state is that of the socket.)
WatcherTellsLink ==
  /\ alive /\ link = "lost"
  /\ connState' = link
  /\ UNCHANGED <<alive, attrib, link, mtuSet, inFlight, late, mgmt, input, output>>

\* ... and channel_watcher is told.  When it leaves attrib alone the transport
\* ends what waits for the device with errors.
ChannelWatcher ==
  /\ alive /\ link = "lost"
  /\ \/ connState # "disc" /\ DisconnectIo
     \/ /\ connState = "disc"
        /\ link' = "none" /\ inFlight' = <<>> /\ late' = late \o inFlight
        /\ Silent /\ UNCHANGED <<connState, attrib, mtuSet>>
  /\ UNCHANGED <<alive, mgmt, input>>

LateError ==
  /\ alive /\ late # <<>>
  /\ late' = Tail(late)
  /\ Say(<<Err("atterr", Head(late).n)>>)
  /\ UNCHANGED <<alive, connState, attrib, link, mtuSet, inFlight, mgmt, input>>

CmdDisconnect == Take({"disc"}) /\ DisconnectIo /\ UNCHANGED <<alive, mgmt>>

\* quit ends the main loop, and main disconnects.
CmdExit ==
  /\ Take({"quit"})
  /\ alive' = FALSE
  /\ DisconnectIo
  /\ UNCHANGED mgmt

\* A failed assertion on the length of a packet or of an event.
Abort ==
  /\ Aborts /\ alive
  /\ link = "up" \/ mgmtIn # <<>>
  /\ alive' = FALSE /\ link' = "none"
  /\ UNCHANGED <<connState, attrib, mtuSet, inFlight, late, mgmt, input, output>>

----------------------------------------------------------------------------
(* GATT commands *)

\* A procedure of gatt.c is started; its callback answers.
Begin == inFlight' = Append(inFlight, cmd) /\ Silent

Gatt(verbs) ==
  /\ Take(verbs)
  /\ UNCHANGED <<alive, connState, attrib, link, mtuSet, late, mgmt>>
  /\ \/ connState # "conn" /\ Say(<<Err("badstate", cmd.n)>>) /\ UNCHANGED inFlight
     \/ connState = "conn" /\ ~cmd.ok /\ Say(<<Err("badparam", cmd.n)>>) /\ UNCHANGED inFlight
     \/ connState = "conn" /\ cmd.ok /\ Begin

CmdDiscover == Gatt({"svcs", "incl", "char"})
CmdCharDesc == Gatt({"desc"})
CmdRead == Gatt({"rd", "rdu"})
CmdWriteRsp == Gatt({"wrr"})

\* A write without response is answered at once.
CmdWrite ==
  /\ Take({"wr"})
  /\ Answer(CASE connState # "conn" -> Err("badstate", cmd.n)
              [] connState = "conn" /\ ~cmd.ok -> Err("badparam", cmd.n)
              [] OTHER -> Line("wr", "", cmd.n))

\* The MTU can be exchanged once per connection, whatever comes of it; an argument
\* that is no MTU may be kept all the same.
CmdMtu ==
  /\ Take({"mtu"})
  /\ UNCHANGED <<alive, connState, attrib, link, late, mgmt>>
  /\ \/ /\ connState # "conn" \/ mtuSet
        /\ Say(<<Err("badstate", cmd.n)>>) /\ UNCHANGED <<mtuSet, inFlight>>
     \/ /\ connState = "conn" /\ ~cmd.ok
        /\ mtuSet' \in {mtuSet, TRUE}
        /\ Say(<<Err("badparam", cmd.n)>>) /\ UNCHANGED inFlight
     \/ /\ connState = "conn" /\ cmd.ok /\ ~mtuSet
        /\ mtuSet' = TRUE
        /\ Begin

CmdSecLevel ==
  /\ Take({"secu"})
  /\ \/ ~cmd.ok /\ Answer(Err("badparam", cmd.n))
     \/ cmd.ok /\ connState # "conn" /\ Ignore
     \/ cmd.ok /\ connState = "conn" /\ Answer(Stat(connState, cmd.n))
     \/ cmd.ok /\ connState = "conn" /\ Answer(Err("callfail", cmd.n))

\* The line that answers a command that succeeded: primary_all_cb and the like,
\* char_desc_cb, char_read_cb and char_read_by_uuid_cb, char_write_req_cb,
\* exchange_mtu_cb.
Success(c) ==
  CASE c.verb \in {"svcs", "incl", "char"} -> Line("find", "", c.n)
    [] c.verb = "desc" -> Line("desc", "", c.n)
    [] c.verb \in {"rd", "rdu"} -> Line("rd", "", c.n)
    [] c.verb = "wrr" -> Line("wr", "", c.n)
    [] c.verb = "mtu" -> Stat(connState, c.n)

\* The errors: of the device, of a packet that cannot be decoded, of the MTU.
Failures(c) ==
  {"atterr"} \cup (IF IsDiscovery(c) THEN {} ELSE {"decodeerr"})
             \cup (IF c.verb = "mtu" THEN {"callfail"} ELSE {})

\* (A mutant: the answer goes to the last command.)
AnswerLast ==
  /\ alive /\ link = "up" /\ inFlight # <<>>
  /\ inFlight' = <<>>
  /\ Say(<<Success(Head(inFlight)), Success(Head(inFlight))>>)
  /\ UNCHANGED <<alive, connState, attrib, link, mtuSet, late, mgmt, input>>

\* The device has answered the command it works on.
GattDone ==
  /\ alive /\ link = "up" /\ inFlight # <<>>
  /\ inFlight' = Tail(inFlight)
  /\ LET c == Head(inFlight)
     IN \/ Say(<<Success(c)>>)
        \/ \E code \in Failures(c) : Say(<<Err(code, c.n)>>)
  /\ UNCHANGED <<alive, connState, attrib, link, mtuSet, late, mgmt, input>>

\* events_handler: a notification or an indication.
EventsHandler ==
  /\ alive /\ link = "up" /\ Room
  /\ Say(<<Line("ntfy", "", 0)>>)
  /\ UNCHANGED <<alive, conn, mgmt, input>>

----------------------------------------------------------------------------
(* Management commands *)

MgmtSend == mgmtOut' = Append(mgmtOut, cmd) /\ Silent

\* set_mode, pairing, scan: refused with one of these lines, if there are any, or
\* sent to the kernel, or not (set_mode then reports a success).
MgmtCmd(verbs, refusals, unsent) ==
  /\ Take(verbs)
  /\ UNCHANGED <<alive, conn, master, mgmtIn, kernelScan, hciScan>>
  /\ \/ \E line \in refusals : Say(<<line>>) /\ UNCHANGED mgmtOut
     \/ refusals = {} /\ MgmtSend
     \/ refusals = {} /\ Say(<<unsent>>) /\ UNCHANGED mgmtOut

NoMgmt == IF master THEN {} ELSE {Err("nomgmt", cmd.n)}
Unless(ok, lines) == IF ok THEN {} ELSE lines

\* Some arguments are looked at before the management socket is, some after.
CmdMode ==
  MgmtCmd({"le", "pairable"}, NoMgmt \cup Unless(cmd.ok, {Mgmt("badparam", cmd.n)}),
          Mgmt("success", cmd.n))
CmdOob ==
  MgmtCmd({"remote_oob", "local_oob"},
          NoMgmt \cup Unless(cmd.ok, {Mgmt("badparam", cmd.n), Mgmt("notfound", cmd.n)})
                 \cup Unless(cmd.ok \/ ~master, {Err("badparam", cmd.n)}),
          Err("sendfail", cmd.n))
CmdPair ==
  MgmtCmd({"pair"}, IF master THEN Unless(connState = "conn", {Mgmt("badstate", cmd.n)}) ELSE NoMgmt,
          Mgmt("sendfail", cmd.n))
CmdUnpair ==
  MgmtCmd({"unpair"}, IF master THEN Unless(cmd.ok, {Mgmt("notfound", cmd.n)}) ELSE NoMgmt,
          Mgmt("sendfail", cmd.n))
CmdScan ==
  MgmtCmd({"scan", "scanend"}, IF cmd.ok THEN NoMgmt ELSE {Mgmt("badparam", cmd.n)},
          Mgmt("sendfail", cmd.n))

Reply(status) == [kind |-> "reply", status |-> status, cmd |-> Head(mgmtOut)]
Discovering(on) == [kind |-> "discovering", on |-> on]
Found == [kind |-> "found"]

\* The kernel answers; a change of its scanning is an event of its own, before
\* the reply or after it.
KernelReplies ==
  /\ mgmtOut # <<>>
  /\ mgmtOut' = Tail(mgmtOut)
  /\ LET v == Head(mgmtOut).verb
     IN \/ /\ v \in {"scan", "scanend"} /\ kernelScan = (v = "scanend")
           /\ kernelScan' = ~kernelScan
           /\ LET r == Reply("success")   e == Discovering(v = "scan")
              IN mgmtIn' \in {mgmtIn \o <<r, e>>, mgmtIn \o <<e, r>>}
        \/ /\ v = "scan"
           /\ kernelScan \/ foreign
           /\ mgmtIn' = Append(mgmtIn, Reply("busy")) /\ UNCHANGED kernelScan
        \/ /\ v \notin {"scan", "scanend"}
           /\ mgmtIn' = Append(mgmtIn, Reply("success")) /\ UNCHANGED kernelScan
        \/ mgmtIn' = Append(mgmtIn, Reply("failed")) /\ UNCHANGED kernelScan
  /\ UNCHANGED <<alive, conn, master, hciScan, input, output>>

\* The kernel ends a scan on its own; it reports what it finds; another
\* process starts or ends a scan of its own.
KernelEvent(e) ==
  /\ alive /\ master /\ Room
  /\ \/ e = Discovering(FALSE) /\ kernelScan /\ kernelScan' = FALSE
     \/ e = Found /\ kernelScan /\ UNCHANGED kernelScan
     \/ e.kind = "discovering" /\ foreign /\ UNCHANGED kernelScan
  /\ mgmtIn' = Append(mgmtIn, e)
  /\ UNCHANGED <<alive, conn, master, mgmtOut, hciScan, input, output>>

\* The callbacks of mgmt_send: set_mode_complete, pair_device_complete, scan_cb,
\* read_local_oob_data_complete, and add_remote_oob_data_complete, which
\* says nothing.
MgmtReply ==
  /\ alive /\ mgmtIn # <<>> /\ Head(mgmtIn).kind = "reply"
  /\ mgmtIn' = Tail(mgmtIn)
  /\ LET r == Head(mgmtIn)
     IN CASE r.status = "failed" -> Say(<<Mgmt("mgmterr", r.cmd.n)>>)
          [] r.status = "busy" -> Say(<<Mgmt("busy", r.cmd.n)>>)
          [] r.status = "success" /\ r.cmd.verb = "remote_oob" -> Silent
          [] r.status = "success" /\ r.cmd.verb = "local_oob" -> Say(<<Line("oob", "", r.cmd.n)>>)
          [] OTHER -> Say(<<Mgmt("success", r.cmd.n)>>)
  /\ UNCHANGED <<alive, conn, master, mgmtOut, kernelScan, hciScan, input>>

\* mgmt_scanning sets the state whatever the connection is.
MgmtScanning ==
  /\ alive /\ mgmtIn # <<>> /\ Head(mgmtIn).kind = "discovering"
  /\ mgmtIn' = Tail(mgmtIn)
  /\ SetState(IF Head(mgmtIn).on THEN "scan" ELSE "disc", <<>>)
  /\ UNCHANGED <<alive, attrib, link, mtuSet, inFlight, late, master, mgmtOut, kernelScan, hciScan, input>>

MgmtDeviceFound ==
  /\ alive /\ mgmtIn # <<>> /\ Head(mgmtIn).kind = "found"
  /\ mgmtIn' = Tail(mgmtIn)
  /\ IF connState = "scan" THEN Say(<<Line("scan", "", 0)>>) ELSE Silent
  /\ UNCHANGED <<alive, conn, master, mgmtOut, kernelScan, hciScan, input>>

----------------------------------------------------------------------------
(* The passive scan, on a socket of the HCI layer *)

\* discover: each of the calls it makes may fail, before or after the watch is
\* there.
CmdPasv ==
  /\ Take({"pasv"})
  /\ UNCHANGED <<alive, attrib, link, mtuSet, inFlight, late, master, mgmtOut, mgmtIn, kernelScan>>
  /\ \/ /\ connState' = "scan" /\ hciScan' = TRUE
        /\ Say(<<Mgmt("success", cmd.n), Stat("scan", 0)>>)
     \/ UNCHANGED connState /\ hciScan' \in {hciScan, TRUE} /\ Say(<<Mgmt("badstate", cmd.n)>>)

\* It closes the socket it has just opened, not the watched one.
CmdPasvEnd ==
  /\ Take({"pasvend"})
  /\ connState' = "disc"
  /\ \E code \in {"success", "badstate"} : Say(<<Mgmt(code, cmd.n), Stat("disc", 0)>>)
  /\ UNCHANGED <<alive, attrib, link, mtuSet, inFlight, late, mgmt>>

\* hci_monitor_cb: an advertisement, or the command that ends a scan.
HciReport ==
  /\ alive /\ hciScan /\ Room
  /\ connState = "scan"
  /\ Say(<<Line("scan", "", 0)>>)
  /\ UNCHANGED <<alive, conn, mgmt, input>>

HciScanEnds ==
  /\ alive /\ hciScan
  /\ hciScan' = FALSE
  /\ IF connState = "scan" THEN SetState("disc", <<>>) ELSE Silent /\ UNCHANGED connState
  /\ UNCHANGED <<alive, attrib, link, mtuSet, inFlight, late, master, mgmtOut, mgmtIn, kernelScan, input>>

----------------------------------------------------------------------------
\* What the main loop does for the commands and for what it has started ...
CommandLine ==
  \/ CmdStatus \/ CmdConnect \/ CmdDisconnect \/ CmdExit
  \/ CmdDiscover \/ CmdCharDesc \/ CmdRead \/ CmdWriteRsp \/ CmdWrite \/ CmdMtu \/ CmdSecLevel
  \/ CmdMode \/ CmdOob \/ CmdPair \/ CmdUnpair \/ CmdScan \/ CmdPasv \/ CmdPasvEnd

Work ==
  \/ CommandLine
  \/ Connected \/ ConnectFailed \/ ChannelWatcher \/ LateError \/ GattDone
  \/ MgmtReply \/ MgmtScanning \/ MgmtDeviceFound
  \/ KernelReplies

\* ... what happens to it ...
Environment == LinkLost \/ Abort \/ EventsHandler \/ HciReport

\* ... and to the scan.
ScanEvents ==
  \/ HciScanEnds
  \/ \E e \in {Discovering(TRUE), Discovering(FALSE), Found} : KernelEvent(e)
=============================================================================
