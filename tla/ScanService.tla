---------------------------- MODULE ScanService ----------------------------
(***************************************************************************)
(* The scan side of BLE_Service (BLE-Bluepy/BLE_Client.py): one scan at a  *)
(* time, run by the calling thread (scanSynch) or handed to a listener     *)
(* thread (scanAsynch, startScan), repeated by a timer (startPeriodicScan) *)
(* and held back while GATT devices are connected.                         *)
(*                                                                         *)
(* A step is a stretch of statements in which other threads can observe    *)
(* one operation on a Lock, an Event or a dictionary.  The routines        *)
(* _initScan, _checkConnected, _startScan and _scanEnds are labels all     *)
(* their callers go through; call[t].fn is the function running them.      *)
(***************************************************************************)
EXTENDS Naturals, FiniteSets

CONSTANTS
  Callers,     \* application threads (the MQTT command threads)
  Workers,     \* slots for the threads the service starts: listeners, timers
  DevThreads,  \* threads inside BLE_Device.connect and BLE_Device.disconnect
  Objs,        \* BLE_Device objects
  AddrOf,      \* the MAC address each object was created for
  Ops,         \* the entry points each caller uses
  Forces,      \* the values of forceDisconnect they pass
  Untimely,    \* the objects that can be left connected without a keep timer
  None

Threads == Callers \cup Workers \cup DevThreads

ASSUME ThreadsAssumption ==
  /\ Callers \cap Workers = {}
  /\ DevThreads \cap (Callers \cup Workers) = {}
  /\ None \notin Threads \cup Objs
  /\ None \notin {"scanSynch", "scanAsynch", "startScan", "listener", "listenerInd"}
  /\ Forces \subseteq BOOLEAN
  /\ Untimely \subseteq Objs
  /\ IsFiniteSet(Objs)

VARIABLES
  scanLock,      \* _scanLock is held
  scanRun,       \* _scan_run is set: no scan is on
  scanStart,     \* _scan_start is set
  connectLock,   \* _connect_lock is set: no device is connected
  periodic,      \* _periodic
  breath,        \* _breathTime > 0
  listener,      \* _listener, as the thread that runs it
  stopFlag,      \* the stopFlag of that listener
  timer,         \* _timer, as the thread that will wait or waits in it, until it fires
  devices,       \* the values of _devices
  connectedDev,  \* the values of _connectedDev
  connected,     \* the objects whose _connected is True
  untimed,       \* those of them that have no keep timer and no command under way
  pc,            \* control of each thread
  call,          \* the function a thread runs and its forceDisconnect
  obj,           \* the object a device thread works on
  loop           \* the dictionary iterator of a forced _checkConnected

events == <<scanLock, scanRun, scanStart, connectLock>>
service == <<periodic, breath, listener, stopFlag, timer>>
registry == <<devices, connectedDev, connected, untimed>>
locals == <<call, obj, loop>>
vars == <<events, service, registry, pc, locals>>

NoCall == [fn |-> None, force |-> FALSE]
NoLoop == [left |-> {}, size |-> 0]

Init ==
  /\ scanLock = FALSE /\ scanRun = TRUE /\ scanStart = FALSE /\ connectLock = TRUE
  /\ periodic = FALSE /\ breath = FALSE
  /\ listener = None /\ stopFlag = FALSE /\ timer = None
  /\ devices = {} /\ connectedDev = {} /\ connected = {} /\ untimed = {}
  /\ pc = [t \in Threads |-> IF t \in Workers THEN "dead" ELSE "idle"]
  /\ call = [t \in Threads |-> NoCall]
  /\ obj = [t \in Threads |-> None]
  /\ loop = [t \in Threads |-> NoLoop]

----------------------------------------------------------------------------
(* Control *)

Goto(t, label) == pc' = [pc EXCEPT ![t] = label]
Step(t, from, to) == pc[t] = from /\ Goto(t, to)

\* A set() wakes every thread blocked in wait() on that event, and each of
\* them returns even if the event is cleared again before it runs.
Wake(p, blocked, to(_)) == [t \in Threads |-> IF p[t] = blocked THEN to(t) ELSE p[t]]

Enter(t, f, d, label) ==
  /\ call' = [call EXCEPT ![t] = [fn |-> f, force |-> d]]
  /\ Goto(t, label)

\* A function is over: a caller is free again, a started thread ends.
Home(t) == IF t \in Workers THEN "dead" ELSE "idle"
Leave(t) == Goto(t, Home(t)) /\ call' = [call EXCEPT ![t] = NoCall]

\* Where _checkConnected and _initScan continue in each of their callers.
AfterCheck(t) ==
  CASE call[t].fn = "scanSynch" -> "start"
    [] call[t].fn = "startScan" -> "spawn"
    [] OTHER -> "acquire"
AfterInit(t) == IF call[t].fn = "scanAsynch" THEN "spawn" ELSE "check"

\* The slot of a finished thread can run a new thread.
Free(w) == w \in Workers /\ pc[w] = "dead"

\* Dictionaries are keyed by address: storing an object replaces the entry.
SameAddr(o) == {x \in Objs : AddrOf[x] = AddrOf[o]}

----------------------------------------------------------------------------
(* The entry points *)

\* The threads that carry a periodic scan on: the one that will start the next
\* scan, the listener that scans now, the timer in between.
Carries(t) ==
  \/ pc[t] = "timer"
  \/ call[t].fn = "listener"
  \/ call[t].fn = "scanAsynch" /\ pc[t] \notin {"waitStart", "blockedStart", "return"}

\* A caller uses its Ops; after a stopScan it starts a periodic scan before the
\* last one has died out only with "restart" among them.
Call(t, op) ==
  /\ t \in Callers
  /\ pc[t] = "idle"
  /\ op \in Ops[t]
  /\ op = "startPeriodicScan" =>
       "restart" \in Ops[t] \/ periodic \/ \A u \in Threads : ~Carries(u)

\* scanSynch, scanAsynch, and startScan, which is ignored while a scan is on.
CallScan(t, op, d) ==
  /\ Call(t, op)
  /\ op = "startScan" => scanRun
  /\ Enter(t, op, d, IF op = "scanAsynch" THEN "check" ELSE "acquire")
  /\ UNCHANGED <<events, service, registry, obj, loop>>

\* (Mutant: a second start is not refused.)
StartPeriodicTwice(t) ==
  /\ Call(t, "startPeriodicScan")
  /\ Goto(t, "setPeriodic")
  /\ UNCHANGED <<events, service, registry, locals>>

\* startPeriodicScan is refused while _periodic is set; otherwise it sets it ...
CallStartPeriodicScan(t) ==
  /\ Call(t, "startPeriodicScan")
  /\ ~periodic
  /\ Goto(t, "setPeriodic")
  /\ UNCHANGED <<events, service, registry, locals>>

SetPeriodic(t) ==
  /\ Step(t, "setPeriodic", "setBreath")
  /\ periodic' = TRUE
  /\ UNCHANGED <<events, breath, listener, stopFlag, timer, registry, locals>>

\* ... and the breath time, and goes on into scanAsynch.
SetBreath(t, b) ==
  /\ pc[t] = "setBreath"
  /\ breath' = b
  /\ Enter(t, "scanAsynch", FALSE, "check")
  /\ UNCHANGED <<events, periodic, listener, stopFlag, timer, registry, obj, loop>>

\* periodTime, in the thread of the timer.
PeriodTime(w) ==
  /\ pc[w] = "timer"
  /\ Enter(w, "scanAsynch", FALSE, "check")
  /\ timer' = IF timer = w THEN None ELSE timer
  /\ UNCHANGED <<events, periodic, breath, listener, stopFlag, registry, obj, loop>>

\* stopScan first stops the listener of a scan that is on ...
CallStopScan(t) ==
  /\ Call(t, "stopScan")
  /\ Goto(t, IF scanRun THEN "stopPeriodic" ELSE "stopListener")
  /\ UNCHANGED <<events, service, registry, locals>>

\* ... BLE_Listener.stop does nothing, and a scan that never had a listener
\* raises AttributeError; ...
StopListener(t) ==
  /\ Step(t, "stopListener", IF listener = None THEN "idle" ELSE "stopPeriodic")
  /\ stopFlag' = (stopFlag \/ (listener # None /\ call[listener].fn = "listenerInd"))
  /\ UNCHANGED <<events, periodic, breath, listener, timer, registry, locals>>

\* ... then the periodic scan: it tests _periodic, clears it, ...
StopPeriodic(t) ==
  /\ Step(t, "stopPeriodic", IF periodic THEN "clearPeriodic" ELSE "idle")
  /\ UNCHANGED <<events, service, registry, locals>>

ClearPeriodic(t) ==
  /\ Step(t, "clearPeriodic", "stopBreath")
  /\ periodic' = FALSE
  /\ UNCHANGED <<events, breath, listener, stopFlag, timer, registry, locals>>

\* ... and, where there is a breath time, ...
StopBreath(t) ==
  /\ Step(t, "stopBreath", IF breath THEN "cancelTimer" ELSE "idle")
  /\ UNCHANGED <<events, service, registry, locals>>

\* ... cancels whatever _timer is then.  One that has fired goes on; one that
\* waits ends; one that is not started yet will end as soon as it is.
CancelTimer(t) ==
  /\ pc[t] = "cancelTimer"
  /\ LET ended(w) == timer = w /\ pc[w] = "timer"
     IN /\ timer' = IF timer # None /\ ended(timer) THEN None ELSE timer
        /\ pc' = [u \in Threads |->
                    IF u = t THEN "idle"
                    ELSE IF ended(u) THEN "dead"
                    ELSE IF timer = u /\ pc[u] = "created" THEN "cancelled" ELSE pc[u]]
  /\ UNCHANGED <<events, periodic, breath, listener, stopFlag, registry, locals>>

ScanEndWait(t) ==
  /\ Call(t, "scanEndWait")
  /\ ~scanRun
  /\ Goto(t, "blockedRun")
  /\ UNCHANGED <<events, service, registry, locals>>

----------------------------------------------------------------------------
(* _initScan *)

\* (Mutant: the result of a non-blocking acquire is ignored.)
AcquireAnyway(t) ==
  /\ Step(t, "acquire", "init")
  /\ scanLock' = TRUE
  /\ UNCHANGED <<scanRun, scanStart, connectLock, service, registry, locals>>

AcquireScanLock(t) ==
  /\ Step(t, "acquire", "init")
  /\ ~scanLock
  /\ scanLock' = TRUE
  /\ UNCHANGED <<scanRun, scanStart, connectLock, service, registry, locals>>

\* (Mutant: _scan_run is not cleared.)
InitScanSilently(t) ==
  /\ Step(t, "init", AfterInit(t))
  /\ devices' = {}
  /\ connectedDev' = {}
  /\ UNCHANGED <<events, service, connected, untimed, locals>>

InitScan(t) ==
  /\ Step(t, "init", AfterInit(t))
  /\ scanRun' = FALSE
  /\ devices' = {}
  /\ connectedDev' = {}
  /\ UNCHANGED <<scanLock, scanStart, connectLock, service, connected, untimed, locals>>

----------------------------------------------------------------------------
(* _checkConnected *)

\* Without force: _connect_lock.wait().
CheckWait(t) ==
  /\ Step(t, "check", IF connectLock THEN AfterCheck(t) ELSE "blockedConnect")
  /\ ~call[t].force
  /\ UNCHANGED <<events, service, registry, locals>>

\* With force: iterate over the values of _connectedDev.
CheckForce(t) ==
  /\ Step(t, "check", "visit")
  /\ call[t].force
  /\ loop' = [loop EXCEPT ![t] = [left |-> connectedDev, size |-> Cardinality(connectedDev)]]
  /\ UNCHANGED <<events, service, registry, call, obj>>

SameSize(t) == Cardinality(connectedDev) = loop[t].size

\* The next device of the loop: d._disconnect().
ForceDisconnect(t, o) ==
  /\ Step(t, "visit", "visit")
  /\ SameSize(t)
  /\ o \in loop[t].left
  /\ loop' = [loop EXCEPT ![t].left = @ \ {o}]
  /\ connected' = connected \ {o}
  /\ untimed' = untimed \ {o}
  /\ UNCHANGED <<events, service, devices, connectedDev, call, obj>>

ForceDone(t) ==
  /\ pc[t] = "visit"
  /\ SameSize(t)
  /\ loop[t].left = {}
  /\ connectLock' = TRUE
  /\ pc' = [Wake(pc, "blockedConnect", AfterCheck) EXCEPT ![t] = AfterCheck(t)]
  /\ loop' = [loop EXCEPT ![t] = NoLoop]
  /\ UNCHANGED <<scanLock, scanRun, scanStart, service, registry, call, obj>>

\* RuntimeError: dictionary changed size during iteration; or the exception of
\* a Peripheral.disconnect() whose helper has died.
ForceRaises(t) ==
  /\ pc[t] = "visit"
  /\ ~SameSize(t) \/ loop[t].left \cap connected # {}
  /\ Leave(t)
  /\ loop' = [loop EXCEPT ![t] = NoLoop]
  /\ UNCHANGED <<events, service, registry, obj>>

----------------------------------------------------------------------------
(* The listener thread *)

\* The end of scanAsynch and startScan: a new listener, started.
Spawn(t, w) ==
  /\ pc[t] = "spawn"
  /\ Free(w)
  /\ listener' = w
  /\ stopFlag' = FALSE
  /\ scanStart' = FALSE
  /\ call' = [call EXCEPT ![w].fn =
                IF call[t].fn = "startScan" THEN "listenerInd" ELSE "listener"]
  /\ pc' = [pc EXCEPT ![t] = "waitStart", ![w] = "begin"]
  /\ UNCHANGED <<scanLock, scanRun, connectLock, periodic, breath, timer, registry, obj, loop>>

\* _scan_start.wait()
WaitStart(t) ==
  /\ Step(t, "waitStart", IF scanStart THEN "return" ELSE "blockedStart")
  /\ UNCHANGED <<events, service, registry, locals>>

Return(t) ==
  /\ pc[t] = "return"
  /\ Leave(t)
  /\ UNCHANGED <<events, service, registry, obj, loop>>

\* BLE_ListenerInd.run clears its stop flag first.
Begin(w) ==
  /\ Step(w, "begin", "start")
  /\ stopFlag' = FALSE
  /\ UNCHANGED <<events, periodic, breath, listener, timer, registry, locals>>

\* Where _startScan leads: a timed scan runs, or is over at once (timeout
\* zero).  In an unlimited one Scanner.start may raise; the handler then calls
\* scanEnds, which does not exist, and the thread dies on the AttributeError.
AfterStart(t) ==
  IF call[t].fn = "listenerInd" THEN {"scanning", "dead"} ELSE {"scanning", "ends"}

\* (Mutant: _scan_start is not set.)
StartScanSilently(t) ==
  /\ pc[t] = "start"
  /\ connectLock' = TRUE
  /\ \E next \in AfterStart(t) :
       pc' = [Wake(pc, "blockedConnect", AfterCheck) EXCEPT ![t] = next]
  /\ UNCHANGED <<scanLock, scanRun, scanStart, service, registry, locals>>

\* _startScan lets the waiting starter go on, and every waiting scan.
StartScan(t) ==
  /\ pc[t] = "start"
  /\ scanStart' = TRUE
  /\ connectLock' = TRUE
  /\ \E next \in AfterStart(t) :
       pc' = [Wake(Wake(pc, "blockedStart", LAMBDA u : "return"),
                   "blockedConnect", AfterCheck) EXCEPT ![t] = next]
  /\ UNCHANGED <<scanLock, scanRun, service, registry, locals>>

\* addDevice: an address not seen in this scan passes the filters.
AddDevice(t, o) ==
  /\ pc[t] = "scanning"
  /\ SameAddr(o) \cap devices = {}
  /\ o \notin connectedDev \cup connected
  /\ \A u \in Threads : obj[u] # o /\ o \notin loop[u].left
  /\ devices' = devices \cup {o}
  /\ UNCHANGED <<events, service, connectedDev, connected, untimed, pc, locals>>

\* Scanner.scan returns or raises BTLEException; the loop around Scanner.process
\* sees the stop flag or such an exception.
ScanOver(t) ==
  /\ Step(t, "scanning", "ends")
  /\ UNCHANGED <<events, service, registry, locals>>

\* Any other exception of the scanner (BrokenPipeError of a helper that has died,
\* AssertionError) is caught nowhere: _scanEnds does not run.
ScanRaises(t) ==
  /\ pc[t] = "scanning"
  /\ Leave(t)
  /\ UNCHANGED <<events, service, registry, obj, loop>>

----------------------------------------------------------------------------
(* _scanEnds *)

\* The callback, then _scan_run.set().
SetScanRun(t) ==
  /\ pc[t] = "ends"
  /\ scanRun' = TRUE
  /\ pc' = [Wake(pc, "blockedRun", Home) EXCEPT ![t] = "release"]
  /\ UNCHANGED <<scanLock, scanStart, connectLock, service, registry, locals>>

\* (Mutant: the lock is not released.)
KeepScanLock(t) ==
  /\ Step(t, "release", "again")
  /\ UNCHANGED <<events, service, registry, locals>>

ReleaseScanLock(t) ==
  /\ Step(t, "release", "again")
  /\ scanLock' = FALSE
  /\ UNCHANGED <<scanRun, scanStart, connectLock, service, registry, locals>>

NotPeriodic(t) ==
  /\ pc[t] = "again"
  /\ ~periodic
  /\ Leave(t)
  /\ UNCHANGED <<events, service, registry, obj, loop>>

\* (Mutant: _periodic is not looked at again.)
AgainAlways(t) ==
  /\ Step(t, "again", "breathe")
  /\ UNCHANGED <<events, service, registry, locals>>


Again(t) ==
  /\ Step(t, "again", "breathe")
  /\ periodic
  /\ UNCHANGED <<events, service, registry, locals>>

\* No breath time: the ending thread starts the next scan itself.
ScanAgain(t) ==
  /\ pc[t] = "breathe"
  /\ ~breath
  /\ Enter(t, "scanAsynch", FALSE, "check")
  /\ UNCHANGED <<events, service, registry, obj, loop>>

\* Otherwise a new timer becomes _timer, in the place of one that waits or was
\* never started, ...
CreateTimer(t, w) ==
  /\ pc[t] = "breathe"
  /\ breath
  /\ Free(w) /\ w # listener
  /\ timer' = w
  /\ pc' = [u \in Threads |->
              IF u = t THEN "startTimer"
              ELSE IF u = w THEN "created"
              ELSE IF u = timer /\ pc[u] # "timer" THEN "dead" ELSE pc[u]]
  /\ UNCHANGED <<events, periodic, breath, listener, stopFlag, registry, locals>>

\* ... and is started, unless stopScan has got in between: a cancelled timer
\* ends at once.  (One already started by another thread raises.)
StartTimer(t) ==
  /\ pc[t] = "startTimer"
  /\ timer' = IF timer # None /\ pc[timer] = "cancelled" THEN None ELSE timer
  /\ pc' = [u \in Threads |->
              IF u = t THEN Home(t)
              ELSE IF u = timer /\ pc[u] = "created" THEN "timer"
              ELSE IF u = timer /\ pc[u] = "cancelled" THEN "dead" ELSE pc[u]]
  /\ call' = [call EXCEPT ![t] = NoCall]
  /\ UNCHANGED <<events, periodic, breath, listener, stopFlag, registry, obj, loop>>

----------------------------------------------------------------------------
(* The reports of the device threads, one thread at a time per object      *)

Take(t, o, label) ==
  /\ t \in DevThreads
  /\ Step(t, "idle", label)
  /\ \A u \in Threads : obj[u] # o
  /\ obj' = [obj EXCEPT ![t] = o]
Drop(t) == obj' = [obj EXCEPT ![t] = None]

\* devConnect goes on to BLE_Device.connect only when it has seen no scan on.
ConnectBegins(t, o) ==
  /\ scanRun
  /\ o \in devices \ connected
  /\ Take(t, o, "connecting")
  /\ UNCHANGED <<events, service, registry, call, loop>>

ConnectFails(t) ==
  /\ Step(t, "connecting", "idle")
  /\ Drop(t)
  /\ UNCHANGED <<events, service, registry, call, loop>>

ConnectDone(t) ==
  /\ Step(t, "connecting", "regClear")
  /\ connected' = connected \cup {obj[t]}
  /\ UNCHANGED <<events, service, devices, connectedDev, untimed, locals>>

\* devConnected: clear the connect lock ...
RegClear(t) ==
  /\ Step(t, "regClear", "regAdd")
  /\ connectLock' = FALSE
  /\ UNCHANGED <<scanLock, scanRun, scanStart, service, registry, locals>>

\* (Mutant: the address is stored in place of the device.)
RegAddAddress(t) ==
  /\ Step(t, "regAdd", "idle")
  /\ connectedDev' = (connectedDev \ SameAddr(obj[t])) \cup {AddrOf[obj[t]]}
  /\ Drop(t)
  /\ UNCHANGED <<events, service, devices, connected, untimed, call, loop>>

\* ... and store the device.
RegAdd(t) ==
  /\ Step(t, "regAdd", "idle")
  /\ connectedDev' = (connectedDev \ SameAddr(obj[t])) \cup {obj[t]}
  /\ Drop(t)
  /\ UNCHANGED <<events, service, devices, connected, untimed, call, loop>>

DisconnectBegins(t, o) ==
  /\ o \in connected
  /\ Take(t, o, "regDel")
  /\ connected' = connected \ {o}
  /\ untimed' = untimed \ {o}
  /\ UNCHANGED <<events, service, devices, connectedDev, call, loop>>

\* A command stops the keep timer, then raises past its caller before it arms it
\* again; so does a disconnect() whose helper has died or does not answer.
LoseTimer(o) ==
  /\ o \in (connected \cap Untimely) \ untimed
  /\ \A u \in Threads : obj[u] # o
  /\ untimed' = untimed \cup {o}
  /\ UNCHANGED <<events, service, devices, connectedDev, connected, pc, locals>>

\* The next command on the device that is over in good order arms it again.
ArmTimer(o) ==
  /\ o \in untimed
  /\ untimed' = untimed \ {o}
  /\ UNCHANGED <<events, service, devices, connectedDev, connected, pc, locals>>

\* (Mutant: the entry is not deleted.)
RegDelNothing(t) ==
  /\ Step(t, "regDel", "regCheck")
  /\ UNCHANGED <<events, service, registry, locals>>

\* devDisconnected: delete the entry of the address (a missing one is logged) ...
RegDel(t) ==
  /\ Step(t, "regDel", "regCheck")
  /\ connectedDev' = connectedDev \ SameAddr(obj[t])
  /\ UNCHANGED <<events, service, devices, connected, untimed, locals>>

\* ... and, when no entry is left, ...
RegCheck(t) ==
  /\ Step(t, "regCheck", IF connectedDev = {} THEN "regSet" ELSE "idle")
  /\ obj' = IF connectedDev = {} THEN obj ELSE [obj EXCEPT ![t] = None]
  /\ UNCHANGED <<events, service, registry, call, loop>>

\* ... set the connect lock, whatever has connected since.
RegSet(t) ==
  /\ pc[t] = "regSet"
  /\ connectLock' = TRUE
  /\ pc' = [Wake(pc, "blockedConnect", AfterCheck) EXCEPT ![t] = "idle"]
  /\ Drop(t)
  /\ UNCHANGED <<scanLock, scanRun, scanStart, service, registry, call, loop>>

----------------------------------------------------------------------------
Entry(t) ==
  \/ \E op \in {"scanSynch", "scanAsynch", "startScan"}, d \in Forces : CallScan(t, op, d)
  \/ CallStartPeriodicScan(t) \/ CallStopScan(t) \/ ScanEndWait(t)

\* What a thread does on its own once it is inside a function.
Proceed(t) ==
  \/ AcquireScanLock(t) \/ InitScan(t)
  \/ CheckWait(t) \/ CheckForce(t) \/ ForceDone(t) \/ ForceRaises(t)
  \/ \E o \in Objs : ForceDisconnect(t, o)
  \/ \E w \in Workers : Spawn(t, w) \/ CreateTimer(t, w)
  \/ WaitStart(t) \/ Return(t)
  \/ SetPeriodic(t) \/ \E b \in BOOLEAN : SetBreath(t, b)
  \/ StopListener(t) \/ StopPeriodic(t) \/ ClearPeriodic(t) \/ StopBreath(t) \/ CancelTimer(t)
  \/ Begin(t) \/ StartScan(t)
  \/ SetScanRun(t) \/ ReleaseScanLock(t)
  \/ NotPeriodic(t) \/ Again(t) \/ ScanAgain(t) \/ StartTimer(t) \/ PeriodTime(t)

Report(t) == RegClear(t) \/ RegAdd(t) \/ RegDel(t) \/ RegCheck(t) \/ RegSet(t)

Device(t) ==
  \/ \E o \in Objs : ConnectBegins(t, o) \/ DisconnectBegins(t, o)
  \/ ConnectFails(t) \/ ConnectDone(t) \/ Report(t)

Next ==
  \/ \E t \in Threads :
       \/ Entry(t) \/ Proceed(t) \/ Device(t) \/ ScanOver(t) \/ ScanRaises(t)
       \/ \E o \in Objs : AddDevice(t, o)
  \/ \E o \in Objs : LoseTimer(o) \/ ArmTimer(o)

Spec == Init /\ [][Next]_vars

\* The scheduler runs every thread; a lock wanted for ever is granted in the
\* end; a running timed scan ends, a connection attempt is over at some point,
\* and the keep timer closes the connections that have one.  Nothing closes the
\* others: that someone does, or arms their timer again, is not assumed.
Fairness ==
  /\ \A t \in Threads :
       /\ WF_vars(Proceed(t) \/ Report(t) \/ ConnectFails(t))
       /\ WF_vars(ScanOver(t) /\ (call[t].fn # "listenerInd" \/ stopFlag))
       /\ SF_vars(AcquireScanLock(t))
  /\ \A o \in Objs : SF_vars(o \notin untimed /\ \E t \in DevThreads : DisconnectBegins(t, o))

FairSpec == Spec /\ Fairness

----------------------------------------------------------------------------
(* Properties *)

Labels ==
  {"idle", "dead", "acquire", "init", "check", "blockedConnect", "visit", "spawn",
   "waitStart", "blockedStart", "return", "begin", "start", "scanning",
   "ends", "release", "again", "breathe", "startTimer", "created", "cancelled", "timer",
   "setPeriodic", "setBreath",
   "stopListener", "stopPeriodic", "clearPeriodic", "stopBreath", "cancelTimer",
   "blockedRun", "connecting", "regClear", "regAdd", "regDel", "regCheck", "regSet"}
Functions == {None, "scanSynch", "scanAsynch", "startScan", "listener", "listenerInd"}

\* Types of the service's attributes and of the threads' control.
TypeOK ==
  /\ scanLock \in BOOLEAN /\ scanRun \in BOOLEAN
  /\ scanStart \in BOOLEAN /\ connectLock \in BOOLEAN
  /\ periodic \in BOOLEAN /\ breath \in BOOLEAN /\ stopFlag \in BOOLEAN
  /\ listener \in Workers \cup {None} /\ timer \in Workers \cup {None}
  /\ devices \subseteq Objs /\ connectedDev \subseteq Objs
  /\ connected \subseteq Objs /\ untimed \subseteq Objs
  /\ pc \in [Threads -> Labels]
  /\ call \in [Threads -> [fn : Functions, force : BOOLEAN]]
  /\ obj \in [Threads -> Objs \cup {None}]
  /\ loop \in [Threads -> [left : SUBSET Objs, size : Nat]]
  /\ \A t \in Threads :
       pc[t] \in {"connecting", "regClear", "regAdd", "regDel", "regCheck", "regSet"} => obj[t] \in Objs

\* The threads that answer for the scan lock: from its acquisition, through
\* the hand-over from the starting thread to the listener, to its release.
HoldsScan(t) ==
  \/ pc[t] \in {"init", "spawn", "begin", "start", "scanning", "ends", "release"}
  \/ pc[t] \in {"check", "blockedConnect", "visit"} /\ call[t].fn # "scanAsynch"

\* _scanLock "protects the scan, only one at a time": across the hand-over
\* between two threads at most one thread answers for it, and the lock is
\* held as long as one does.
ScanExclusion ==
  /\ \A t, u \in Threads : HoldsScan(t) /\ HoldsScan(u) => t = u
  /\ \A t \in Threads : HoldsScan(t) => scanLock

\* The phase of the current scan and its owner, read off the code's state.
Phase ==
  CASE ~scanLock -> "free"
    [] scanLock /\ ~scanRun -> "on"
    [] OTHER -> IF \E t \in Threads : pc[t] = "init" THEN "taken" ELSE "over"
Owner == IF \E t \in Threads : HoldsScan(t) THEN CHOOSE t \in Threads : HoldsScan(t) ELSE None

Cycle == INSTANCE ScanCycle WITH phase <- Phase, owner <- Owner

\* Scans follow one another, each through its whole cycle: lock, flag, control
\* and hand-over of all threads together implement the cycle of one scan.
FollowsCycle == Cycle!Spec

\* scanOn() tells the truth: it is true from the reset of the results to the
\* end callback of every scan, and never true while no scan has the lock.
ScanOnExact ==
  /\ \A t \in Threads : HoldsScan(t) /\ pc[t] \notin {"init", "release"} => ~scanRun
  /\ ~scanRun => scanLock

\* A thread that waits for the start of its scan is not left waiting: while a
\* starter blocks on _scan_start, or is about to, a listener is on its way to set
\* it.  It need not be the starter's own: a starter that is slow to look finds
\* the event cleared again by the next one (l.894) and returns with the start of
\* that scan, after the end of its own.
StarterNotStranded ==
  \A t \in Threads :
    pc[t] = "blockedStart" \/ (pc[t] = "waitStart" /\ ~scanStart)
      => \E w \in Workers : pc[w] \in {"begin", "start"}

\* The results of a scan only grow until its end callback has run: no other
\* thread resets the device table under a running scan.
ResultsKept ==
  [][(\E t \in Threads : pc[t] \in {"scanning", "ends"}) => devices \subseteq devices']_vars

\* A scan waiting for the devices is not forgotten: while _connect_lock is
\* clear a device is still connected or is being reported.
ConnectLockFreed ==
  ~connectLock =>
    \/ connected # {}
    \/ \E t \in Threads : pc[t] \in {"regDel", "regCheck", "regSet", "visit"}

\* What the code does not recover from: an exception took the thread that held
\* the scan, and the lock stays held.
ScanLost == scanLock /\ \A t \in Threads : ~HoldsScan(t)



\* A periodic scan that one thread starts is carried on by one thread at a time,
\* whoever stops it: the hand-overs from the starter to the listener, the timer
\* and the thread that scans next do not make two of one.  (Two threads that
\* start one together can both pass the test of l.914, and each gets its own.)
OnePeriodicChain == \A t, u \in Threads : Carries(t) /\ Carries(u) => t = u

\* A stopped periodic scan dies out: once _periodic stays false, scans stay off,
\* also where stopScan comes between the creation of a timer and its start.  A
\* lost scan stays on, as far as scanOn can tell.
PeriodicDies == <>[]~periodic => <>[]scanRun \/ <>ScanLost

=============================================================================
