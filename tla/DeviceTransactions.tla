------------------------- MODULE DeviceTransactions -------------------------
(***************************************************************************)
(* The GATT transactions of BLE_Service on BLE_Device objects              *)
(* (BLE-Bluepy/BLE_Client.py): application threads run commands that       *)
(* connect a device or find it connected, use it, and disconnect it or     *)
(* leave it to a keep timer; a timer and a notification listener are       *)
(* threads of their own.  One lock and one event of the device serialise   *)
(* connections and disconnections; initDevConnect replaces both, so they   *)
(* are numbered.  Beside them the scans of ScanService, of which this      *)
(* module sees what they do to devices: the tables of the service are      *)
(* cleared, a device found again is a new object for its address, and a    *)
(* connected one may be closed by force.                                   *)
(***************************************************************************)
EXTENDS Naturals, FiniteSets

CONSTANTS
  Commands,   \* application threads
  Timers,     \* slots for keep timers
  Listeners,  \* slots for notification listeners
  Devs,       \* BLE_Device objects, connectable
  AddrOf,     \* the MAC address each object is created for
  Forces,     \* the values of forceDisconnect the scans use
  Keeps,      \* whether a command may keep the device, or close it at once
  Retries,    \* _defaultRetries
  MaxLocks,   \* bound: no new command once a device has had so many locks
  None

Threads == Commands \cup Timers \cup Listeners

ASSUME ThreadsAssumption ==
  /\ Commands \cap (Timers \cup Listeners) = {}
  /\ Timers \cap Listeners = {}
  /\ None \notin Threads \cup Devs
  /\ Keeps \subseteq BOOLEAN /\ Forces \subseteq BOOLEAN
  /\ Retries \in Nat /\ MaxLocks \in Nat

VARIABLES
  scanOn,      \* _scan_run is clear
  made,        \* the objects created so far
  known,       \* _devices of the service
  connected,   \* devices whose _connected is True
  registry,    \* _connectedDev of the service
  used,        \* devices whose _p is not None
  discovered,  \* devices whose _discovered is True
  lockNo,      \* which of its locks, and events, each device has now
  held,        \* the locks that are held, as <<device, number>>
  cleared,     \* the events that are clear
  lost,        \* (ghost) locks of transactions that no one will end
  keepTimer,   \* _disconnectTimer
  listener,    \* _notifListener
  stopping,    \* listeners whose _stopFlag is True
  pc,          \* control of each thread
  dev,         \* the device it works on
  lockAt,      \* the number of the lock or event it blocks on
  then,        \* where it continues after the lock operation or the join it is in
  tries        \* nbAttempt of devConnect

scan == <<scanOn, made, known>>
device == <<connected, registry, used, discovered>>
mutex == <<lockNo, held, cleared, lost>>
helpers == <<keepTimer, listener, stopping>>
locals == <<dev, lockAt, then, tries>>
vars == <<scan, device, mutex, helpers, pc, locals>>

Home(t) == IF t \in Commands THEN "idle" ELSE "dead"

\* Dictionaries are keyed by address.
SameAddr(o) == {x \in Devs : AddrOf[x] = AddrOf[o]}

Init ==
  /\ scanOn = FALSE /\ made = {} /\ known = {}
  /\ connected = {} /\ registry = {} /\ used = {} /\ discovered = {}
  /\ lockNo = [o \in Devs |-> 0] /\ held = {} /\ cleared = {} /\ lost = {}
  /\ keepTimer = [o \in Devs |-> None] /\ listener = [o \in Devs |-> None] /\ stopping = {}
  /\ pc = [t \in Threads |-> Home(t)]
  /\ dev = [t \in Threads |-> None]
  /\ lockAt = [t \in Threads |-> 0]
  /\ then = [t \in Threads |-> None]
  /\ tries = [t \in Threads |-> 0]

----------------------------------------------------------------------------
(* Control, and the pair of lock and event a device has now *)

Step(t, from, to) == pc[t] = from /\ pc' = [pc EXCEPT ![t] = to]
Now(t) == <<dev[t], lockNo[dev[t]]>>
InProgress(t) == Now(t) \in cleared

\* startTransaction: clear the event, then acquire the lock.
Begin(t, from, next) ==
  /\ Step(t, from, "acquire")
  /\ cleared' = cleared \cup {Now(t)}
  /\ lockAt' = [lockAt EXCEPT ![t] = lockNo[dev[t]]]
  /\ then' = [then EXCEPT ![t] = next]
  /\ UNCHANGED <<scan, lockNo, held, lost>>

\* endTransaction comes next.
EndAfter(t, next) ==
  /\ pc' = [pc EXCEPT ![t] = "release"]
  /\ then' = [then EXCEPT ![t] = next]

\* The control after cancelling the device's timer, which must not have fired.
Cancel(p, o) ==
  [t \in Threads |-> IF t = keepTimer[o] /\ p[t] = "pending" THEN "dead" ELSE p[t]]

Acquire(t) ==
  /\ Step(t, "acquire", then[t])
  /\ <<dev[t], lockAt[t]>> \notin held
  /\ held' = held \cup {<<dev[t], lockAt[t]>>}
  /\ lockAt' = [lockAt EXCEPT ![t] = 0]
  /\ then' = [then EXCEPT ![t] = None]
  /\ UNCHANGED <<scan, device, lockNo, cleared, lost, helpers, dev, tries>>

\* The call is left in its transaction: no endTransaction follows.
Lose(t) ==
  /\ lost' = lost \cup ({Now(t)} \cap held)
  /\ UNCHANGED <<lockNo, held, cleared>>

\* endTransaction: release the lock the device has now ...
Release(t) ==
  /\ Step(t, "release", "set")
  /\ Now(t) \in held
  /\ held' = held \ {Now(t)} /\ lost' = lost \ {Now(t)}
  /\ UNCHANGED <<scan, device, lockNo, cleared, helpers, locals>>

\* ... which raises RuntimeError when it is not held, and ends the command ...
ReleaseRaises(t) ==
  /\ Step(t, "release", Home(t))
  /\ Now(t) \notin held
  /\ then' = [then EXCEPT ![t] = None]
  /\ UNCHANGED <<scan, device, mutex, helpers, dev, lockAt, tries>>

\* (A mutant: endTransaction that forgets the event.)
ReleaseOnly(t) ==
  /\ pc[t] = "set"
  /\ pc' = [pc EXCEPT ![t] = then[t]]
  /\ then' = [then EXCEPT ![t] = None]
  /\ UNCHANGED <<scan, device, mutex, helpers, dev, lockAt, tries>>

\* ... and set its event, which wakes all who wait on it.
SetEvent(t) ==
  /\ pc[t] = "set"
  /\ cleared' = cleared \ {Now(t)}
  /\ pc' = [u \in Threads |->
              IF u = t THEN then[t]
              ELSE IF pc[u] = "blocked" /\ <<dev[u], lockAt[u]>> = Now(t) THEN "claim"
              ELSE pc[u]]
  /\ then' = [then EXCEPT ![t] = None]
  /\ UNCHANGED <<scan, device, lockNo, held, lost, helpers, dev, lockAt, tries>>

----------------------------------------------------------------------------
(* The scans *)

\* _initScan.  (Bound: a scan that could find no new object is not started.)
InitScan ==
  /\ ~scanOn /\ made # Devs
  /\ scanOn' = TRUE
  /\ known' = {}
  /\ registry' = {}
  /\ UNCHANGED <<made, connected, used, discovered, mutex, helpers, pc, locals>>

\* _checkConnected(True), before _initScan or after it: _disconnect() goes by
\* the flag alone, past the lock and the event.
ForceDisconnect(o) ==
  /\ TRUE \in Forces
  /\ o \in registry \cap connected
  /\ connected' = connected \ {o}
  /\ UNCHANGED <<scan, registry, used, discovered, mutex, helpers, pc, locals>>

\* addDevice, the first time an address is seen in a scan.
AddDevice(o) ==
  /\ scanOn /\ o \notin made
  /\ SameAddr(o) \cap known = {}
  /\ made' = made \cup {o}
  /\ known' = known \cup {o}
  /\ UNCHANGED <<scanOn, device, mutex, helpers, pc, locals>>

ScanEnds ==
  /\ scanOn /\ scanOn' = FALSE
  /\ UNCHANGED <<made, known, device, mutex, helpers, pc, locals>>

Scan == InitScan \/ ScanEnds \/ \E o \in Devs : ForceDisconnect(o) \/ AddDevice(o)

----------------------------------------------------------------------------
(* devConnect *)

\* A command for an address found by some scan; it is refused while one is on.
\* Until the tables are looked up, o stands for its address.
Command(t, o) ==
  /\ t \in Commands
  /\ ~scanOn /\ o \in made
  /\ \A x \in SameAddr(o) : lockNo[x] < MaxLocks
  /\ Step(t, "idle", "lookup")
  /\ dev' = [dev EXCEPT ![t] = o]
  /\ tries' = [tries EXCEPT ![t] = 0]
  /\ UNCHANGED <<scan, device, mutex, helpers, lockAt, then>>

Registered(t) == registry \cap SameAddr(dev[t])

\* The device is connected and no transaction is in progress: stop its timer.
LookupFree(t) ==
  /\ pc[t] = "lookup"
  /\ \E r \in Registered(t) :
       /\ <<r, lockNo[r]>> \notin cleared
       /\ dev' = [dev EXCEPT ![t] = r]
       /\ pc' = [Cancel(pc, r) EXCEPT ![t] = "use"]
       /\ keepTimer' = [keepTimer EXCEPT ![r] = None]
  /\ UNCHANGED <<scan, device, mutex, listener, stopping, lockAt, then, tries>>

LookupBusy(t) ==
  /\ Step(t, "lookup", "wait")
  /\ \E r \in Registered(t) :
       <<r, lockNo[r]>> \in cleared /\ dev' = [dev EXCEPT ![t] = r]
  /\ UNCHANGED <<scan, device, mutex, helpers, lockAt, then, tries>>

LookupFails(t) ==
  /\ Step(t, "lookup", "find")
  /\ Registered(t) = {}
  /\ UNCHANGED <<scan, device, mutex, helpers, locals>>

\* transactionInProgress(True, True): wait for the event ...
WaitEvent(t) ==
  /\ Step(t, "wait", IF InProgress(t) THEN "blocked" ELSE "claim")
  /\ lockAt' = [lockAt EXCEPT ![t] = lockNo[dev[t]]]
  /\ UNCHANGED <<scan, device, mutex, helpers, dev, then, tries>>

\* ... then lock the device, and go on to connect it.
Claim(t) ==
  /\ Begin(t, "claim", "find")
  /\ UNCHANGED <<scan, device, helpers, dev, tries>>

\* The object to connect is the one _devices has, which need not be the one just
\* locked: a scan may have replaced it, or dropped it, and then the command fails
\* and leaves the other locked.
Find(t) ==
  /\ Step(t, "find", "connect")
  /\ \E k \in known \cap SameAddr(dev[t]) : dev' = [dev EXCEPT ![t] = k]
  /\ UNCHANGED <<scan, device, mutex, helpers, lockAt, then, tries>>

NotFound(t) ==
  /\ Step(t, "find", "idle")
  /\ known \cap SameAddr(dev[t]) = {}
  /\ UNCHANGED <<scan, device, mutex, helpers, locals>>

\* BLE_Device.connect: an object that has been connected is reset first.
Reset(t) ==
  /\ Step(t, "connect", "begin")
  /\ dev[t] \in used
  /\ discovered' = discovered \ {dev[t]}
  /\ listener' = [listener EXCEPT ![dev[t]] = None]
  /\ keepTimer' = [keepTimer EXCEPT ![dev[t]] = None]
  /\ lockNo' = [lockNo EXCEPT ![dev[t]] = @ + 1]
  /\ UNCHANGED <<scan, connected, registry, used, held, cleared, lost, stopping, locals>>

FirstConnect(t) ==
  /\ Step(t, "connect", "begin")
  /\ dev[t] \notin used
  /\ UNCHANGED <<scan, device, mutex, helpers, locals>>

\* The transaction starts unless one was in progress when the event was tested.
TestConnect(t) ==
  /\ Step(t, "begin", IF InProgress(t) THEN "link" ELSE "startConnect")
  /\ UNCHANGED <<scan, device, mutex, helpers, locals>>

StartConnect(t) ==
  /\ Begin(t, "startConnect", "link")
  /\ UNCHANGED <<scan, device, helpers, dev, tries>>

\* _innerConnect, _connected and devConnected.
Linked(t) ==
  /\ pc[t] = "link"
  /\ used' = used \cup {dev[t]}
  /\ connected' = connected \cup {dev[t]}
  /\ registry' = (registry \ SameAddr(dev[t])) \cup {dev[t]}
  /\ tries' = [tries EXCEPT ![t] = 0]
  /\ EndAfter(t, "use")
  /\ UNCHANGED <<scan, discovered, mutex, helpers, dev, lockAt>>

NotLinked(t) ==
  /\ pc[t] = "link"
  /\ EndAfter(t, "retry")
  /\ UNCHANGED <<scan, device, mutex, helpers, dev, lockAt, tries>>

\* _innerConnect catches BTLEException only: a helper that has died, for one, is a
\* BrokenPipeError, which ends the command with the transaction open.
LinkRaises(t) ==
  /\ Step(t, "link", Home(t))
  /\ Lose(t)
  /\ UNCHANGED <<scan, device, helpers, locals>>

\* (A mutant: one attempt too many.)
RetryOnceMore(t) ==
  /\ Step(t, "retry", IF tries[t] <= Retries THEN "connect" ELSE "idle")
  /\ tries' = [tries EXCEPT ![t] = IF @ <= Retries THEN @ + 1 ELSE 0]
  /\ UNCHANGED <<scan, device, mutex, helpers, dev, lockAt, then>>

Retry(t) ==
  /\ Step(t, "retry", IF tries[t] < Retries THEN "connect" ELSE "idle")
  /\ tries' = [tries EXCEPT ![t] = IF @ < Retries THEN @ + 1 ELSE 0]
  /\ UNCHANGED <<scan, device, mutex, helpers, dev, lockAt, then>>

----------------------------------------------------------------------------
(* The command itself *)

\* devConnectDiscover on a device not discovered yet: discover it, or give up
\* and disconnect it.  A device that is not connected is not discovered.
Discover(t) ==
  /\ Step(t, "use", "operate")
  /\ dev[t] \notin discovered
  /\ discovered' = IF dev[t] \in connected THEN discovered \cup {dev[t]} ELSE discovered
  /\ UNCHANGED <<scan, connected, registry, used, mutex, helpers, locals>>

DiscoverFails(t) ==
  /\ Step(t, "use", "disconnect")
  /\ dev[t] \in connected \ discovered
  /\ UNCHANGED <<scan, device, mutex, helpers, locals>>

\* Exceptions other than BTLEException are not caught in discover.
DiscoverRaises(t) ==
  /\ \/ Step(t, "use", "idle") /\ dev[t] \notin discovered
     \/ Step(t, "discover", "idle")
  /\ dev[t] \in connected
  /\ UNCHANGED <<scan, device, mutex, helpers, locals>>

\* On a discovered one, stop a running listener: set its flag and join it.
StopListening(t, next) ==
  /\ Step(t, "use", IF listener[dev[t]] = None THEN next ELSE "joinFirst")
  /\ then' = IF listener[dev[t]] = None THEN then ELSE [then EXCEPT ![t] = next]
  /\ stopping' = stopping \cup ({listener[dev[t]]} \ {None})
  /\ UNCHANGED <<scan, device, mutex, keepTimer, listener, dev, lockAt, tries>>

Discovered(t) == dev[t] \in discovered /\ StopListening(t, "operate")

\* devGATTDiscover stops the listener of any device ...
GATTDiscover(t) == StopListening(t, "discover")

\* ... discovers it anew, and keeps the device or disconnects it; one that is not
\* connected, or does not have the service asked for, is as discovered as it was.
Rediscover(t, keep) ==
  /\ Step(t, "discover", IF keep THEN "arm" ELSE "disconnect")
  /\ discovered' \in {discovered, discovered \cup ({dev[t]} \cap connected)}
  /\ UNCHANGED <<scan, connected, registry, used, mutex, helpers, locals>>

RediscoverFails(t) ==
  /\ Step(t, "discover", "disconnect")
  /\ dev[t] \in connected
  /\ UNCHANGED <<scan, device, mutex, helpers, locals>>

Ended(o) == listener[o] # None => pc[listener[o]] = "dead"

JoinFirst(t) ==
  /\ Step(t, "joinFirst", then[t])
  /\ listener[dev[t]] # None /\ Ended(dev[t])
  /\ listener' = [listener EXCEPT ![dev[t]] = None]
  /\ then' = [then EXCEPT ![t] = None]
  /\ UNCHANGED <<scan, device, mutex, keepTimer, stopping, dev, lockAt, tries>>

\* stopNotifications raises: a descriptor cannot be written, or the listener
\* was dropped meanwhile.
JoinFirstFails(t) ==
  /\ Step(t, "joinFirst", "idle")
  /\ Ended(dev[t])
  /\ then' = [then EXCEPT ![t] = None]
  /\ UNCHANGED <<scan, device, mutex, helpers, dev, lockAt, tries>>

\* allowNotifications starts a listener; it always keeps the device.
Notify(t, l) ==
  /\ pc[t] = "operate"
  /\ dev[t] \in discovered
  /\ listener[dev[t]] = None
  /\ TRUE \in Keeps
  /\ l \in Listeners /\ pc[l] = "dead"
  /\ listener' = [listener EXCEPT ![dev[t]] = l]
  /\ stopping' = stopping \ {l}
  /\ dev' = [dev EXCEPT ![l] = dev[t]]
  /\ pc' = [pc EXCEPT ![t] = "arm", ![l] = "listen"]
  /\ UNCHANGED <<scan, device, mutex, keepTimer, lockAt, then, tries>>

\* Reads and writes leave no trace; then keep the device or disconnect it.
ReadWrite(t, keep) ==
  /\ Step(t, "operate", IF keep THEN "arm" ELSE "disconnect")
  /\ dev[t] \in discovered
  /\ UNCHANGED <<scan, device, mutex, helpers, locals>>

\* A device that is not discovered has no channels, a characteristic may be missing,
\* and the search for the descriptor that allows notifications may fail: the
\* command raises, and leaves a connected device without a keep timer.
OperateRaises(t) ==
  /\ Step(t, "operate", "idle")
  /\ UNCHANGED <<scan, device, mutex, helpers, locals>>

\* armDisconnectTimer cancels the timer the device has and starts a new one.  (Bound: it
\* takes the slot of a thread that has ended, will never return, or waits for a lock
\* that is lost.)
Spare(p, w) ==
  p[w] \in {"dead", "hung"} \/ (p[w] = "acquire" /\ <<dev[w], lockAt[w]>> \in lost)

Arm(t, w, next) ==
  /\ w \in Timers /\ Spare(Cancel(pc, dev[t]), w)
  /\ pc' = [Cancel(pc, dev[t]) EXCEPT ![t] = next, ![w] = "pending"]
  /\ keepTimer' = [keepTimer EXCEPT ![dev[t]] = w]
  /\ dev' = [dev EXCEPT ![w] = dev[t]]
  /\ UNCHANGED <<scan, device, mutex, listener, stopping, lockAt, then, tries>>

ArmKeep(t, w) == pc[t] = "arm" /\ Arm(t, w, "idle")

----------------------------------------------------------------------------
(* BLE_Device.disconnect, of commands and timers *)

TestConnected(t) ==
  /\ Step(t, "disconnect", IF dev[t] \in connected THEN "startClose" ELSE Home(t))
  /\ UNCHANGED <<scan, device, mutex, helpers, locals>>

StartClose(t) ==
  /\ Begin(t, "startClose", "close")
  /\ UNCHANGED <<scan, device, helpers, dev, tries>>

\* Cancel the timer, tell the listener to stop, and close the link ...
CloseLink(t, to) ==
  /\ pc[t] = "close"
  /\ pc' = [Cancel(pc, dev[t]) EXCEPT ![t] = to]
  /\ stopping' = stopping \cup ({listener[dev[t]]} \ {None})
  /\ UNCHANGED <<scan, device, keepTimer, listener, locals>>

Close(t) == CloseLink(t, "join") /\ UNCHANGED mutex

\* ... which raises when the helper has died, or waits for ever for the answer of a
\* helper that is not connected: the transaction stays open.
CloseBreaks(t, to) ==
  /\ to \in {Home(t), "hung"}
  /\ CloseLink(t, to) /\ Lose(t)

\* (A mutant: devDisconnected lets the KeyError of a missing entry through.)
ClosedOrRaises(t) ==
  /\ pc[t] = "join"
  /\ Ended(dev[t])
  /\ connected' = connected \ {dev[t]}
  /\ registry' = registry \ SameAddr(dev[t])
  /\ listener' = [listener EXCEPT ![dev[t]] = None]
  /\ keepTimer' = [keepTimer EXCEPT ![dev[t]] = None]
  /\ \/ Registered(t) # {} /\ EndAfter(t, Home(t))
     \/ Registered(t) = {} /\ pc' = [pc EXCEPT ![t] = Home(t)] /\ UNCHANGED then
  /\ UNCHANGED <<scan, used, discovered, mutex, stopping, dev, lockAt, tries>>

\* Join the listener; devDisconnected, by the address.
Closed(t) ==
  /\ pc[t] = "join"
  /\ Ended(dev[t])
  /\ connected' = connected \ {dev[t]}
  /\ registry' = registry \ SameAddr(dev[t])
  /\ listener' = [listener EXCEPT ![dev[t]] = None]
  /\ keepTimer' = [keepTimer EXCEPT ![dev[t]] = None]
  /\ EndAfter(t, Home(t))
  /\ UNCHANGED <<scan, used, discovered, mutex, stopping, dev, lockAt, tries>>

----------------------------------------------------------------------------
(* The keep timer and the notification listener *)

Expire(w) ==
  /\ Step(w, "pending", "fired")
  /\ UNCHANGED <<scan, device, mutex, helpers, locals>>

\* disconnectTimeout gives up when a transaction is in progress.
Fired(w) ==
  /\ Step(w, "fired", IF InProgress(w) THEN "dead" ELSE "disconnect")
  /\ keepTimer' = [keepTimer EXCEPT ![dev[w]] = None]
  /\ UNCHANGED <<scan, device, mutex, listener, stopping, locals>>

\* A notification re-arms the keep timer.
Notified(l, w) == pc[l] = "listen" /\ Arm(l, w, "listen")

ListenerStops(l) ==
  /\ Step(l, "listen", "dead")
  /\ l \in stopping
  /\ UNCHANGED <<scan, device, mutex, helpers, locals>>

\* BTLEException out of waitForNotifications.
ListenerFails(l) ==
  /\ Step(l, "listen", "dead")
  /\ UNCHANGED <<scan, device, mutex, helpers, locals>>

----------------------------------------------------------------------------
Proceed(t) ==
  \/ Release(t) \/ ReleaseRaises(t) \/ SetEvent(t)
  \/ LookupFree(t) \/ LookupBusy(t) \/ LookupFails(t) \/ WaitEvent(t) \/ Claim(t)
  \/ Find(t) \/ NotFound(t)
  \/ Reset(t) \/ FirstConnect(t) \/ TestConnect(t) \/ StartConnect(t)
  \/ Linked(t) \/ NotLinked(t) \/ LinkRaises(t) \/ Retry(t)
  \/ Discover(t) \/ DiscoverFails(t) \/ DiscoverRaises(t) \/ Discovered(t) \/ JoinFirst(t) \/ JoinFirstFails(t)
  \/ GATTDiscover(t) \/ RediscoverFails(t)
  \/ \E keep \in Keeps : Rediscover(t, keep)
  \/ \E l \in Listeners : Notify(t, l)
  \/ \E keep \in Keeps : ReadWrite(t, keep)
  \/ OperateRaises(t)
  \/ \E w \in Timers : ArmKeep(t, w)
  \/ TestConnected(t) \/ StartClose(t) \/ Close(t) \/ Closed(t)
  \/ \E to \in {"idle", "dead", "hung"} : CloseBreaks(t, to)
  \/ Expire(t) \/ Fired(t) \/ ListenerStops(t)

Next ==
  \/ Scan
  \/ \E t \in Threads :
       \/ Proceed(t) \/ Acquire(t) \/ ListenerFails(t)
       \/ \E o \in Devs : Command(t, o)
       \/ \E w \in Timers : Notified(t, w)

Spec == Init /\ [][Next]_vars

\* The scheduler runs every thread, a timer expires, a listener polls its flag,
\* and a lock wanted for ever is granted in the end.
Fairness == \A t \in Threads : WF_vars(Proceed(t)) /\ SF_vars(Acquire(t))
FairSpec == Spec /\ Fairness

----------------------------------------------------------------------------
(* Properties *)

Labels ==
  {"idle", "dead", "acquire", "release", "set", "lookup", "wait", "blocked", "claim", "find",
   "connect", "begin", "startConnect", "link", "retry", "use", "joinFirst", "discover", "operate", "arm",
   "disconnect", "startClose", "close", "join", "hung", "pending", "fired", "listen"}

\* Types of the devices' attributes and of the threads' control.
TypeOK ==
  /\ scanOn \in BOOLEAN /\ made \subseteq Devs /\ known \subseteq made
  /\ connected \subseteq Devs /\ registry \subseteq Devs
  /\ used \subseteq Devs /\ discovered \subseteq Devs
  /\ lockNo \in [Devs -> Nat]
  /\ held \subseteq Devs \X Nat /\ cleared \subseteq Devs \X Nat /\ lost \subseteq held
  /\ keepTimer \in [Devs -> Timers \cup {None}]
  /\ listener \in [Devs -> Listeners \cup {None}]
  /\ stopping \subseteq Listeners
  /\ pc \in [Threads -> Labels]
  /\ dev \in [Threads -> Devs \cup {None}]
  /\ lockAt \in [Threads -> Nat]
  /\ then \in [Threads -> Labels \cup {None}]
  /\ tries \in [Threads -> 0..Retries]

\* A known device that no thread works on can be used: whatever scans dropped and
\* found again, and whatever failed or was given up on the way, the lock and the event
\* it has now are free, so that the next devConnect or disconnect does not block
\* (l.434-453), unless its last transaction was left open: by an exception of the
\* helper's that connect or disconnect do not catch (l.278, l.351), or by a disconnect
\* that never returns.  (Of a device that is registered only, it is not so: a command
\* that waited for its transaction locks it, and returns when a scan has emptied
\* _devices meanwhile, l.1153.)
AtRest(t) == pc[t] \in {"idle", "dead", "pending", "listen"}
QuietIsFree ==
  \A o \in known :
    (\A t \in Threads : dev[t] = o => AtRest(t)) =>
      <<o, lockNo[o]>> \notin (held \ lost) \cup (cleared \ lost)

\* Every command of one application thread returns to its caller, among keep timers,
\* retries and scans (devConnect waits for a transaction in progress and locks the
\* device, l.1140-1144), unless it never comes back from the helper (l.351), or it waits
\* for the event or the lock of a transaction that was left open.
CommandsReturn ==
  \A t \in Commands :
    pc[t] # "idle" ~> pc[t] \in {"idle", "hung"} \/ <<dev[t], lockAt[t]>> \in lost
=============================================================================
