------------------------- MODULE ScanServiceProofs -------------------------
(***************************************************************************)
(* Proofs about ScanService for any sets of threads and devices.           *)
(***************************************************************************)
EXTENDS ScanService, FiniteSetTheorems, TLAPS

\* The labels reached from _checkConnected, _initScan and _startScan are labels.
LEMMA AfterLabels ==
  ASSUME NEW t
  PROVE  /\ AfterCheck(t) \in {"start", "spawn", "acquire"}
         /\ AfterInit(t) \in {"spawn", "check"}
         /\ AfterStart(t) \subseteq {"scanning", "dead", "ends"}
         /\ Home(t) \in {"dead", "idle"}
  BY DEF AfterCheck, AfterInit, AfterStart, Home

\* What the three wake-ups do to the control: only a blocked thread moves, to
\* the place where its wait() returns.
LEMMA WakeConnect ==
  ASSUME pc \in [Threads -> Labels]
  PROVE  LET q == Wake(pc, "blockedConnect", AfterCheck)
         IN  /\ q \in [Threads -> Labels]
             /\ \A t \in Threads : \/ pc[t] # "blockedConnect" /\ q[t] = pc[t]
                                   \/ pc[t] = "blockedConnect" /\ q[t] = AfterCheck(t)
  <1>1. \A t \in Threads : AfterCheck(t) \in Labels
    BY AfterLabels DEF Labels
  <1>2. Wake(pc, "blockedConnect", AfterCheck) \in [Threads -> Labels]
    BY <1>1 DEF Wake
  <1>3. ASSUME NEW t \in Threads
        PROVE  Wake(pc, "blockedConnect", AfterCheck)[t] =
                 IF pc[t] = "blockedConnect" THEN AfterCheck(t) ELSE pc[t]
    BY DEF Wake
  <1>4. QED  BY <1>2, <1>3

LEMMA WakeStart ==
  ASSUME pc \in [Threads -> Labels]
  PROVE  LET q == Wake(Wake(pc, "blockedStart", LAMBDA u : "return"),
                       "blockedConnect", AfterCheck)
         IN  /\ q \in [Threads -> Labels]
             /\ \A t \in Threads :
                  \/ pc[t] \notin {"blockedStart", "blockedConnect"} /\ q[t] = pc[t]
                  \/ pc[t] = "blockedStart" /\ q[t] = "return"
                  \/ pc[t] = "blockedConnect" /\ q[t] = AfterCheck(t)
  <1>1. \A t \in Threads : AfterCheck(t) \in Labels
    BY AfterLabels DEF Labels
  <1>2. QED  BY <1>1 DEF Wake, Labels

LEMMA WakeRun ==
  ASSUME pc \in [Threads -> Labels]
  PROVE  LET q == Wake(pc, "blockedRun", Home)
         IN  /\ q \in [Threads -> Labels]
             /\ \A t \in Threads : \/ pc[t] # "blockedRun" /\ q[t] = pc[t]
                                   \/ pc[t] = "blockedRun" /\ q[t] = Home(t)
  <1>1. \A t \in Threads : Home(t) \in Labels
    BY AfterLabels DEF Labels
  <1>2. Wake(pc, "blockedRun", Home) \in [Threads -> Labels]
    BY <1>1 DEF Wake
  <1>3. ASSUME NEW t \in Threads
        PROVE  Wake(pc, "blockedRun", Home)[t] =
                 IF pc[t] = "blockedRun" THEN Home(t) ELSE pc[t]
    BY DEF Wake
  <1>4. QED  BY <1>2, <1>3

\* The number of connected devices is a number.
LEMMA ConnectedDevCount ==
  ASSUME connectedDev \subseteq Objs
  PROVE  Cardinality(connectedDev) \in Nat
  BY ThreadsAssumption, FS_Subset, FS_CardinalityType

----------------------------------------------------------------------------
(* Type correctness *)

LEMMA InitTypeOK == Init => TypeOK
  <1> SUFFICES ASSUME Init PROVE TypeOK
    OBVIOUS
  <1>1. pc \in [Threads -> Labels]
    BY DEF Init, Labels
  <1>2. call \in [Threads -> [fn : Functions, force : BOOLEAN]]
    BY DEF Init, NoCall, Functions
  <1>3. loop \in [Threads -> [left : SUBSET Objs, size : Nat]]
    BY DEF Init, NoLoop
  <1>4. obj \in [Threads -> Objs \cup {None}]
    BY DEF Init
  <1>5. \A t \in Threads : pc[t] \in {"dead", "idle"}
    BY DEF Init
  <1>6. QED  BY <1>1, <1>2, <1>3, <1>4, <1>5 DEF Init, TypeOK

LEMMA EntryTypeOK ==
  ASSUME TypeOK, NEW t \in Threads, Entry(t) PROVE TypeOK'
  <1> USE DEF TypeOK
  <1>1. ASSUME NEW op \in {"scanSynch", "scanAsynch", "startScan"}, NEW d \in Forces, CallScan(t, op, d)
        PROVE  TypeOK'
    BY <1>1, ThreadsAssumption
    DEF CallScan, Call, Enter, Goto, Labels, Functions, events, service, registry
  <1>2. ASSUME CallStartPeriodicScan(t) PROVE TypeOK'
    BY <1>2 DEF CallStartPeriodicScan, Call, Goto, Labels, events, service, registry, locals
  <1>3. ASSUME CallStopScan(t) PROVE TypeOK'
    BY <1>3 DEF CallStopScan, Call, Goto, Labels, events, service, registry, locals
  <1>4. ASSUME ScanEndWait(t) PROVE TypeOK'
    BY <1>4 DEF ScanEndWait, Call, Goto, Labels, events, service, registry, locals
  <1>5. QED  BY <1>1, <1>2, <1>3, <1>4 DEF Entry

LEMMA ProceedTypeOK ==
  ASSUME TypeOK, NEW t \in Threads, Proceed(t) PROVE TypeOK'
  <1> USE AfterLabels DEF TypeOK, Labels, Step, Goto, events, service, registry, locals
  <1>1. ASSUME AcquireScanLock(t) PROVE TypeOK'
    BY <1>1 DEF AcquireScanLock
  <1>2. ASSUME InitScan(t) PROVE TypeOK'
    BY <1>2 DEF InitScan
  <1>3. ASSUME CheckWait(t) PROVE TypeOK'
    BY <1>3 DEF CheckWait
  <1>4. ASSUME CheckForce(t) PROVE TypeOK'
    BY <1>4, ConnectedDevCount DEF CheckForce
  <1>5. ASSUME ForceDone(t) PROVE TypeOK'
    <2> DEFINE q == Wake(pc, "blockedConnect", AfterCheck)
    <2>1. pc' = [q EXCEPT ![t] = AfterCheck(t)]
      BY <1>5 DEF ForceDone
    <2>2. /\ q \in [Threads -> Labels]
          /\ \A u \in Threads : q[u] = pc[u] \/ q[u] \in {"start", "spawn", "acquire", "return"}
      BY WakeConnect, AfterLabels
    <2> HIDE DEF q
    <2>3. /\ pc' \in [Threads -> Labels]
          /\ \A u \in Threads \ {t} : pc'[u] = pc[u] \/ pc'[u] \in {"start", "spawn", "acquire", "return"}
          /\ pc'[t] \in {"start", "spawn", "acquire", "scanning", "dead", "ends", "idle"}
      BY <2>1, <2>2, AfterLabels
    <2>4. QED  BY <1>5, <2>3, ZenonT(40) DEF ForceDone, NoLoop
  <1>6. ASSUME ForceRaises(t) PROVE TypeOK'
    BY <1>6 DEF ForceRaises, Leave, NoLoop, NoCall, Functions
  <1>7. ASSUME NEW o \in Objs, ForceDisconnect(t, o) PROVE TypeOK'
    BY <1>7 DEF ForceDisconnect
  <1>8. ASSUME NEW w \in Workers, Spawn(t, w) PROVE TypeOK'
    BY <1>8, ZenonT(40) DEF Spawn, Functions, Threads
  <1>9. ASSUME NEW w \in Workers, CreateTimer(t, w) PROVE TypeOK'
    BY <1>9 DEF CreateTimer, Threads
  <1>10. ASSUME WaitStart(t) PROVE TypeOK'
    BY <1>10 DEF WaitStart
  <1>11. ASSUME Return(t) PROVE TypeOK'
    BY <1>11 DEF Return, Leave, NoCall, Functions
  <1>12. ASSUME StopListener(t) \/ StopPeriodic(t) \/ ClearPeriodic(t) \/ StopBreath(t) PROVE TypeOK'
    <2>1. ASSUME StopListener(t) PROVE TypeOK'
      <3>1. stopFlag' \in BOOLEAN
        BY <2>1, ThreadsAssumption DEF StopListener
      <3>2. \E l \in {"idle", "stopPeriodic"} : pc' = [pc EXCEPT ![t] = l]
        BY <2>1 DEF StopListener
      <3>3. QED  BY <2>1, <3>1, <3>2 DEF StopListener
    <2>2. ASSUME StopPeriodic(t) PROVE TypeOK'
      BY <2>2 DEF StopPeriodic
    <2>3. ASSUME ClearPeriodic(t) PROVE TypeOK'
      BY <2>3 DEF ClearPeriodic
    <2>4. ASSUME StopBreath(t) PROVE TypeOK'
      BY <2>4 DEF StopBreath
    <2>5. QED  BY <1>12, <2>1, <2>2, <2>3, <2>4
  <1>13. ASSUME Begin(t) PROVE TypeOK'
    BY <1>13 DEF Begin
  <1>14. ASSUME StartScan(t) PROVE TypeOK'
    <2> DEFINE q == Wake(Wake(pc, "blockedStart", LAMBDA u : "return"),
                       "blockedConnect", AfterCheck)
    <2>1. \E next \in AfterStart(t) : pc' = [q EXCEPT ![t] = next]
      BY <1>14 DEF StartScan
    <2>2. /\ q \in [Threads -> Labels]
          /\ \A u \in Threads : q[u] = pc[u] \/ q[u] \in {"start", "spawn", "acquire", "return"}
      BY WakeStart, AfterLabels
    <2> HIDE DEF q
    <2>3. /\ pc' \in [Threads -> Labels]
          /\ \A u \in Threads \ {t} : pc'[u] = pc[u] \/ pc'[u] \in {"start", "spawn", "acquire", "return"}
          /\ pc'[t] \in {"start", "spawn", "acquire", "scanning", "dead", "ends", "idle"}
      BY <2>1, <2>2, AfterLabels
    <2>4. QED  BY <1>14, <2>3, ZenonT(40) DEF StartScan
  <1>15. ASSUME SetScanRun(t) PROVE TypeOK'
    BY <1>15, WakeRun, ZenonT(40) DEF SetScanRun
  <1>16. ASSUME ReleaseScanLock(t) PROVE TypeOK'
    BY <1>16 DEF ReleaseScanLock
  <1>17. ASSUME NotPeriodic(t) PROVE TypeOK'
    BY <1>17 DEF NotPeriodic, Leave, NoCall, Functions
  <1>18. ASSUME ScanAgain(t) PROVE TypeOK'
    BY <1>18 DEF ScanAgain, Enter, Functions
  <1>19. ASSUME PeriodTime(t) PROVE TypeOK'
    BY <1>19 DEF PeriodTime, Enter, Functions
  <1>20. ASSUME CancelTimer(t) PROVE TypeOK'
    BY <1>20 DEF CancelTimer
  <1>21. ASSUME StartTimer(t) PROVE TypeOK'
    BY <1>21 DEF StartTimer, NoCall, Functions
  <1>22. ASSUME SetPeriodic(t) \/ Again(t) PROVE TypeOK'
    BY <1>22 DEF SetPeriodic, Again
  <1>23. ASSUME NEW b \in BOOLEAN, SetBreath(t, b) PROVE TypeOK'
    BY <1>23 DEF SetBreath, Enter, Functions
  <1>24. QED
    BY <1>1, <1>2, <1>3, <1>4, <1>5, <1>6, <1>7, <1>8, <1>9, <1>10, <1>11, <1>12, <1>13,
       <1>14, <1>15, <1>16, <1>17, <1>18, <1>19, <1>20, <1>21, <1>22, <1>23 DEF Proceed

LEMMA DeviceTypeOK ==
  ASSUME TypeOK, NEW t \in Threads, Device(t) PROVE TypeOK'
  <1> USE DEF TypeOK, Labels, Step, Goto, Take, Drop, events, service, registry, locals
  <1>1. ASSUME NEW o \in Objs, ConnectBegins(t, o) PROVE TypeOK'
    BY <1>1 DEF ConnectBegins
  <1>2. ASSUME NEW o \in Objs, DisconnectBegins(t, o) PROVE TypeOK'
    BY <1>2 DEF DisconnectBegins
  <1>3. ASSUME ConnectFails(t) PROVE TypeOK'
    BY <1>3 DEF ConnectFails
  <1>4. ASSUME ConnectDone(t) PROVE TypeOK'
    BY <1>4 DEF ConnectDone
  <1>5. ASSUME RegClear(t) PROVE TypeOK'
    BY <1>5 DEF RegClear
  <1>6. ASSUME RegAdd(t) PROVE TypeOK'
    BY <1>6 DEF RegAdd
  <1>7. ASSUME RegDel(t) PROVE TypeOK'
    BY <1>7 DEF RegDel
  <1>8. ASSUME RegCheck(t) PROVE TypeOK'
    BY <1>8 DEF RegCheck
  <1>9. ASSUME RegSet(t) PROVE TypeOK'
    <2> DEFINE q == Wake(pc, "blockedConnect", AfterCheck)
    <2>1. pc' = [q EXCEPT ![t] = "idle"]
      BY <1>9 DEF RegSet
    <2>2. /\ q \in [Threads -> Labels]
          /\ \A u \in Threads : q[u] = pc[u] \/ q[u] \in {"start", "spawn", "acquire", "return"}
      BY WakeConnect, AfterLabels
    <2> HIDE DEF q
    <2>3. /\ pc' \in [Threads -> Labels]
          /\ \A u \in Threads \ {t} : pc'[u] = pc[u] \/ pc'[u] \in {"start", "spawn", "acquire", "return"}
          /\ pc'[t] = "idle"
      BY <2>1, <2>2
    <2>4. QED  BY <1>9, <2>3, ZenonT(40) DEF RegSet
  <1>10. QED
    BY <1>1, <1>2, <1>3, <1>4, <1>5, <1>6, <1>7, <1>8, <1>9 DEF Device, Report

\* The steps of a keep timer that is lost or armed again touch nothing else.
TimerLost == \E o \in Objs : LoseTimer(o) \/ ArmTimer(o)
Kept == <<events, service, devices, connectedDev, connected, pc, locals>>

LEMMA TimerLostKeeps == TimerLost => UNCHANGED Kept
  BY DEF TimerLost, LoseTimer, ArmTimer, Kept

LEMMA StutterKeeps == UNCHANGED vars => UNCHANGED Kept
  BY DEF vars, registry, Kept

\* The service's attributes and the threads' control keep their types.
THEOREM ScanTyping == Spec => []TypeOK
  <1>1. TypeOK /\ [Next]_vars => TypeOK'
    <2> SUFFICES ASSUME TypeOK, [Next]_vars PROVE TypeOK'
      OBVIOUS
    <2>1. ASSUME NEW t \in Threads, ScanOver(t) PROVE TypeOK'
      BY <2>1 DEF ScanOver, TypeOK, Labels, Step, Goto, events, service, registry, locals
    <2>2. ASSUME NEW t \in Threads, NEW o \in Objs, AddDevice(t, o) PROVE TypeOK'
      BY <2>2 DEF AddDevice, TypeOK, events, service, locals
    <2>3. CASE UNCHANGED vars
      BY <2>3 DEF vars, events, service, registry, locals, TypeOK
    <2>4. ASSUME NEW t \in Threads, ScanRaises(t) PROVE TypeOK'
      BY <2>4, AfterLabels
      DEF ScanRaises, TypeOK, Labels, Leave, Goto, NoCall, Functions, events, service, registry
    <2>5. CASE TimerLost
      BY <2>5 DEF TimerLost, LoseTimer, ArmTimer, TypeOK, events, service, locals
    <2>6. QED
      BY <2>1, <2>2, <2>3, <2>4, <2>5, EntryTypeOK, ProceedTypeOK, DeviceTypeOK DEF Next, TimerLost
  <1>2. QED  BY InitTypeOK, <1>1, PTL DEF Spec

----------------------------------------------------------------------------
(* A timer that can be cancelled has not fired: stopScan ends no other thread. *)

TimerLabels == {"created", "cancelled", "timer"}
TimerPending == timer # None => pc[timer] \in TimerLabels

\* Most steps leave the timers alone.
KeepsTimer ==
  timer' = timer /\ \A u \in Threads : pc[u] \in TimerLabels => pc'[u] = pc[u]

LEMMA KeptTimer ==
  ASSUME TypeOK, TimerPending, KeepsTimer PROVE TimerPending'
  BY DEF TypeOK, TimerPending, KeepsTimer, Threads

LEMMA OutsideKeepsTimer ==
  ASSUME TypeOK, NEW t \in Threads, Entry(t) \/ Device(t) PROVE KeepsTimer
  <1> USE DEF TypeOK, KeepsTimer, TimerLabels, Call, Enter, Step, Goto, Take
  <1>1. CASE Entry(t)
    BY <1>1 DEF Entry, CallScan, CallStartPeriodicScan, CallStopScan, ScanEndWait, service
  <1>2. CASE \E o \in Objs : ConnectBegins(t, o) \/ DisconnectBegins(t, o)
    BY <1>2 DEF ConnectBegins, DisconnectBegins, service
  <1>3. CASE ConnectFails(t) \/ ConnectDone(t) \/ RegClear(t) \/ RegAdd(t) \/ RegDel(t) \/ RegCheck(t)
    BY <1>3 DEF ConnectFails, ConnectDone, RegClear, RegAdd, RegDel, RegCheck, service
  <1>4. CASE RegSet(t)
    <2> DEFINE q == Wake(pc, "blockedConnect", AfterCheck)
    <2>1. pc' = [q EXCEPT ![t] = "idle"] /\ pc[t] = "regSet"
      BY <1>4 DEF RegSet
    <2>2. /\ q \in [Threads -> Labels]
          /\ \A u \in Threads : pc[u] \in TimerLabels => q[u] = pc[u]
      BY WakeConnect
    <2> HIDE DEF q
    <2>3. QED  BY <1>4, <2>1, <2>2 DEF RegSet, service
  <1>5. QED  BY <1>1, <1>2, <1>3, <1>4 DEF Device, Report

LEMMA ProceedTimer ==
  ASSUME TypeOK, TimerPending, NEW t \in Threads, Proceed(t) PROVE TimerPending'
  <1> USE DEF TypeOK, KeepsTimer, TimerLabels, Enter, Step, Goto
  <1>1. ASSUME AcquireScanLock(t) \/ InitScan(t) \/ CheckWait(t) \/ CheckForce(t) PROVE KeepsTimer
    BY <1>1 DEF AcquireScanLock, InitScan, CheckWait, CheckForce, service
  <1>2. ASSUME ForceDone(t) PROVE KeepsTimer
    <2> DEFINE q == Wake(pc, "blockedConnect", AfterCheck)
    <2>1. pc' = [q EXCEPT ![t] = AfterCheck(t)] /\ pc[t] = "visit"
      BY <1>2 DEF ForceDone
    <2>2. /\ q \in [Threads -> Labels]
          /\ \A u \in Threads : pc[u] \in TimerLabels => q[u] = pc[u]
      BY WakeConnect
    <2> HIDE DEF q
    <2>3. QED  BY <1>2, <2>1, <2>2 DEF ForceDone, service
  <1>3. ASSUME ForceRaises(t) PROVE KeepsTimer
    BY <1>3 DEF ForceRaises, Leave, service
  <1>4. ASSUME NEW o \in Objs, ForceDisconnect(t, o) PROVE KeepsTimer
    BY <1>4 DEF ForceDisconnect, service
  <1>5. ASSUME NEW w \in Workers, Spawn(t, w) PROVE KeepsTimer
    BY <1>5 DEF Spawn, Free
  <1>6. ASSUME WaitStart(t) \/ Return(t) \/ Begin(t) PROVE KeepsTimer
    BY <1>6 DEF WaitStart, Return, Begin, Leave, service
  <1>7. ASSUME StartScan(t) PROVE KeepsTimer
    <2> DEFINE q == Wake(Wake(pc, "blockedStart", LAMBDA u : "return"),
                         "blockedConnect", AfterCheck)
    <2>1. (\E next \in AfterStart(t) : pc' = [q EXCEPT ![t] = next]) /\ pc[t] = "start"
      BY <1>7 DEF StartScan
    <2>2. /\ q \in [Threads -> Labels]
          /\ \A u \in Threads : pc[u] \in TimerLabels => q[u] = pc[u]
      BY WakeStart
    <2> HIDE DEF q
    <2>3. QED  BY <1>7, <2>1, <2>2 DEF StartScan, service
  <1>8. ASSUME SetScanRun(t) PROVE KeepsTimer
    BY <1>8, WakeRun DEF SetScanRun, service
  <1>9. ASSUME ReleaseScanLock(t) \/ NotPeriodic(t) \/ Again(t) \/ ScanAgain(t) PROVE KeepsTimer
    BY <1>9 DEF ReleaseScanLock, NotPeriodic, Again, ScanAgain, Leave, service
  <1>10. ASSUME NEW w \in Workers, CreateTimer(t, w) PROVE TimerPending'
    BY <1>10 DEF CreateTimer, Free, TimerPending, Threads
  <1>11. ASSUME PeriodTime(t) PROVE TimerPending'
    BY <1>11 DEF PeriodTime, TimerPending, Threads
  <1>12. ASSUME CancelTimer(t) PROVE TimerPending'
    BY <1>12, ThreadsAssumption DEF CancelTimer, TimerPending, Threads
  <1>13. ASSUME StartTimer(t) PROVE TimerPending'
    BY <1>13, ThreadsAssumption DEF StartTimer, TimerPending, Threads
  <1>14. ASSUME \/ SetPeriodic(t) \/ \E b \in BOOLEAN : SetBreath(t, b)
                \/ StopListener(t) \/ StopPeriodic(t) \/ ClearPeriodic(t) \/ StopBreath(t)
         PROVE  KeepsTimer
    BY <1>14 DEF SetPeriodic, SetBreath, StopListener, StopPeriodic, ClearPeriodic, StopBreath,
       service
  <1>15. QED
    BY <1>1, <1>2, <1>3, <1>4, <1>5, <1>6, <1>7, <1>8, <1>9, <1>10, <1>11, <1>12, <1>13, <1>14,
       KeptTimer
    DEF Proceed

LEMMA TimerInductive ==
  /\ Init => TimerPending
  /\ TypeOK /\ TimerPending /\ [Next]_vars => TimerPending'
  <1>1. Init => TimerPending
    BY DEF Init, TimerPending
  <1>2. ASSUME TypeOK, TimerPending, [Next]_vars PROVE TimerPending'
    <2>1. ASSUME NEW t \in Threads, ScanOver(t) PROVE KeepsTimer
      BY <1>2, <2>1 DEF ScanOver, Step, Goto, TypeOK, KeepsTimer, TimerLabels, service
    <2>2. ASSUME NEW t \in Threads, NEW o \in Objs, AddDevice(t, o) PROVE KeepsTimer
      BY <2>2 DEF AddDevice, KeepsTimer, service
    <2>3. ASSUME UNCHANGED Kept PROVE KeepsTimer
      BY <2>3 DEF Kept, service, KeepsTimer
    <2>4. ASSUME NEW t \in Threads, ScanRaises(t) PROVE KeepsTimer
      BY <1>2, <2>4 DEF ScanRaises, Leave, Goto, TypeOK, KeepsTimer, TimerLabels, service
    <2>5. QED
      BY <1>2, <2>1, <2>2, <2>3, <2>4, TimerLostKeeps, StutterKeeps, OutsideKeepsTimer,
         ProceedTimer, KeptTimer
      DEF Next, TimerLost
  <1>3. QED  BY <1>1, <1>2

----------------------------------------------------------------------------
(* One scan at a time.  ScanExclusion alone is inductive; ScanOnExact also *)
(* needs that _scan_run is set at both ends of the section.                *)

SetOutside == \A t \in Threads : pc[t] \in {"init", "release"} => scanRun
ScanInv == ScanExclusion /\ ScanOnExact /\ SetOutside

\* Most steps are quiet: they leave lock and flag alone, give the scan to no
\* thread, and move none in or out of the labels where the flag is set.
Quiet ==
  /\ scanLock' = scanLock /\ scanRun' = scanRun
  /\ \A u \in Threads :
       /\ HoldsScan(u)' => HoldsScan(u)
       /\ pc'[u] = "init" <=> pc[u] = "init"
       /\ pc'[u] = "release" <=> pc[u] = "release"

LEMMA EntryQuiet ==
  ASSUME TypeOK, NEW t \in Threads, Entry(t) PROVE Quiet
  <1>1. scanLock' = scanLock /\ scanRun' = scanRun
    BY DEF Entry, CallScan, CallStartPeriodicScan, CallStopScan, ScanEndWait, events
  <1>2. ASSUME NEW u \in Threads
        PROVE  /\ HoldsScan(u)' => HoldsScan(u)
               /\ pc'[u] = "init" <=> pc[u] = "init"
               /\ pc'[u] = "release" <=> pc[u] = "release"
    <2>1. CASE \E op \in {"scanSynch", "scanAsynch", "startScan"}, d \in Forces : CallScan(t, op, d)
      BY <2>1 DEF CallScan, Call, Enter, Goto, HoldsScan, TypeOK
    <2>2. CASE CallStartPeriodicScan(t)
      BY <2>2 DEF CallStartPeriodicScan, Call, Goto, HoldsScan, TypeOK, locals
    <2>3. CASE CallStopScan(t)
      BY <2>3 DEF CallStopScan, Call, Goto, HoldsScan, TypeOK, locals
    <2>4. CASE ScanEndWait(t)
      BY <2>4 DEF ScanEndWait, Call, Goto, HoldsScan, TypeOK, locals
    <2>5. QED  BY <2>1, <2>2, <2>3, <2>4 DEF Entry
  <1>3. QED  BY <1>1, <1>2 DEF Quiet

LEMMA DeviceQuiet ==
  ASSUME TypeOK, NEW t \in Threads, Device(t) PROVE Quiet
  <1>1. scanLock' = scanLock /\ scanRun' = scanRun
    BY DEF Device, Report, ConnectBegins, DisconnectBegins, ConnectFails, ConnectDone, RegClear,
           RegAdd, RegDel, RegCheck, RegSet, events
  <1>2. ASSUME NEW u \in Threads
        PROVE  /\ HoldsScan(u)' => HoldsScan(u)
               /\ pc'[u] = "init" <=> pc[u] = "init"
               /\ pc'[u] = "release" <=> pc[u] = "release"
    <2>1. CASE \E o \in Objs : ConnectBegins(t, o) \/ DisconnectBegins(t, o)
      BY <2>1 DEF ConnectBegins, DisconnectBegins, Take, Step, Goto, HoldsScan, TypeOK
    <2>2. CASE ConnectFails(t) \/ ConnectDone(t)
      BY <2>2 DEF ConnectFails, ConnectDone, Step, Goto, HoldsScan, TypeOK, locals
    <2>3. CASE RegClear(t) \/ RegAdd(t) \/ RegDel(t) \/ RegCheck(t)
      BY <2>3 DEF RegClear, RegAdd, RegDel, RegCheck, Step, Goto, HoldsScan, TypeOK, locals
    <2>4. CASE RegSet(t)
      <3> DEFINE q == Wake(pc, "blockedConnect", AfterCheck)
      <3>1. pc' = [q EXCEPT ![t] = "idle"] /\ pc[t] = "regSet"
        BY <2>4 DEF RegSet
      <3>2. q \in [Threads -> Labels]
        BY WakeConnect DEF TypeOK
      <3>3. q[u] = pc[u] \/ (pc[u] = "blockedConnect" /\ q[u] = AfterCheck(u))
        BY WakeConnect DEF TypeOK
      <3> HIDE DEF q
      <3>4. \/ pc'[u] = pc[u]
            \/ pc[u] = "regSet" /\ pc'[u] = "idle"
            \/ pc[u] = "blockedConnect" /\ pc'[u] = AfterCheck(u)
        BY <3>1, <3>2, <3>3 DEF TypeOK
      <3>5. call' = call
        BY <2>4 DEF RegSet
      <3>6. QED  BY <3>4, <3>5 DEF AfterCheck, HoldsScan
    <2>5. QED  BY <2>1, <2>2, <2>3, <2>4 DEF Device, Report
  <1>3. QED  BY <1>1, <1>2 DEF Quiet

\* The steps inside _checkConnected, _startScan and _scanEnds that leave lock
\* and flag alone.
Inside(t) ==
  \/ CheckWait(t) \/ CheckForce(t) \/ ForceDone(t) \/ ForceRaises(t)
  \/ \E o \in Objs : ForceDisconnect(t, o)
  \/ \E w \in Workers : CreateTimer(t, w)
  \/ WaitStart(t) \/ Return(t)
  \/ SetPeriodic(t) \/ \E b \in BOOLEAN : SetBreath(t, b)
  \/ StopListener(t) \/ StopPeriodic(t) \/ ClearPeriodic(t) \/ StopBreath(t) \/ CancelTimer(t)
  \/ Begin(t) \/ StartScan(t)
  \/ NotPeriodic(t) \/ Again(t) \/ ScanAgain(t) \/ StartTimer(t) \/ PeriodTime(t)

LEMMA InsideQuiet ==
  ASSUME TypeOK, TimerPending, NEW t \in Threads, Inside(t) PROVE Quiet
  <1>1. scanLock' = scanLock /\ scanRun' = scanRun
    BY DEF Inside, CheckWait, CheckForce, ForceDone, ForceRaises, ForceDisconnect, CreateTimer,
           WaitStart, Return, SetPeriodic, SetBreath, StopListener, StopPeriodic, ClearPeriodic,
           StopBreath, CancelTimer, Begin, StartScan, NotPeriodic, Again, ScanAgain, StartTimer,
           PeriodTime, events
  <1>2. ASSUME NEW u \in Threads
        PROVE  /\ HoldsScan(u)' => HoldsScan(u)
               /\ pc'[u] = "init" <=> pc[u] = "init"
               /\ pc'[u] = "release" <=> pc[u] = "release"
    <2> USE DEF Step, Goto, HoldsScan, TypeOK, locals
    <2>1. CASE CheckWait(t)
      BY <2>1 DEF CheckWait, AfterCheck
    <2>2. CASE CheckForce(t)
      BY <2>2 DEF CheckForce
    <2>3. CASE ForceDone(t)
      <3> DEFINE q == Wake(pc, "blockedConnect", AfterCheck)
      <3>1. pc' = [q EXCEPT ![t] = AfterCheck(t)] /\ pc[t] = "visit" /\ call' = call
        BY <2>3 DEF ForceDone
      <3>2. q \in [Threads -> Labels]
        BY WakeConnect
      <3>3. q[u] = pc[u] \/ (pc[u] = "blockedConnect" /\ q[u] = AfterCheck(u))
        BY WakeConnect
      <3> HIDE DEF q
      <3>4. \/ pc'[u] = pc[u]
            \/ pc[u] \in {"blockedConnect", "visit"} /\ pc'[u] = AfterCheck(u)
        BY <3>1, <3>2, <3>3
      <3>5. QED  BY <3>1, <3>4 DEF AfterCheck
    <2>4. CASE ForceRaises(t)
      BY <2>4 DEF ForceRaises, Leave, Home
    <2>5. CASE \E o \in Objs : ForceDisconnect(t, o)
      BY <2>5 DEF ForceDisconnect
    <2>6. CASE \E w \in Workers : CreateTimer(t, w)
      <3>1. /\ pc[t] = "breathe" /\ call' = call
            /\ \/ pc'[u] = pc[u]
               \/ u = t /\ pc'[u] = "startTimer"
               \/ pc[u] = "dead" /\ pc'[u] = "created"
               \/ u = timer /\ pc'[u] = "dead"
        BY <2>6 DEF CreateTimer, Free
      <3>2. u = timer => pc[u] \in {"created", "cancelled", "timer"}
        BY ThreadsAssumption DEF TimerPending, TimerLabels
      <3>3. QED  BY <3>1, <3>2
    <2>7. CASE WaitStart(t) \/ Return(t)
      BY <2>7 DEF WaitStart, Return, Leave, Home
    <2>8. CASE CancelTimer(t) \/ StartTimer(t)
      BY <2>8, ThreadsAssumption DEF CancelTimer, StartTimer, TimerPending, Home
    <2>9. CASE Begin(t)
      BY <2>9 DEF Begin
    <2>10. CASE StartScan(t)
      <3> DEFINE q == Wake(Wake(pc, "blockedStart", LAMBDA v : "return"),
                           "blockedConnect", AfterCheck)
      <3>1. \E next \in {"scanning", "dead", "ends"} : pc' = [q EXCEPT ![t] = next]
        BY <2>10, AfterLabels DEF StartScan
      <3>2. pc[t] = "start" /\ call' = call
        BY <2>10 DEF StartScan
      <3>3. q \in [Threads -> Labels]
        BY WakeStart
      <3>4. \/ q[u] = pc[u]
            \/ pc[u] = "blockedStart" /\ q[u] = "return"
            \/ pc[u] = "blockedConnect" /\ q[u] = AfterCheck(u)
        BY WakeStart
      <3> HIDE DEF q
      <3>5. \/ pc'[u] = pc[u]
            \/ pc[u] = "start" /\ pc'[u] \in {"scanning", "dead", "ends"}
            \/ pc[u] = "blockedStart" /\ pc'[u] = "return"
            \/ pc[u] = "blockedConnect" /\ pc'[u] = AfterCheck(u)
        BY <3>1, <3>2, <3>3, <3>4
      <3>6. QED  BY <3>2, <3>5 DEF AfterCheck
    <2>11. CASE NotPeriodic(t)
      BY <2>11 DEF NotPeriodic, Leave, Home
    <2>12. CASE Again(t) \/ ScanAgain(t) \/ SetPeriodic(t) \/ \E b \in BOOLEAN : SetBreath(t, b)
      BY <2>12 DEF Again, ScanAgain, SetPeriodic, SetBreath, Enter
    <2>13. CASE PeriodTime(t)
      BY <2>13 DEF PeriodTime, Enter
    <2>14. CASE StopListener(t) \/ StopPeriodic(t) \/ ClearPeriodic(t) \/ StopBreath(t)
      BY <2>14 DEF StopListener, StopPeriodic, ClearPeriodic, StopBreath
    <2>15. QED
      BY <2>1, <2>2, <2>3, <2>4, <2>5, <2>6, <2>7, <2>8, <2>9, <2>10, <2>11, <2>12, <2>13, <2>14
      DEF Inside
  <1>3. QED  BY <1>1, <1>2 DEF Quiet

LEMMA QuietScanInv ==
  ASSUME ScanInv, Quiet PROVE ScanInv'
  BY DEF Quiet, ScanInv, ScanExclusion, ScanOnExact, SetOutside

LEMMA ProceedScanInv ==
  ASSUME TypeOK, TimerPending, ScanInv, NEW t \in Threads, Proceed(t) PROVE ScanInv'
  <1> USE DEF TypeOK, ScanInv, ScanExclusion, ScanOnExact, SetOutside
  <1>1. ASSUME AcquireScanLock(t) PROVE ScanInv'
    <2>1. \A u \in Threads : HoldsScan(u)' => u = t
      BY <1>1 DEF AcquireScanLock, Step, Goto, HoldsScan, locals
    <2>2. pc' = [pc EXCEPT ![t] = "init"] /\ ~scanLock /\ scanLock' /\ scanRun' = scanRun
      BY <1>1 DEF AcquireScanLock, Step, Goto
    <2>3. QED  BY <2>1, <2>2
  <1>2. ASSUME InitScan(t) PROVE ScanInv'
    <2>1. /\ pc[t] = "init" /\ pc' = [pc EXCEPT ![t] = AfterInit(t)]
          /\ scanLock' = scanLock /\ scanRun' = FALSE /\ call' = call
      BY <1>2 DEF InitScan, Step, Goto, locals
    <2>2. HoldsScan(t) /\ scanLock
      BY <2>1 DEF HoldsScan
    <2>3. \A u \in Threads : HoldsScan(u)' => u = t
      BY <2>1, <2>2 DEF HoldsScan
    <2>4. \A u \in Threads : pc'[u] \notin {"init", "release"}
      BY <2>1, <2>2 DEF HoldsScan, AfterInit
    <2>5. QED  BY <2>1, <2>2, <2>3, <2>4
  <1>3. ASSUME NEW w \in Workers, Spawn(t, w) PROVE ScanInv'
    <2>1. /\ pc[t] = "spawn" /\ pc[w] = "dead"
          /\ pc' = [pc EXCEPT ![t] = "waitStart", ![w] = "begin"]
          /\ call' = [call EXCEPT ![w].fn = call'[w].fn]
          /\ scanLock' = scanLock /\ scanRun' = scanRun
      BY <1>3 DEF Spawn, Free, Threads
    <2>2. HoldsScan(t) /\ scanLock /\ ~scanRun
      BY <2>1 DEF HoldsScan
    <2>3. \A u \in Threads : HoldsScan(u)' => u = w
      BY <2>1, <2>2 DEF HoldsScan
    <2>4. \A u \in Threads : pc'[u] \notin {"init", "release"}
      BY <2>1, <2>2 DEF HoldsScan
    <2>5. QED  BY <2>1, <2>2, <2>3, <2>4
  <1>4. ASSUME SetScanRun(t) PROVE ScanInv'
    <2> DEFINE q == Wake(pc, "blockedRun", Home)
    <2>1. /\ pc[t] = "ends" /\ pc' = [q EXCEPT ![t] = "release"]
          /\ scanLock' = scanLock /\ scanRun' /\ call' = call
      BY <1>4 DEF SetScanRun, locals
    <2>2. q \in [Threads -> Labels]
      BY WakeRun
    <2>3. \A u \in Threads : q[u] = pc[u] \/ q[u] \in {"dead", "idle"}
      BY WakeRun, AfterLabels
    <2> HIDE DEF q
    <2>4. HoldsScan(t) /\ scanLock
      BY <2>1 DEF HoldsScan
    <2>5. \A u \in Threads : HoldsScan(u)' => u = t
      BY <2>1, <2>2, <2>3, <2>4 DEF HoldsScan
    <2>6. pc'[t] = "release"
      BY <2>1, <2>2
    <2>7. QED  BY <2>1, <2>4, <2>5, <2>6
  <1>5. ASSUME ReleaseScanLock(t) PROVE ScanInv'
    <2>1. /\ pc[t] = "release" /\ pc' = [pc EXCEPT ![t] = "again"]
          /\ scanRun' = scanRun /\ call' = call
      BY <1>5 DEF ReleaseScanLock, Step, Goto, locals
    <2>2. HoldsScan(t) /\ scanRun
      BY <2>1 DEF HoldsScan
    <2>3. \A u \in Threads : ~HoldsScan(u)'
      BY <2>1, <2>2 DEF HoldsScan
    <2>4. QED  BY <2>1, <2>2, <2>3 DEF HoldsScan
  <1>6. ASSUME Inside(t) PROVE ScanInv'
    BY <1>6, InsideQuiet, QuietScanInv
  <1>7. QED
    BY <1>1, <1>2, <1>3, <1>4, <1>5, <1>6 DEF Proceed, Inside

LEMMA OtherQuiet ==
  ASSUME TypeOK,
         \/ UNCHANGED Kept
         \/ \E t \in Threads : ScanOver(t) \/ ScanRaises(t) \/ \E o \in Objs : AddDevice(t, o)
  PROVE  Quiet
  <1>1. ASSUME NEW t \in Threads, ScanOver(t) PROVE Quiet
    BY <1>1 DEF ScanOver, Step, Goto, HoldsScan, TypeOK, events, locals, Quiet
  <1>2. ASSUME NEW t \in Threads, NEW o \in Objs, AddDevice(t, o) PROVE Quiet
    BY <1>2 DEF AddDevice, HoldsScan, events, locals, Quiet
  <1>3. CASE UNCHANGED Kept
    BY <1>3 DEF Kept, events, locals, HoldsScan, Quiet
  <1>4. ASSUME NEW t \in Threads, ScanRaises(t) PROVE Quiet
    BY <1>4 DEF ScanRaises, Leave, Home, Goto, HoldsScan, TypeOK, events, Quiet
  <1>5. QED  BY <1>1, <1>2, <1>3, <1>4

LEMMA ScanInvInductive ==
  /\ Init => ScanInv
  /\ TypeOK /\ TimerPending /\ ScanInv /\ [Next]_vars => ScanInv'
  <1>1. Init => ScanInv
    BY DEF Init, ScanInv, ScanExclusion, ScanOnExact, SetOutside, HoldsScan
  <1>2. ASSUME TypeOK, TimerPending, ScanInv, [Next]_vars PROVE ScanInv'
    BY <1>2, EntryQuiet, DeviceQuiet, OtherQuiet, ProceedScanInv, QuietScanInv, TimerLostKeeps,
       StutterKeeps
    DEF Next, TimerLost
  <1>3. QED  BY <1>1, <1>2

\* At most one thread answers for the scan lock, through the hand-over to the
\* listener thread, and the lock is held as long as one does.
THEOREM OneScanAtATime == Spec => []ScanExclusion
  <1>1. ScanInv => ScanExclusion
    BY DEF ScanInv
  <1>2. QED  BY ScanTyping, TimerInductive, ScanInvInductive, <1>1, PTL DEF Spec

\* scanOn() is true through every scan and never while the lock is free.
THEOREM ScanOnTellsTruth == Spec => []ScanOnExact
  <1>1. ScanInv => ScanOnExact
    BY DEF ScanInv
  <1>2. QED  BY ScanTyping, TimerInductive, ScanInvInductive, <1>1, PTL DEF Spec

\* The device table is reset by InitScan alone, in a thread that holds the
\* scan: no other thread can be scanning then.
LEMMA KeptStep ==
  ASSUME TypeOK, ScanInv, [Next]_vars, NEW t \in Threads, pc[t] \in {"scanning", "ends"}
  PROVE  devices \subseteq devices'
  <1>1. ASSUME NEW u \in Threads, InitScan(u) PROVE FALSE
    <2>1. pc[u] = "init"
      BY <1>1 DEF InitScan, Step
    <2>2. HoldsScan(u) /\ HoldsScan(t)
      BY <2>1 DEF HoldsScan
    <2>3. u = t
      BY <2>2 DEF ScanInv, ScanExclusion
    <2>4. QED  BY <2>1, <2>3
  <1>2. ASSUME NEW u \in Threads, Entry(u) PROVE devices' = devices
    BY <1>2 DEF Entry, CallScan, CallStartPeriodicScan, CallStopScan, ScanEndWait, registry
  <1>3. ASSUME NEW u \in Threads, Device(u) PROVE devices' = devices
    BY <1>3 DEF Device, Report, ConnectBegins, DisconnectBegins, ConnectFails, ConnectDone,
                RegClear, RegAdd, RegDel, RegCheck, RegSet, registry
  <1>4. ASSUME NEW u \in Threads, Proceed(u) PROVE devices' = devices
    <2>1. CASE Inside(u)
      BY <2>1 DEF Inside, CheckWait, CheckForce, ForceDone, ForceRaises, ForceDisconnect,
           CreateTimer, WaitStart, Return, SetPeriodic, SetBreath, StopListener, StopPeriodic,
           ClearPeriodic, StopBreath, CancelTimer, Begin, StartScan, NotPeriodic, Again, ScanAgain,
           StartTimer, PeriodTime, registry
    <2>2. CASE AcquireScanLock(u) \/ SetScanRun(u) \/ ReleaseScanLock(u)
      BY <2>2 DEF AcquireScanLock, SetScanRun, ReleaseScanLock, registry
    <2>3. CASE \E w \in Workers : Spawn(u, w)
      BY <2>3 DEF Spawn, registry
    <2>4. QED  BY <1>1, <1>4, <2>1, <2>2, <2>3 DEF Proceed, Inside
  <1>5. ASSUME NEW u \in Threads, ScanOver(u) \/ ScanRaises(u) PROVE devices' = devices
    BY <1>5 DEF ScanOver, ScanRaises, registry
  <1>6. ASSUME NEW u \in Threads, NEW o \in Objs, AddDevice(u, o) PROVE devices \subseteq devices'
    BY <1>6 DEF AddDevice
  <1>7. CASE UNCHANGED Kept
    BY <1>7 DEF Kept
  <1>8. QED
    BY <1>2, <1>3, <1>4, <1>5, <1>6, <1>7, TimerLostKeeps, StutterKeeps DEF Next, TimerLost

\* The results of a scan are not reset under it by any other thread.
THEOREM ScanResultsKept == Spec => ResultsKept
  <1>1. TypeOK /\ ScanInv /\ [Next]_vars
          => [(\E t \in Threads : pc[t] \in {"scanning", "ends"}) => devices \subseteq devices']_vars
    BY KeptStep
  <1>2. QED  BY ScanTyping, TimerInductive, ScanInvInductive, <1>1, PTL DEF Spec, ResultsKept

----------------------------------------------------------------------------
(* ScanService implements ScanCycle: by ScanInv the owner is unique, and   *)
(* every step of the service is a step of the cycle or leaves it alone.    *)

LEMMA OwnerIs ==
  ASSUME ScanInv
  PROVE  /\ \A t \in Threads : HoldsScan(t) => Owner = t
         /\ (\A t \in Threads : ~HoldsScan(t)) => Owner = None
  BY DEF ScanInv, ScanExclusion, Owner

LEMMA OwnerIsNext ==
  ASSUME ScanInv'
  PROVE  /\ \A t \in Threads : HoldsScan(t)' => Owner' = t
         /\ (\A t \in Threads : ~HoldsScan(t)') => Owner' = None
  BY DEF ScanInv, ScanExclusion, Owner

LEMMA InitCycle == Init => Cycle!Init
  BY DEF Init, Cycle!Init, Phase, Owner, HoldsScan

\* A quiet step leaves the cycle alone, or its owner abandons the scan.
LEMMA QuietCycle ==
  ASSUME ScanInv, ScanInv', Quiet
  PROVE  Cycle!Abandon \/ UNCHANGED <<Phase, Owner>>
  <1>1. Phase' = Phase
    BY DEF Quiet, Phase
  <1>2. CASE \A t \in Threads : ~HoldsScan(t)
    <2>1. \A t \in Threads : ~HoldsScan(t)'
      BY <1>2 DEF Quiet
    <2>2. QED  BY <1>1, <1>2, <2>1, OwnerIs, OwnerIsNext
  <1>3. ASSUME NEW t \in Threads, HoldsScan(t), HoldsScan(t)'
        PROVE  UNCHANGED <<Phase, Owner>>
    BY <1>1, <1>3, OwnerIs, OwnerIsNext
  <1>4. ASSUME NEW t \in Threads, HoldsScan(t), ~HoldsScan(t)'
        PROVE  Cycle!Abandon
    <2>1. Owner = t /\ t # None
      BY <1>4, OwnerIs, ThreadsAssumption
    <2>2. \A u \in Threads : ~HoldsScan(u)'
      BY <1>4 DEF Quiet, ScanInv, ScanExclusion
    <2>3. pc[t] \notin {"init", "release"}
      BY <1>4 DEF Quiet, HoldsScan
    <2>4. Phase = "on"
      BY <1>4, <2>3 DEF ScanInv, ScanExclusion, ScanOnExact, Phase
    <2>5. QED  BY <1>1, <2>1, <2>2, <2>4, OwnerIsNext DEF Cycle!Abandon, Cycle!Move
  <1>5. QED  BY <1>2, <1>3, <1>4

LEMMA ProceedCycle ==
  ASSUME TypeOK, TimerPending, ScanInv, ScanInv', NEW t \in Threads, Proceed(t)
  PROVE  Cycle!Next \/ UNCHANGED <<Phase, Owner>>
  <1> USE DEF Cycle!Move
  <1>1. ASSUME AcquireScanLock(t) PROVE Cycle!Acquire(t)
    <2>1. /\ ~scanLock /\ scanLock' /\ scanRun' = scanRun
          /\ pc[t] = "acquire" /\ pc'[t] = "init"
      BY <1>1 DEF AcquireScanLock, Step, Goto, TypeOK
    <2>2. scanRun'
      BY <2>1 DEF ScanInv, ScanOnExact
    <2>3. Phase = "free" /\ Phase' = "taken"
      BY <2>1, <2>2 DEF Phase
    <2>4. HoldsScan(t)'
      BY <2>1 DEF HoldsScan
    <2>5. QED  BY <2>3, <2>4, OwnerIsNext DEF Cycle!Acquire
  <1>2. ASSUME InitScan(t) PROVE Cycle!Begin
    <2>1. /\ pc[t] = "init" /\ pc'[t] = AfterInit(t) /\ call' = call
          /\ scanLock' = scanLock /\ scanRun' = FALSE
      BY <1>2 DEF InitScan, Step, Goto, TypeOK, locals
    <2>2. scanLock /\ scanRun
      BY <2>1 DEF ScanInv, ScanExclusion, SetOutside, HoldsScan
    <2>3. Phase = "taken" /\ Phase' = "on"
      BY <2>1, <2>2 DEF Phase
    <2>4. HoldsScan(t) /\ HoldsScan(t)'
      BY <2>1 DEF HoldsScan, AfterInit
    <2>5. QED  BY <2>3, <2>4, OwnerIs, OwnerIsNext DEF Cycle!Begin
  <1>3. ASSUME NEW w \in Workers, Spawn(t, w) PROVE Cycle!HandOver(w)
    <2>1. /\ pc[t] = "spawn" /\ pc'[w] = "begin"
          /\ scanLock' = scanLock /\ scanRun' = scanRun
      BY <1>3 DEF Spawn, TypeOK, Threads
    <2>2. scanLock /\ ~scanRun
      BY <2>1 DEF ScanInv, ScanExclusion, ScanOnExact, HoldsScan
    <2>3. Phase = "on" /\ Phase' = "on"
      BY <2>1, <2>2 DEF Phase
    <2>4. HoldsScan(t) /\ HoldsScan(w)' /\ w \in Threads
      BY <2>1 DEF HoldsScan, Threads
    <2>5. Owner = t /\ Owner' = w /\ t # None
      BY <2>4, OwnerIs, OwnerIsNext, ThreadsAssumption
    <2>6. QED  BY <2>3, <2>5 DEF Cycle!HandOver
  <1>4. ASSUME SetScanRun(t) PROVE Cycle!End
    <2>1. /\ pc[t] = "ends" /\ scanLock' = scanLock /\ scanRun'
      BY <1>4 DEF SetScanRun
    <2>2. pc'[t] = "release"
      BY <1>4, WakeRun DEF SetScanRun, TypeOK
    <2>3. scanLock /\ ~scanRun
      BY <2>1 DEF ScanInv, ScanExclusion, ScanOnExact, HoldsScan
    <2>4. HoldsScan(t) /\ HoldsScan(t)'
      BY <2>1, <2>2 DEF HoldsScan
    <2>5. \A u \in Threads : pc'[u] # "init"
      BY <2>2, <2>4 DEF ScanInv, ScanExclusion, HoldsScan
    <2>6. Phase = "on" /\ Phase' = "over"
      BY <2>1, <2>3, <2>5 DEF Phase
    <2>7. QED  BY <2>4, <2>6, OwnerIs, OwnerIsNext, ThreadsAssumption DEF Cycle!End
  <1>5. ASSUME ReleaseScanLock(t) PROVE Cycle!Release
    <2>1. /\ pc[t] = "release" /\ pc' = [pc EXCEPT ![t] = "again"]
          /\ ~scanLock' /\ scanRun' = scanRun /\ call' = call
      BY <1>5 DEF ReleaseScanLock, Step, Goto, locals
    <2>2. HoldsScan(t) /\ scanLock /\ scanRun
      BY <2>1 DEF HoldsScan, ScanInv, ScanExclusion, SetOutside
    <2>3. \A u \in Threads : pc[u] # "init" /\ ~HoldsScan(u)'
      BY <2>1, <2>2 DEF HoldsScan, ScanInv, ScanExclusion, TypeOK
    <2>4. Phase = "over" /\ Phase' = "free"
      BY <2>1, <2>2, <2>3 DEF Phase
    <2>5. QED  BY <2>3, <2>4, OwnerIsNext DEF Cycle!Release
  <1>6. ASSUME Inside(t) PROVE Cycle!Abandon \/ UNCHANGED <<Phase, Owner>>
    BY <1>6, InsideQuiet, QuietCycle
  <1>7. Workers \subseteq Threads
    BY DEF Threads
  <1>8. QED
    BY <1>1, <1>2, <1>3, <1>4, <1>5, <1>6, <1>7 DEF Proceed, Inside, Cycle!Next

\* The scan control of all threads together implements the cycle of one scan
\* after the other.
THEOREM ScansFollowCycle == Spec => FollowsCycle
  <1>1. ASSUME TypeOK, TimerPending, ScanInv, ScanInv', [Next]_vars
        PROVE  [Cycle!Next]_<<Phase, Owner>>
    BY <1>1, EntryQuiet, DeviceQuiet, OtherQuiet, ProceedCycle, QuietCycle, TimerLostKeeps,
       StutterKeeps
    DEF Next, Cycle!Next, TimerLost
  <1>2. QED
    BY ScanTyping, TimerInductive, ScanInvInductive, InitCycle, <1>1, PTL
    DEF Spec, FollowsCycle, Cycle!Spec

----------------------------------------------------------------------------
(* The step of a thread, and what it does to the others. *)

\* What a step of one thread does to the control of another: it returns from a wait(),
\* a timer is made, started or cancelled, or a slot starts to run a listener.
Moved(t, u) ==
  \/ pc'[u] = pc[u] /\ call'[u] = call[u]
  \/ pc[u] = "blockedConnect" /\ pc'[u] = AfterCheck(u) /\ call'[u] = call[u]
  \/ pc[u] = "blockedStart" /\ pc'[u] = "return" /\ call'[u] = call[u]
  \/ pc[u] = "blockedRun" /\ pc'[u] = Home(u) /\ call'[u] = call[u]
  \/ pc[u] \in TimerLabels /\ pc'[u] \in {"dead", "cancelled"} /\ call'[u] = call[u]
  \/ pc[u] = "dead" /\ pc'[u] = "created" /\ call'[u] = call[u]
  \/ pc[u] = "created" /\ pc'[u] = "timer" /\ call'[u] = call[u] /\ u = timer /\ StartTimer(t)
  \/ pc[u] = "dead" /\ pc'[u] = "begin" /\ Spawn(t, u)

\* A step of a thread.
Does(t) ==
  \/ Entry(t) \/ Proceed(t) \/ Device(t) \/ ScanOver(t) \/ ScanRaises(t)
  \/ \E o \in Objs : AddDevice(t, o)

\* No step does anything else to another thread.
LEMMA OthersMove ==
  ASSUME TypeOK, TimerPending, NEW t \in Threads, Does(t), NEW u \in Threads, u # t
  PROVE  Moved(t, u)
  <1> DEFINE Still == pc'[u] = pc[u] /\ call'[u] = call[u]
  <1>1. ASSUME Entry(t) PROVE Still
    <2>1. CASE \E op \in {"scanSynch", "scanAsynch", "startScan"}, d \in Forces : CallScan(t, op, d)
      BY <2>1 DEF CallScan, Enter, Goto, TypeOK
    <2>2. CASE CallStartPeriodicScan(t)
      BY <2>2 DEF CallStartPeriodicScan, Goto, TypeOK, locals
    <2>3. CASE CallStopScan(t)
      BY <2>3 DEF CallStopScan, Goto, TypeOK, locals
    <2>4. CASE ScanEndWait(t)
      BY <2>4 DEF ScanEndWait, Goto, TypeOK, locals
    <2>5. QED  BY <1>1, <2>1, <2>2, <2>3, <2>4 DEF Entry
  <1>2. ASSUME Device(t) PROVE Moved(t, u)
    <2>1. CASE \E o \in Objs : ConnectBegins(t, o) \/ DisconnectBegins(t, o)
      BY <2>1 DEF ConnectBegins, DisconnectBegins, Take, Step, Goto, TypeOK, Moved
    <2>2. CASE ConnectFails(t) \/ ConnectDone(t)
      BY <2>2 DEF ConnectFails, ConnectDone, Step, Goto, TypeOK, locals, Moved
    <2>3. CASE RegClear(t) \/ RegAdd(t) \/ RegDel(t) \/ RegCheck(t)
      BY <2>3 DEF RegClear, RegAdd, RegDel, RegCheck, Step, Goto, TypeOK, locals, Moved
    <2>4. CASE RegSet(t)
      <3> DEFINE q == Wake(pc, "blockedConnect", AfterCheck)
      <3>1. pc' = [q EXCEPT ![t] = "idle"] /\ call' = call
        BY <2>4 DEF RegSet
      <3>2. q[u] = pc[u] \/ (pc[u] = "blockedConnect" /\ q[u] = AfterCheck(u))
        BY WakeConnect DEF TypeOK
      <3>3. q \in [Threads -> Labels] /\ pc \in [Threads -> Labels]
        BY WakeConnect DEF TypeOK
      <3> HIDE DEF q
      <3>4. QED  BY <3>1, <3>2, <3>3 DEF Moved
    <2>5. QED  BY <1>2, <2>1, <2>2, <2>3, <2>4 DEF Device, Report
  <1>3. ASSUME Proceed(t) PROVE Moved(t, u)
    <2> USE DEF Step, Goto, TypeOK, locals
    <2>1. CASE AcquireScanLock(t) \/ InitScan(t) \/ CheckWait(t) \/ CheckForce(t)
      BY <2>1 DEF AcquireScanLock, InitScan, CheckWait, CheckForce, Moved
    <2>2. CASE ForceDone(t)
      <3> DEFINE q == Wake(pc, "blockedConnect", AfterCheck)
      <3>1. pc' = [q EXCEPT ![t] = AfterCheck(t)] /\ call' = call
        BY <2>2 DEF ForceDone
      <3>2. q \in [Threads -> Labels]
        BY WakeConnect
      <3>3. q[u] = pc[u] \/ (pc[u] = "blockedConnect" /\ q[u] = AfterCheck(u))
        BY WakeConnect
      <3> HIDE DEF q
      <3>4. QED  BY <3>1, <3>2, <3>3 DEF Moved
    <2>3. CASE ForceRaises(t) \/ \E o \in Objs : ForceDisconnect(t, o)
      BY <2>3 DEF ForceRaises, ForceDisconnect, Leave, Moved
    <2>4. CASE \E w \in Workers : CreateTimer(t, w)
      <3>1. /\ call' = call
            /\ \/ pc'[u] = pc[u]
               \/ pc[u] = "dead" /\ pc'[u] = "created"
               \/ u = timer /\ pc'[u] = "dead"
        BY <2>4 DEF CreateTimer, Free
      <3>2. u = timer => pc[u] \in TimerLabels
        BY ThreadsAssumption DEF TimerPending
      <3>3. QED  BY <3>1, <3>2 DEF Moved
    <2>5. CASE \E w \in Workers : Spawn(t, w)
      BY <2>5 DEF Spawn, Free, Threads, Moved
    <2>6. CASE WaitStart(t) \/ Return(t) \/ Begin(t) \/ NotPeriodic(t) \/ Again(t)
      BY <2>6 DEF WaitStart, Return, Begin, NotPeriodic, Again, Leave, Moved
    <2>7. CASE CancelTimer(t)
      <3>1. /\ call' = call
            /\ pc'[u] # pc[u] => u = timer /\ pc'[u] \in {"dead", "cancelled"}
        BY <2>7 DEF CancelTimer
      <3>2. u = timer => pc[u] \in TimerLabels
        BY ThreadsAssumption DEF TimerPending
      <3>3. QED  BY <3>1, <3>2 DEF Moved
    <2>8. CASE StartScan(t)
      <3> DEFINE q == Wake(Wake(pc, "blockedStart", LAMBDA v : "return"),
                           "blockedConnect", AfterCheck)
      <3>1. \E next \in {"scanning", "dead", "ends"} : pc' = [q EXCEPT ![t] = next]
        BY <2>8, AfterLabels DEF StartScan
      <3>2. call' = call
        BY <2>8 DEF StartScan
      <3>3. q \in [Threads -> Labels]
        BY WakeStart
      <3>4. \/ q[u] = pc[u]
            \/ pc[u] = "blockedStart" /\ q[u] = "return"
            \/ pc[u] = "blockedConnect" /\ q[u] = AfterCheck(u)
        BY WakeStart
      <3> HIDE DEF q
      <3>5. QED  BY <3>1, <3>2, <3>3, <3>4 DEF Moved
    <2>9. CASE SetScanRun(t)
      <3> DEFINE q == Wake(pc, "blockedRun", Home)
      <3>1. pc' = [q EXCEPT ![t] = "release"] /\ call' = call
        BY <2>9 DEF SetScanRun
      <3>2. q \in [Threads -> Labels]
        BY WakeRun
      <3>3. q[u] = pc[u] \/ (pc[u] = "blockedRun" /\ q[u] = Home(u))
        BY WakeRun
      <3> HIDE DEF q
      <3>4. QED  BY <3>1, <3>2, <3>3 DEF Moved
    <2>10. CASE ReleaseScanLock(t) \/ ScanAgain(t) \/ PeriodTime(t)
      BY <2>10 DEF ReleaseScanLock, ScanAgain, PeriodTime, Enter, Moved
    <2>11. CASE StartTimer(t)
      <3>1. /\ call'[u] = call[u]
            /\ \/ pc'[u] = pc[u]
               \/ u = timer /\ pc[u] = "created" /\ pc'[u] = "timer"
               \/ u = timer /\ pc[u] = "cancelled" /\ pc'[u] = "dead"
        BY <2>11 DEF StartTimer
      <3>2. QED  BY <2>11, <3>1 DEF Moved, TimerLabels
    <2>12. CASE \/ SetPeriodic(t) \/ \E b \in BOOLEAN : SetBreath(t, b)
                \/ StopListener(t) \/ StopPeriodic(t) \/ ClearPeriodic(t) \/ StopBreath(t)
      BY <2>12 DEF SetPeriodic, SetBreath, Enter, StopListener, StopPeriodic, ClearPeriodic,
         StopBreath, Moved
    <2>13. QED
      BY <1>3, <2>1, <2>2, <2>3, <2>4, <2>5, <2>6, <2>7, <2>8, <2>9, <2>10, <2>11, <2>12
      DEF Proceed
  <1>4. ASSUME ScanOver(t) \/ ScanRaises(t) \/ \E o \in Objs : AddDevice(t, o) PROVE Still
    BY <1>4 DEF ScanOver, ScanRaises, AddDevice, Leave, Step, Goto, TypeOK, locals
  <1>5. Still => Moved(t, u)
    BY DEF Moved
  <1>6. QED  BY <1>1, <1>2, <1>3, <1>4, <1>5 DEF Does

----------------------------------------------------------------------------
(* The start of a scan.  StarterNotStranded is inductive as it stands.   *)

\* The threads that wait for _scan_start, and the listeners that will set it.
WaitsStart(t) == pc[t] = "blockedStart" \/ (pc[t] = "waitStart" /\ ~scanStart)
WillStart(w) == pc[w] \in {"begin", "start"}

\* A listener that will set the event waits from its start to the step that sets it, and
\* that step wakes every starter.
LEMMA StarterStep ==
  ASSUME TypeOK, TimerPending, StarterNotStranded, NEW t \in Threads, Does(t)
  PROVE  StarterNotStranded'
  <1>1. StarterNotStranded <=> \A u \in Threads : WaitsStart(u) => \E w \in Workers : WillStart(w)
    BY DEF StarterNotStranded, WaitsStart, WillStart
  <1>2. StarterNotStranded' <=> \A u \in Threads : WaitsStart(u)' => \E w \in Workers : WillStart(w)'
    BY DEF StarterNotStranded, WaitsStart, WillStart
  <1>3. ASSUME NEW w \in Workers, Spawn(t, w) PROVE WillStart(w)'
    BY <1>3 DEF Spawn, WillStart, TypeOK, Threads
  <1>4. ASSUME StartScan(t), NEW u \in Threads PROVE ~WaitsStart(u)'
    <2> DEFINE q == Wake(Wake(pc, "blockedStart", LAMBDA v : "return"),
                         "blockedConnect", AfterCheck)
    <2>1. \E next \in {"scanning", "dead", "ends"} : pc' = [q EXCEPT ![t] = next]
      BY <1>4, AfterLabels DEF StartScan
    <2>2. scanStart'
      BY <1>4 DEF StartScan
    <2>3. q \in [Threads -> Labels]
      BY WakeStart DEF TypeOK
    <2>4. \/ pc[u] # "blockedStart" /\ q[u] = pc[u]
          \/ q[u] \in {"return", AfterCheck(u)}
      BY WakeStart DEF TypeOK
    <2> HIDE DEF q
    <2>5. q[u] # "blockedStart"
      BY <2>4 DEF AfterCheck
    <2>6. QED  BY <2>1, <2>2, <2>3, <2>5 DEF WaitsStart
  <1>5. ASSUME ~StartScan(t), \A w \in Workers : ~Spawn(t, w) PROVE StarterNotStranded'
    <2>1. \A u \in Threads \ {t} : Moved(t, u)
      BY OthersMove
    <2>2. scanStart' = scanStart
      BY <1>5 DEF Does, Entry, CallScan, CallStartPeriodicScan, CallStopScan, ScanEndWait,
           Proceed, AcquireScanLock, InitScan, CheckWait, CheckForce, ForceDone, ForceRaises,
           ForceDisconnect, CreateTimer, WaitStart, Return, SetPeriodic, SetBreath, StopListener,
           StopPeriodic, ClearPeriodic, StopBreath, CancelTimer, Begin, SetScanRun,
           ReleaseScanLock, NotPeriodic, Again, ScanAgain, StartTimer, PeriodTime,
           Device, Report, ConnectBegins, DisconnectBegins, ConnectFails, ConnectDone,
           RegClear, RegAdd, RegDel, RegCheck, RegSet, ScanOver, ScanRaises, AddDevice, events
    <2>3. \A u \in Threads \ {t} : WaitsStart(u)' => WaitsStart(u)
      BY <1>5, <2>1, <2>2 DEF Moved, WaitsStart, AfterCheck, Home, TimerLabels
    <2>4. \A w \in Workers \ {t} : WillStart(w) => WillStart(w)'
      BY <1>5, <2>1 DEF Moved, WillStart, Threads, TimerLabels
    <2>5. (WaitsStart(t)' => WaitsStart(t)) /\ (WillStart(t) => WillStart(t)')
      <3> USE DEF Step, Goto, TypeOK, WaitsStart, WillStart, locals
      <3>1. CASE Entry(t)
        BY <2>2, <3>1 DEF Entry, CallScan, CallStartPeriodicScan, CallStopScan, ScanEndWait, Call,
             Enter
      <3>2. CASE AcquireScanLock(t) \/ InitScan(t) \/ CheckWait(t) \/ CheckForce(t)
        BY <2>2, <3>2 DEF AcquireScanLock, InitScan, CheckWait, CheckForce, AfterCheck, AfterInit
      <3>3. CASE ForceDone(t)
        <4>1. /\ pc[t] = "visit"
              /\ pc' = [Wake(pc, "blockedConnect", AfterCheck) EXCEPT ![t] = AfterCheck(t)]
          BY <3>3 DEF ForceDone
        <4>2. Wake(pc, "blockedConnect", AfterCheck) \in [Threads -> Labels]
          BY WakeConnect
        <4>3. pc'[t] = AfterCheck(t)
          BY <4>1, <4>2
        <4>4. pc'[t] \in {"start", "spawn", "acquire"}
          BY <4>3, AfterLabels
        <4>5. QED  BY <4>1, <4>4
      <3>4. CASE ForceRaises(t) \/ \E o \in Objs : ForceDisconnect(t, o)
        BY <3>4 DEF ForceRaises, ForceDisconnect, Leave, Home
      <3>5. CASE (\E w \in Workers : CreateTimer(t, w)) \/ StartTimer(t)
        BY <3>5 DEF CreateTimer, StartTimer, Home, Free
      <3>6. CASE WaitStart(t) \/ Return(t) \/ Begin(t) \/ NotPeriodic(t) \/ Again(t)
        BY <2>2, <3>6 DEF WaitStart, Return, Begin, NotPeriodic, Again, Leave, Home
      <3>7. CASE \/ SetPeriodic(t) \/ \E b \in BOOLEAN : SetBreath(t, b)
                 \/ StopListener(t) \/ StopPeriodic(t) \/ ClearPeriodic(t) \/ StopBreath(t)
                 \/ CancelTimer(t)
        BY <3>7 DEF SetPeriodic, SetBreath, Enter, StopListener, StopPeriodic, ClearPeriodic,
           StopBreath, CancelTimer
      <3>8. CASE SetScanRun(t)
        <4>1. pc[t] = "ends" /\ pc' = [Wake(pc, "blockedRun", Home) EXCEPT ![t] = "release"]
          BY <3>8 DEF SetScanRun
        <4>2. Wake(pc, "blockedRun", Home) \in [Threads -> Labels]
          BY WakeRun
        <4>3. pc'[t] = "release"
          BY <4>1, <4>2
        <4>4. QED  BY <4>1, <4>3
      <3>9. CASE ReleaseScanLock(t) \/ ScanAgain(t) \/ PeriodTime(t)
        BY <3>9 DEF ReleaseScanLock, ScanAgain, PeriodTime, Enter
      <3>10. CASE \E o \in Objs : ConnectBegins(t, o) \/ DisconnectBegins(t, o)
        BY <3>10 DEF ConnectBegins, DisconnectBegins, Take
      <3>11. CASE ConnectFails(t) \/ ConnectDone(t) \/ RegClear(t) \/ RegAdd(t) \/ RegDel(t) \/ RegCheck(t)
        BY <3>11 DEF ConnectFails, ConnectDone, RegClear, RegAdd, RegDel, RegCheck
      <3>12. CASE RegSet(t)
        <4>1. /\ pc[t] = "regSet"
              /\ pc' = [Wake(pc, "blockedConnect", AfterCheck) EXCEPT ![t] = "idle"]
          BY <3>12 DEF RegSet
        <4>2. Wake(pc, "blockedConnect", AfterCheck) \in [Threads -> Labels]
          BY WakeConnect
        <4>3. pc'[t] = "idle"
          BY <4>1, <4>2
        <4>4. QED  BY <4>1, <4>3
      <3>13. CASE ScanOver(t) \/ ScanRaises(t) \/ \E o \in Objs : AddDevice(t, o)
        BY <2>2, <3>13 DEF ScanOver, ScanRaises, Leave, Home, AddDevice
      <3>14. QED
        BY <1>5, <3>1, <3>2, <3>3, <3>4, <3>5, <3>6, <3>7, <3>8, <3>9, <3>10, <3>11, <3>12, <3>13
        DEF Does, Proceed, Device, Report
    <2>6. QED
      BY <1>1, <1>2, <2>3, <2>4, <2>5
  <1>6. QED
    BY <1>2, <1>3, <1>4, <1>5

\* A thread that waits on _scan_start is not stranded: whatever other threads call, a
\* listener is on its way to set the event and wake it, be it the one of its own scan or
\* that of a later scan, whose starter cleared the event before it looked.
THEOREM StarterIsNotStranded == Spec => []StarterNotStranded
  <1>1. Init => StarterNotStranded
    BY DEF Init, StarterNotStranded
  <1>2. ASSUME TypeOK, TimerPending, StarterNotStranded, [Next]_vars PROVE StarterNotStranded'
    <2>1. CASE UNCHANGED Kept
      BY <1>2, <2>1 DEF StarterNotStranded, Kept, events
    <2>2. ASSUME NEW t \in Threads, Does(t) PROVE StarterNotStranded'
      BY <1>2, <2>2, StarterStep
    <2>3. QED  BY <1>2, <2>1, <2>2, TimerLostKeeps, StutterKeeps DEF Next, Does, TimerLost
  <1>3. QED  BY ScanTyping, TimerInductive, <1>1, <1>2, PTL DEF Spec

----------------------------------------------------------------------------
(* The connect lock.  Without forceDisconnect the threads that report the  *)
(* devices keep it: what the dictionary of connected devices still holds   *)
(* is connected, or the thread that will delete it is on its way.          *)

ReportLabels == {"connecting", "regClear", "regAdd", "regDel", "regCheck", "regSet"}

\* Nobody disconnects by force.
Unforced == \A t \in Threads : ~call[t].force /\ pc[t] # "visit"

\* One thread works on an object; a device stays connected until it is stored.
ReportsApart ==
  /\ \A t, u \in Threads : obj[t] # None /\ obj[u] = obj[t] => t = u
  /\ \A t \in Threads : pc[t] \notin ReportLabels => obj[t] = None
  /\ \A t \in Threads : pc[t] \in {"regClear", "regAdd"} => obj[t] \in connected
  /\ \A t \in Threads : pc[t] \in {"connecting", "regDel", "regCheck", "regSet"} => obj[t] \notin connected

\* A stored device is connected, or about to be deleted.
StoredHeld ==
  \A o \in connectedDev : o \in connected \/ \E t \in Threads : pc[t] = "regDel" /\ obj[t] = o

\* The inductive invariant of the connect lock.
ConnectInv == Unforced /\ ReportsApart /\ StoredHeld /\ ConnectLockFreed

\* The calls and the threads inside _checkConnected when nobody passes forceDisconnect.
LEMMA UnforcedStep ==
  ASSUME TypeOK, TimerPending, TRUE \notin Forces, Unforced, NEW t \in Threads, Does(t)
  PROVE  Unforced'
  <1>1. ASSUME NEW u \in Threads, u # t PROVE ~call'[u].force /\ pc'[u] # "visit"
    <2>1. Moved(t, u)
      BY <1>1, OthersMove
    <2>2. ~call[u].force /\ pc[u] # "visit"
      BY DEF Unforced
    <2>3. ASSUME Spawn(t, u) PROVE ~call'[u].force
      BY <2>2, <2>3 DEF Spawn, TypeOK
    <2>4. QED  BY <2>1, <2>2, <2>3 DEF Moved, AfterCheck, Home, TimerLabels
  <1>2. ~call[t].force /\ pc[t] # "visit" /\ pc \in [Threads -> Labels]
        /\ call \in [Threads -> [fn : Functions, force : BOOLEAN]]
    BY DEF Unforced, TypeOK
  <1>3. ~call'[t].force /\ pc'[t] # "visit"
    <2> USE DEF Step, Goto, locals
    <2>1. CASE \E op \in {"scanSynch", "scanAsynch", "startScan"}, d \in Forces : CallScan(t, op, d)
      <3>1. \A d \in Forces : d = FALSE
        BY ThreadsAssumption
      <3>2. PICK op \in {"scanSynch", "scanAsynch", "startScan"}, d \in Forces : CallScan(t, op, d)
        BY <2>1
      <3>3. d = FALSE
        BY <3>1
      <3>4. /\ call' = [call EXCEPT ![t] = [fn |-> op, force |-> FALSE]]
            /\ \E l \in {"check", "acquire"} : pc' = [pc EXCEPT ![t] = l]
        BY <3>2, <3>3 DEF CallScan, Enter
      <3>5. QED  BY <1>2, <3>4
    <2>2. CASE CallStartPeriodicScan(t) \/ SetPeriodic(t) \/ \E b \in BOOLEAN : SetBreath(t, b)
      BY <1>2, <2>2 DEF CallStartPeriodicScan, SetPeriodic, SetBreath, Enter
    <2>3. CASE CallStopScan(t) \/ ScanEndWait(t)
      BY <1>2, <2>3 DEF CallStopScan, ScanEndWait
    <2>4. CASE AcquireScanLock(t) \/ InitScan(t) \/ CheckWait(t)
      BY <1>2, <2>4 DEF AcquireScanLock, InitScan, CheckWait, AfterCheck, AfterInit
    <2>5. CASE CheckForce(t) \/ ForceDone(t) \/ ForceRaises(t) \/ \E o \in Objs : ForceDisconnect(t, o)
      BY <1>2, <2>5 DEF CheckForce, ForceDone, ForceRaises, ForceDisconnect
    <2>6. CASE (\E w \in Workers : CreateTimer(t, w)) \/ StartTimer(t)
      BY <1>2, <2>6 DEF CreateTimer, StartTimer, Home, Free, NoCall
    <2>7. CASE \E w \in Workers : Spawn(t, w)
      BY <1>2, <2>7 DEF Spawn, Free
    <2>8. CASE WaitStart(t) \/ Return(t) \/ Begin(t) \/ NotPeriodic(t) \/ Again(t)
      BY <1>2, <2>8 DEF WaitStart, Return, Begin, NotPeriodic, Again, Leave, Home, NoCall
    <2>9. CASE StopListener(t) \/ StopPeriodic(t) \/ ClearPeriodic(t) \/ StopBreath(t) \/ CancelTimer(t)
      BY <1>2, <2>9 DEF StopListener, StopPeriodic, ClearPeriodic, StopBreath, CancelTimer
    <2>10. CASE StartScan(t)
      <3> DEFINE q == Wake(Wake(pc, "blockedStart", LAMBDA v : "return"),
                           "blockedConnect", AfterCheck)
      <3>1. \E next \in {"scanning", "dead", "ends"} : pc' = [q EXCEPT ![t] = next]
        BY <2>10, AfterLabels DEF StartScan
      <3>2. q \in [Threads -> Labels] /\ call' = call
        BY <1>2, <2>10, WakeStart DEF StartScan
      <3> HIDE DEF q
      <3>3. QED  BY <1>2, <3>1, <3>2
    <2>11. CASE SetScanRun(t)
      <3>1. pc' = [Wake(pc, "blockedRun", Home) EXCEPT ![t] = "release"] /\ call' = call
        BY <2>11 DEF SetScanRun
      <3>2. Wake(pc, "blockedRun", Home) \in [Threads -> Labels]
        BY <1>2, WakeRun
      <3>3. pc'[t] = "release"
        BY <3>1, <3>2
      <3>4. QED  BY <1>2, <3>1, <3>3
    <2>12. CASE ReleaseScanLock(t) \/ ScanAgain(t) \/ PeriodTime(t)
      BY <1>2, <2>12 DEF ReleaseScanLock, ScanAgain, PeriodTime, Enter
    <2>13. CASE \E o \in Objs : ConnectBegins(t, o) \/ DisconnectBegins(t, o)
      BY <1>2, <2>13 DEF ConnectBegins, DisconnectBegins, Take
    <2>14. CASE ConnectFails(t) \/ ConnectDone(t) \/ RegClear(t) \/ RegAdd(t) \/ RegDel(t) \/ RegCheck(t)
      BY <1>2, <2>14 DEF ConnectFails, ConnectDone, RegClear, RegAdd, RegDel, RegCheck
    <2>15. CASE RegSet(t)
      <3>1. /\ pc' = [Wake(pc, "blockedConnect", AfterCheck) EXCEPT ![t] = "idle"]
            /\ call' = call
        BY <2>15 DEF RegSet
      <3>2. Wake(pc, "blockedConnect", AfterCheck) \in [Threads -> Labels]
        BY <1>2, WakeConnect
      <3>3. pc'[t] = "idle"
        BY <1>2, <3>1, <3>2
      <3>4. QED  BY <1>2, <3>1, <3>3
    <2>16. CASE ScanOver(t) \/ ScanRaises(t) \/ \E o \in Objs : AddDevice(t, o)
      BY <1>2, <2>16 DEF ScanOver, ScanRaises, Leave, Home, NoCall, AddDevice
    <2>17. QED
      BY <2>1, <2>2, <2>3, <2>4, <2>5, <2>6, <2>7, <2>8, <2>9, <2>10, <2>11, <2>12, <2>13,
         <2>14, <2>15, <2>16
      DEF Does, Entry, Proceed, Device, Report
  <1>4. QED  BY <1>1, <1>3 DEF Unforced

\* A step outside the reports leaves them and the connections alone.
LEMMA ScanKeepsReports ==
  ASSUME TypeOK, TimerPending, Unforced, NEW t \in Threads, Does(t), ~Device(t)
  PROVE  /\ connected' = connected /\ obj' = obj /\ connectedDev' \subseteq connectedDev
         /\ connectLock => connectLock'
         /\ \A u \in Threads : pc[u] \in ReportLabels \/ pc'[u] \in ReportLabels => pc'[u] = pc[u]
  <1>1. pc[t] # "visit" /\ ~call[t].force /\ pc \in [Threads -> Labels]
    BY DEF Unforced, TypeOK
  <1>2. /\ ~CheckForce(t) /\ ~ForceDone(t) /\ ~ForceRaises(t)
        /\ \A o \in Objs : ~ForceDisconnect(t, o)
    BY <1>1 DEF CheckForce, ForceDone, ForceRaises, ForceDisconnect, Step
  <1>3. connected' = connected /\ obj' = obj /\ connectedDev' \subseteq connectedDev
    BY <1>2 DEF Does, Entry, CallScan, CallStartPeriodicScan, CallStopScan, ScanEndWait,
       Proceed, AcquireScanLock, InitScan, CheckWait, Spawn, StartScan,
       CreateTimer, WaitStart, Return, SetPeriodic, SetBreath, StopListener, StopPeriodic,
       ClearPeriodic, StopBreath, CancelTimer, Begin, SetScanRun, ReleaseScanLock, NotPeriodic,
       Again, ScanAgain, StartTimer, PeriodTime, ScanOver, ScanRaises, AddDevice, registry, locals
  <1>4. connectLock => connectLock'
    BY <1>2 DEF Does, Entry, CallScan, CallStartPeriodicScan, CallStopScan, ScanEndWait,
       Proceed, AcquireScanLock, InitScan, CheckWait, Spawn, StartScan,
       CreateTimer, WaitStart, Return, SetPeriodic, SetBreath, StopListener, StopPeriodic,
       ClearPeriodic, StopBreath, CancelTimer, Begin, SetScanRun, ReleaseScanLock, NotPeriodic,
       Again, ScanAgain, StartTimer, PeriodTime, ScanOver, ScanRaises, AddDevice, events
  <1>5. ASSUME NEW u \in Threads, u # t, pc[u] \in ReportLabels \/ pc'[u] \in ReportLabels
        PROVE  pc'[u] = pc[u]
    BY <1>5, OthersMove DEF Moved, ReportLabels, AfterCheck, Home, TimerLabels
  <1>6. ASSUME pc[t] \in ReportLabels \/ pc'[t] \in ReportLabels PROVE pc'[t] = pc[t]
    <2> USE DEF Step, Goto, locals, ReportLabels
    <2>1. CASE Entry(t)
      BY <1>1, <1>6, <2>1 DEF Entry, CallScan, CallStartPeriodicScan, CallStopScan, ScanEndWait,
         Call, Enter
    <2>2. CASE AcquireScanLock(t) \/ InitScan(t) \/ CheckWait(t)
      BY <1>1, <1>6, <2>2 DEF AcquireScanLock, InitScan, CheckWait, AfterCheck, AfterInit
    <2>3. CASE (\E w \in Workers : CreateTimer(t, w)) \/ StartTimer(t)
      BY <1>1, <1>6, <2>3 DEF CreateTimer, StartTimer, Home, Free
    <2>4. CASE \E w \in Workers : Spawn(t, w)
      BY <1>1, <1>6, <2>4 DEF Spawn, Free
    <2>5. CASE WaitStart(t) \/ Return(t) \/ Begin(t) \/ NotPeriodic(t) \/ Again(t)
      BY <1>1, <1>6, <2>5 DEF WaitStart, Return, Begin, NotPeriodic, Again, Leave, Home
    <2>6. CASE \/ SetPeriodic(t) \/ \E b \in BOOLEAN : SetBreath(t, b)
               \/ StopListener(t) \/ StopPeriodic(t) \/ ClearPeriodic(t) \/ StopBreath(t)
               \/ CancelTimer(t)
      BY <1>1, <1>6, <2>6 DEF SetPeriodic, SetBreath, Enter, StopListener, StopPeriodic,
         ClearPeriodic, StopBreath, CancelTimer
    <2>7. CASE StartScan(t)
      <3> DEFINE q == Wake(Wake(pc, "blockedStart", LAMBDA v : "return"),
                           "blockedConnect", AfterCheck)
      <3>1. \E next \in {"scanning", "dead", "ends"} : pc' = [q EXCEPT ![t] = next]
        BY <2>7, AfterLabels DEF StartScan
      <3>2. q \in [Threads -> Labels] /\ pc[t] = "start"
        BY <1>1, <2>7, WakeStart DEF StartScan
      <3> HIDE DEF q
      <3>3. QED  BY <1>6, <3>1, <3>2
    <2>8. CASE SetScanRun(t)
      <3>1. pc' = [Wake(pc, "blockedRun", Home) EXCEPT ![t] = "release"] /\ pc[t] = "ends"
        BY <2>8 DEF SetScanRun
      <3>2. Wake(pc, "blockedRun", Home) \in [Threads -> Labels]
        BY <1>1, WakeRun
      <3>3. pc'[t] = "release"
        BY <3>1, <3>2
      <3>4. QED  BY <1>6, <3>1, <3>3
    <2>9. CASE ReleaseScanLock(t) \/ ScanAgain(t) \/ PeriodTime(t)
      BY <1>1, <1>6, <2>9 DEF ReleaseScanLock, ScanAgain, PeriodTime, Enter
    <2>10. CASE ScanOver(t) \/ ScanRaises(t) \/ \E o \in Objs : AddDevice(t, o)
      BY <1>1, <1>6, <2>10 DEF ScanOver, ScanRaises, Leave, Home, AddDevice
    <2>11. QED
      BY <1>2, <2>1, <2>2, <2>3, <2>4, <2>5, <2>6, <2>7, <2>8, <2>9, <2>10 DEF Does, Proceed
  <1>7. QED  BY <1>3, <1>4, <1>5, <1>6

\* ... and keeps the invariant.
LEMMA ReportsKept ==
  ASSUME ConnectInv, Unforced',
         connected' = connected, obj' = obj, connectedDev' \subseteq connectedDev,
         connectLock => connectLock',
         \A u \in Threads : pc[u] \in ReportLabels \/ pc'[u] \in ReportLabels => pc'[u] = pc[u]
  PROVE  ConnectInv'
  <1>1. ReportsApart'
    BY DEF ConnectInv, ReportsApart, ReportLabels
  <1>2. StoredHeld'
    BY DEF ConnectInv, StoredHeld, ReportLabels
  <1>3. ConnectLockFreed'
    BY DEF ConnectInv, Unforced, ConnectLockFreed, ReportLabels
  <1>4. QED  BY <1>1, <1>2, <1>3 DEF ConnectInv

\* The control of the others while a device thread takes a step.
LEMMA DeviceMoves ==
  ASSUME TypeOK, TimerPending, NEW t \in Threads, Device(t), NEW u \in Threads, u # t
  PROVE  pc[u] \in ReportLabels \/ pc'[u] \in ReportLabels => pc'[u] = pc[u]
  <1>1. Moved(t, u) /\ pc[t] \in ReportLabels \cup {"idle"}
    BY OthersMove DEF Does, Device, Report, ConnectBegins, DisconnectBegins, ConnectFails,
       ConnectDone, RegClear, RegAdd, RegDel, RegCheck, RegSet, Take, Step, ReportLabels
  <1>2. QED  BY <1>1 DEF Moved, ReportLabels, AfterCheck, Home, Spawn, TimerLabels

\* devConnected and devDisconnected keep it, step by step.
LEMMA DeviceConnect ==
  ASSUME TypeOK, TimerPending, ConnectInv, Unforced', NEW t \in Threads, Device(t)
  PROVE  ConnectInv'
  <1>1. \A u \in Threads : u # t /\ (pc[u] \in ReportLabels \/ pc'[u] \in ReportLabels) => pc'[u] = pc[u]
    BY DeviceMoves
  <1>2. /\ Unforced /\ ReportsApart /\ StoredHeld /\ ConnectLockFreed
        /\ pc \in [Threads -> Labels] /\ obj \in [Threads -> Objs \cup {None}]
        /\ None \notin Objs /\ connected \subseteq Objs /\ connectedDev \subseteq Objs
    BY ThreadsAssumption DEF ConnectInv, TypeOK
  <1>3. ASSUME NEW o \in Objs, ConnectBegins(t, o) PROVE ConnectInv'
    <2>1. /\ pc[t] = "idle" /\ pc' = [pc EXCEPT ![t] = "connecting"]
          /\ obj' = [obj EXCEPT ![t] = o] /\ (\A u \in Threads : obj[u] # o) /\ o \notin connected
          /\ connectedDev' = connectedDev /\ connected' = connected /\ connectLock' = connectLock
      BY <1>3 DEF ConnectBegins, Take, Step, Goto, events, registry
    <2>2. ReportsApart'
      BY <1>1, <1>2, <2>1 DEF ReportsApart, ReportLabels
    <2>3. StoredHeld'
      BY <1>2, <2>1 DEF StoredHeld
    <2>4. ConnectLockFreed'
      BY <1>2, <2>1 DEF ConnectLockFreed
    <2>5. QED  BY <2>2, <2>3, <2>4 DEF ConnectInv
  <1>4. ASSUME ConnectFails(t) PROVE ConnectInv'
    <2>1. /\ pc[t] = "connecting" /\ pc' = [pc EXCEPT ![t] = "idle"]
          /\ obj' = [obj EXCEPT ![t] = None]
          /\ connectedDev' = connectedDev /\ connected' = connected /\ connectLock' = connectLock
      BY <1>4 DEF ConnectFails, Drop, Step, Goto, events, registry
    <2>2. ReportsApart'
      BY <1>1, <1>2, <2>1 DEF ReportsApart, ReportLabels
    <2>3. StoredHeld'
      BY <1>2, <2>1 DEF StoredHeld
    <2>4. ConnectLockFreed'
      BY <1>2, <2>1 DEF ConnectLockFreed
    <2>5. QED  BY <2>2, <2>3, <2>4 DEF ConnectInv
  <1>5. ASSUME ConnectDone(t) PROVE ConnectInv'
    <2>1. /\ pc[t] = "connecting" /\ pc' = [pc EXCEPT ![t] = "regClear"] /\ obj' = obj
          /\ connectedDev' = connectedDev /\ connected' = connected \cup {obj[t]}
          /\ connectLock' = connectLock /\ obj[t] \in Objs
      BY <1>5 DEF ConnectDone, Step, Goto, events, locals, TypeOK
    <2>2. ReportsApart'
      BY <1>1, <1>2, <2>1 DEF ReportsApart, ReportLabels
    <2>3. StoredHeld'
      BY <1>2, <2>1 DEF StoredHeld
    <2>4. ConnectLockFreed'
      BY <1>2, <2>1 DEF ConnectLockFreed
    <2>5. QED  BY <2>2, <2>3, <2>4 DEF ConnectInv
  <1>6. ASSUME RegClear(t) PROVE ConnectInv'
    <2>1. /\ pc[t] = "regClear" /\ pc' = [pc EXCEPT ![t] = "regAdd"] /\ obj' = obj
          /\ connectedDev' = connectedDev /\ connected' = connected /\ obj[t] \in connected
      BY <1>2, <1>6 DEF RegClear, Step, Goto, registry, locals, ReportsApart
    <2>2. ReportsApart'
      BY <1>1, <1>2, <2>1 DEF ReportsApart, ReportLabels
    <2>3. StoredHeld'
      BY <1>2, <2>1 DEF StoredHeld
    <2>4. ConnectLockFreed'
      BY <2>1 DEF ConnectLockFreed
    <2>5. QED  BY <2>2, <2>3, <2>4 DEF ConnectInv
  <1>7. ASSUME RegAdd(t) PROVE ConnectInv'
    <2>1. /\ pc[t] = "regAdd" /\ pc' = [pc EXCEPT ![t] = "idle"]
          /\ obj' = [obj EXCEPT ![t] = None] /\ obj[t] \in connected
          /\ connectedDev' = (connectedDev \ SameAddr(obj[t])) \cup {obj[t]}
          /\ connected' = connected /\ connectLock' = connectLock
      BY <1>2, <1>7 DEF RegAdd, Drop, Step, Goto, events, ReportsApart
    <2>2. ReportsApart'
      BY <1>1, <1>2, <2>1 DEF ReportsApart, ReportLabels
    <2>3. StoredHeld'
      BY <1>2, <2>1 DEF StoredHeld
    <2>4. ConnectLockFreed'
      BY <1>2, <2>1 DEF ConnectLockFreed
    <2>5. QED  BY <2>2, <2>3, <2>4 DEF ConnectInv
  <1>8. ASSUME NEW o \in Objs, DisconnectBegins(t, o) PROVE ConnectInv'
    <2>1. /\ pc[t] = "idle" /\ pc' = [pc EXCEPT ![t] = "regDel"]
          /\ obj' = [obj EXCEPT ![t] = o] /\ (\A u \in Threads : obj[u] # o) /\ o \in connected
          /\ connectedDev' = connectedDev /\ connected' = connected \ {o}
          /\ connectLock' = connectLock
      BY <1>8 DEF DisconnectBegins, Take, Step, Goto, events
    <2>2. ReportsApart'
      BY <1>1, <1>2, <2>1 DEF ReportsApart, ReportLabels
    <2>3. pc'[t] = "regDel" /\ obj'[t] = o
      BY <1>2, <2>1
    <2>4. StoredHeld'
      BY <1>2, <2>1, <2>3 DEF StoredHeld
    <2>5. ConnectLockFreed'
      BY <2>3 DEF ConnectLockFreed
    <2>6. QED  BY <2>2, <2>4, <2>5 DEF ConnectInv
  <1>9. ASSUME RegDel(t) PROVE ConnectInv'
    <2>1. /\ pc[t] = "regDel" /\ pc' = [pc EXCEPT ![t] = "regCheck"] /\ obj' = obj
          /\ connectedDev' = connectedDev \ SameAddr(obj[t])
          /\ connected' = connected /\ connectLock' = connectLock /\ obj[t] \in Objs
      BY <1>9 DEF RegDel, Step, Goto, events, locals, TypeOK
    <2>2. ReportsApart'
      BY <1>1, <1>2, <2>1 DEF ReportsApart, ReportLabels
    <2>3. obj[t] \notin connectedDev' /\ pc'[t] = "regCheck"
      BY <1>2, <2>1 DEF SameAddr
    <2>4. StoredHeld'
      BY <1>2, <2>1, <2>3 DEF StoredHeld
    <2>5. ConnectLockFreed'
      BY <2>3 DEF ConnectLockFreed
    <2>6. QED  BY <2>2, <2>4, <2>5 DEF ConnectInv
  <1>10. ASSUME RegCheck(t) PROVE ConnectInv'
    <2>1. /\ pc[t] = "regCheck"
          /\ connectedDev' = connectedDev /\ connected' = connected /\ connectLock' = connectLock
          /\ obj[t] \notin connected
          /\ \/ pc' = [pc EXCEPT ![t] = "regSet"] /\ obj' = obj
             \/ pc' = [pc EXCEPT ![t] = "idle"] /\ obj' = [obj EXCEPT ![t] = None]
                /\ connectedDev # {}
      BY <1>2, <1>10 DEF RegCheck, Step, Goto, registry, events, ReportsApart
    <2>2. ReportsApart'
      BY <1>1, <1>2, <2>1 DEF ReportsApart, ReportLabels
    <2>3. \A u \in Threads : pc[u] = "regDel" => pc'[u] = "regDel" /\ obj'[u] = obj[u]
      BY <1>1, <1>2, <2>1 DEF ReportLabels
    <2>4. StoredHeld'
      BY <1>2, <2>1, <2>3 DEF StoredHeld
    <2>5. ConnectLockFreed'
      <3>1. CASE pc' = [pc EXCEPT ![t] = "regSet"]
        <4>1. pc'[t] = "regSet"
          BY <1>2, <3>1
        <4>2. QED  BY <4>1 DEF ConnectLockFreed
      <3>2. CASE connectedDev # {}
        <4>1. PICK o \in connectedDev : TRUE
          BY <3>2
        <4>2. connected # {} \/ \E u \in Threads : pc'[u] = "regDel"
          BY <1>2, <2>3, <4>1 DEF StoredHeld
        <4>3. QED  BY <2>1, <4>2 DEF ConnectLockFreed
      <3>3. QED  BY <2>1, <3>1, <3>2
    <2>6. QED  BY <2>2, <2>4, <2>5 DEF ConnectInv
  <1>11. ASSUME RegSet(t) PROVE ConnectInv'
    <2>1. /\ pc[t] = "regSet" /\ obj' = [obj EXCEPT ![t] = None]
          /\ connectedDev' = connectedDev /\ connected' = connected /\ connectLock'
      BY <1>11 DEF RegSet, Drop, registry
    <2>2. pc'[t] = "idle"
      <3>1. pc' = [Wake(pc, "blockedConnect", AfterCheck) EXCEPT ![t] = "idle"]
        BY <1>11 DEF RegSet
      <3>2. Wake(pc, "blockedConnect", AfterCheck) \in [Threads -> Labels]
        BY <1>2, WakeConnect
      <3>3. QED  BY <1>2, <3>1, <3>2
    <2>3. ReportsApart'
      BY <1>1, <1>2, <2>1, <2>2 DEF ReportsApart, ReportLabels
    <2>4. \A u \in Threads : pc[u] = "regDel" => pc'[u] = "regDel" /\ obj'[u] = obj[u]
      BY <1>1, <1>2, <2>1 DEF ReportLabels
    <2>5. StoredHeld'
      BY <1>2, <2>1, <2>4 DEF StoredHeld
    <2>6. ConnectLockFreed'
      BY <2>1 DEF ConnectLockFreed
    <2>7. QED  BY <2>3, <2>5, <2>6 DEF ConnectInv
  <1>12. QED
    BY <1>3, <1>4, <1>5, <1>6, <1>7, <1>8, <1>9, <1>10, <1>11 DEF Device, Report

\* When nobody passes forceDisconnect, a scan that waits for the devices is not
\* forgotten: while _connect_lock is clear a device is connected, or the thread that
\* disconnects it will look at the dictionary and set it.
THEOREM ConnectLockIsFreed ==
  ASSUME TRUE \notin Forces PROVE Spec => []ConnectLockFreed
  <1>1. Init => ConnectInv
    BY ThreadsAssumption
    DEF Init, ConnectInv, Unforced, ReportsApart, StoredHeld, ConnectLockFreed, NoCall, ReportLabels
  <1>2. ASSUME TypeOK, TimerPending, ConnectInv, [Next]_vars PROVE ConnectInv'
    <2>1. CASE UNCHANGED Kept
      BY <1>2, <2>1 DEF ConnectInv, Unforced, ReportsApart, StoredHeld, ConnectLockFreed, Kept,
         events, locals
    <2>2. ASSUME NEW t \in Threads, Does(t) PROVE ConnectInv'
      <3>1. Unforced
        BY <1>2 DEF ConnectInv
      <3>2. Unforced'
        BY <1>2, <2>2, <3>1, UnforcedStep
      <3>3. CASE Device(t)
        BY <1>2, <3>2, <3>3, DeviceConnect
      <3>4. CASE ~Device(t)
        <4>1. /\ connected' = connected /\ obj' = obj /\ connectedDev' \subseteq connectedDev
              /\ connectLock => connectLock'
              /\ \A u \in Threads : pc[u] \in ReportLabels \/ pc'[u] \in ReportLabels => pc'[u] = pc[u]
          BY <1>2, <2>2, <3>1, <3>4, ScanKeepsReports
        <4>2. QED  BY <1>2, <3>2, <4>1, ReportsKept
      <3>5. QED  BY <3>3, <3>4
    <2>3. QED  BY <1>2, <2>1, <2>2, TimerLostKeeps, StutterKeeps DEF Next, Does, TimerLost
  <1>3. ConnectInv => ConnectLockFreed
    BY DEF ConnectInv
  <1>4. QED  BY ScanTyping, TimerInductive, <1>1, <1>2, <1>3, PTL DEF Spec

----------------------------------------------------------------------------
(* One periodic scan.  Every thread inside a scan carries it on; it hands  *)
(* the scan over before it ends.                                           *)

\* What a thread that is inside a scan runs.
InScan(l, fn) ==
  /\ l \in {"acquire", "init", "check", "blockedConnect", "visit", "spawn"} => fn = "scanAsynch"
  /\ l \in {"begin", "start", "scanning", "ends", "release", "again", "breathe", "startTimer"}
       => fn = "listener"

\* A thread inside startPeriodicScan, past the test of _periodic, is the one that starts
\* periodic scans, and none is carried on.
StartLabels == {"setPeriodic", "setBreath"}
Starting ==
  \A t \in Threads :
    pc[t] \in StartLabels =>
      /\ t \in Callers /\ "startPeriodicScan" \in Ops[t]
      /\ \A u \in Threads : ~Carries(u)

\* The inductive invariant of the periodic scan.
ChainInv ==
  OnePeriodicChain /\ Starting /\ \A t \in Threads : InScan(pc[t], call[t].fn)

\* Callers that only start and stop periodic scans and wait for the end of one; one of
\* them starts.
PeriodicUse == \A c \in Callers : Ops[c] \subseteq {"startPeriodicScan", "stopScan", "scanEndWait"}
OneStarter ==
  \A c, d \in Callers : "startPeriodicScan" \in Ops[c] /\ "startPeriodicScan" \in Ops[d] => c = d

\* Another thread carries the scan on after a step only if it did before, or is given it.
LEMMA OthersCarry ==
  ASSUME TypeOK, TimerPending, ChainInv, NEW t \in Threads, Does(t), NEW u \in Threads, u # t
  PROVE  /\ Carries(u)' => \/ Carries(u)
                           \/ u = timer /\ StartTimer(t)
                           \/ Spawn(t, u)
         /\ InScan(pc'[u], call'[u].fn)
         /\ pc'[u] \in StartLabels => pc[u] \in StartLabels
  <1>1. Moved(t, u) /\ InScan(pc[u], call[u].fn) /\ InScan(pc[t], call[t].fn)
    BY OthersMove DEF ChainInv
  <1>2. ASSUME Spawn(t, u) PROVE pc'[u] = "begin" /\ call'[u].fn = "listener"
    <2>1. pc[t] = "spawn" /\ call[t].fn = "scanAsynch"
      BY <1>1, <1>2 DEF Spawn, InScan
    <2>2. QED  BY <1>2, <2>1 DEF Spawn, TypeOK
  <1>3. QED  BY <1>1, <1>2 DEF Moved, Carries, InScan, AfterCheck, Home, TimerLabels, StartLabels, Spawn

\* The thread that takes the step carries the scan on after it only if it did before,
\* or has started it.
LEMMA OwnCarry ==
  ASSUME TypeOK, TimerPending, ChainInv, NEW t \in Threads, Does(t), PeriodicUse
  PROVE  /\ Carries(t)' => Carries(t) \/ pc[t] = "setBreath"
         /\ pc[t] = "startTimer" => Carries(t)
         /\ pc[t] = "spawn" => Carries(t)
         /\ InScan(pc'[t], call'[t].fn)
         /\ pc'[t] \in StartLabels => CallStartPeriodicScan(t) \/ SetPeriodic(t)
  <1>1. /\ InScan(pc[t], call[t].fn) /\ pc \in [Threads -> Labels]
        /\ call \in [Threads -> [fn : Functions, force : BOOLEAN]]
    BY DEF ChainInv, TypeOK
  <1>2. (pc[t] = "startTimer" => Carries(t)) /\ (pc[t] = "spawn" => Carries(t))
    BY <1>1 DEF InScan, Carries
  <1> DEFINE Goes == /\ Carries(t)' => Carries(t) \/ pc[t] = "setBreath"
                     /\ InScan(pc'[t], call'[t].fn)
                     /\ pc'[t] \in StartLabels => CallStartPeriodicScan(t) \/ SetPeriodic(t)
  <1> USE DEF Step, Goto, locals, InScan, Carries, StartLabels
  <1>3. CASE \E op \in {"scanSynch", "scanAsynch", "startScan"}, d \in Forces : CallScan(t, op, d)
    BY <1>3 DEF CallScan, Call, PeriodicUse
  <1>4. CASE CallStartPeriodicScan(t) \/ SetPeriodic(t)
    <2>1. (\E l \in StartLabels : pc' = [pc EXCEPT ![t] = l]) /\ call' = call /\ pc[t] \in {"idle", "setPeriodic"}
      BY <1>4 DEF CallStartPeriodicScan, SetPeriodic, Call
    <2>2. QED  BY <1>1, <1>4, <2>1
  <1>5. ASSUME NEW l \in Labels, pc'[t] = l, call' = call,
               l # "timer", l \notin StartLabels, l \notin {"waitStart", "blockedStart", "return"}
                 => pc[t] \notin {"waitStart", "blockedStart", "return"},
               InScan(l, call[t].fn)
        PROVE  Goes
    BY <1>1, <1>5
  <1>6. ASSUME NEW l \in Labels, pc'[t] = l, call'[t].fn = None,
               l \in {"idle", "dead"}
        PROVE  Goes
    BY <1>6, ThreadsAssumption
  <1>7. CASE CallStopScan(t) \/ ScanEndWait(t)
    BY <1>1, <1>7 DEF CallStopScan, ScanEndWait, Call
  <1>8. CASE AcquireScanLock(t) \/ InitScan(t) \/ CheckWait(t) \/ CheckForce(t)
    BY <1>1, <1>8 DEF AcquireScanLock, InitScan, CheckWait, CheckForce, AfterCheck, AfterInit
  <1>9. CASE ForceDone(t)
    <2>1. /\ pc[t] = "visit" /\ call' = call
          /\ pc' = [Wake(pc, "blockedConnect", AfterCheck) EXCEPT ![t] = AfterCheck(t)]
      BY <1>9 DEF ForceDone
    <2>2. Wake(pc, "blockedConnect", AfterCheck) \in [Threads -> Labels]
      BY <1>1, WakeConnect
    <2>3. pc'[t] = AfterCheck(t)
      BY <2>1, <2>2
    <2>4. pc'[t] = "acquire"
      BY <1>1, <2>1, <2>3 DEF AfterCheck
    <2>5. QED  BY <1>1, <2>1, <2>4
  <1>10. CASE ForceRaises(t) \/ Return(t) \/ NotPeriodic(t) \/ ScanRaises(t) \/ StartTimer(t)
    <2>1. pc'[t] \in {"idle", "dead"} /\ call'[t].fn = None
      BY <1>1, <1>10 DEF ForceRaises, Return, NotPeriodic, ScanRaises, StartTimer, Leave, Home, NoCall
    <2>2. QED  BY <1>2, <2>1, ThreadsAssumption
  <1>11. CASE \E o \in Objs : ForceDisconnect(t, o)
    BY <1>1, <1>11 DEF ForceDisconnect
  <1>12. CASE \E w \in Workers : CreateTimer(t, w)
    <2>1. pc[t] = "breathe" /\ pc'[t] = "startTimer" /\ call' = call
      BY <1>1, <1>12 DEF CreateTimer
    <2>2. QED  BY <1>1, <2>1
  <1>13. CASE \E w \in Workers : Spawn(t, w)
    <2>1. PICK w \in Workers : Spawn(t, w)
      BY <1>13
    <2>2. pc[t] = "spawn" /\ w # t /\ pc'[t] = "waitStart" /\ call'[t] = call[t]
      BY <1>1, <2>1 DEF Spawn, Free
    <2>3. QED  BY <1>1, <2>2
  <1>14. CASE WaitStart(t) \/ Begin(t)
    BY <1>1, <1>14 DEF WaitStart, Begin
  <1>15. CASE StopListener(t) \/ StopPeriodic(t) \/ ClearPeriodic(t) \/ StopBreath(t) \/ CancelTimer(t)
    BY <1>1, <1>15 DEF StopListener, StopPeriodic, ClearPeriodic, StopBreath, CancelTimer
  <1>16. CASE StartScan(t)
    <2> DEFINE q == Wake(Wake(pc, "blockedStart", LAMBDA v : "return"),
                         "blockedConnect", AfterCheck)
    <2>1. \E next \in AfterStart(t) : pc' = [q EXCEPT ![t] = next]
      BY <1>16 DEF StartScan
    <2>2. q \in [Threads -> Labels] /\ pc[t] = "start" /\ call' = call
      BY <1>1, <1>16, WakeStart DEF StartScan
    <2>3. AfterStart(t) = {"scanning", "ends"}
      BY <1>1, <2>2 DEF AfterStart
    <2> HIDE DEF q
    <2>4. pc'[t] \in {"scanning", "ends"}
      BY <2>1, <2>2, <2>3
    <2>5. QED  BY <1>1, <2>2, <2>4
  <1>17. CASE SetScanRun(t)
    <2>1. /\ pc' = [Wake(pc, "blockedRun", Home) EXCEPT ![t] = "release"]
          /\ pc[t] = "ends" /\ call' = call
      BY <1>17 DEF SetScanRun
    <2>2. Wake(pc, "blockedRun", Home) \in [Threads -> Labels]
      BY <1>1, WakeRun
    <2>3. pc'[t] = "release"
      BY <2>1, <2>2
    <2>4. QED  BY <1>1, <2>1, <2>3
  <1>18. CASE ReleaseScanLock(t) \/ Again(t)
    BY <1>1, <1>18 DEF ReleaseScanLock, Again
  <1>19. CASE ScanAgain(t) \/ PeriodTime(t) \/ \E b \in BOOLEAN : SetBreath(t, b)
    BY <1>1, <1>19 DEF ScanAgain, PeriodTime, SetBreath, Enter
  <1>20. CASE \E o \in Objs : ConnectBegins(t, o) \/ DisconnectBegins(t, o)
    BY <1>1, <1>20 DEF ConnectBegins, DisconnectBegins, Take
  <1>21. CASE ConnectFails(t) \/ ConnectDone(t) \/ RegClear(t) \/ RegAdd(t) \/ RegDel(t) \/ RegCheck(t)
    BY <1>1, <1>21 DEF ConnectFails, ConnectDone, RegClear, RegAdd, RegDel, RegCheck
  <1>22. CASE RegSet(t)
    <2>1. /\ pc' = [Wake(pc, "blockedConnect", AfterCheck) EXCEPT ![t] = "idle"]
          /\ pc[t] = "regSet" /\ call' = call
      BY <1>22 DEF RegSet
    <2>2. Wake(pc, "blockedConnect", AfterCheck) \in [Threads -> Labels]
      BY <1>1, WakeConnect
    <2>3. pc'[t] = "idle"
      BY <1>1, <2>1, <2>2
    <2>4. QED  BY <1>1, <2>1, <2>3
  <1>23. CASE ScanOver(t) \/ \E o \in Objs : AddDevice(t, o)
    BY <1>1, <1>23 DEF ScanOver, AddDevice
  <1>24. QED
    BY <1>2, <1>3, <1>4, <1>7, <1>8, <1>9, <1>10, <1>11, <1>12, <1>13, <1>14, <1>15, <1>16,
       <1>17, <1>18, <1>19, <1>20, <1>21, <1>22, <1>23
    DEF Does, Entry, Proceed, Device, Report

\* A step hands the scan from one thread to one other.
LEMMA ChainStep ==
  ASSUME TypeOK, TimerPending, ChainInv, NEW t \in Threads, Does(t), PeriodicUse, OneStarter
  PROVE  ChainInv'
  <1>1. \A u \in Threads \ {t} :
          Carries(u)' => Carries(u) \/ (u = timer /\ StartTimer(t)) \/ Spawn(t, u)
    BY OthersCarry
  <1>2. /\ Carries(t)' => Carries(t) \/ pc[t] = "setBreath"
        /\ pc[t] = "startTimer" => Carries(t)
        /\ pc[t] = "spawn" => Carries(t)
    BY OwnCarry
  <1>3. \A u \in Threads : InScan(pc'[u], call'[u].fn)
    BY OthersCarry, OwnCarry
  <1>4. /\ \A u, v \in Threads : Carries(u) /\ Carries(v) => u = v
        /\ pc[t] = "setBreath" => \A u \in Threads : ~Carries(u)
    BY DEF ChainInv, OnePeriodicChain, Starting, StartLabels
  <1>5. ASSUME NEW w \in Threads, w # t, Spawn(t, w) PROVE ~Carries(t)' /\ pc[t] = "spawn"
    <2>1. InScan(pc[t], call[t].fn) /\ pc[t] = "spawn"
      BY <1>5 DEF ChainInv, Spawn
    <2>2. pc'[t] = "waitStart" /\ call'[t] = call[t] /\ call[t].fn = "scanAsynch"
      BY <1>5, <2>1 DEF Spawn, TypeOK, InScan
    <2>3. QED  BY <2>1, <2>2 DEF Carries
  <1>6. ASSUME StartTimer(t) PROVE ~Carries(t)' /\ pc[t] = "startTimer"
    <2>1. pc'[t] \in {"idle", "dead"} /\ call'[t].fn = None /\ pc[t] = "startTimer"
      BY <1>6 DEF StartTimer, TypeOK, NoCall, Home
    <2>2. QED  BY <2>1, ThreadsAssumption DEF Carries
  <1>7. \A u, v \in Threads : Spawn(t, u) /\ Spawn(t, v) /\ u # t /\ v # t => u = v
    BY DEF Spawn
  <1>8. \A u \in Threads : StartTimer(t) => ~Spawn(t, u)
    BY DEF Spawn, StartTimer
  <1> DEFINE Given(x) == x # t /\ (Spawn(t, x) \/ (x = timer /\ StartTimer(t)))
  <1>9. \A x \in Threads : Given(x) => Carries(t) /\ ~Carries(t)'
    BY <1>2, <1>5, <1>6
  <1>10. \A x \in Threads : x # t /\ Carries(x)' => Carries(x) \/ Given(x)
    BY <1>1
  <1>11. ASSUME NEW u \in Threads, NEW v \in Threads, Carries(u)', Carries(v)' PROVE u = v
    <2>1. \A x, y \in Threads : Given(x) /\ Given(y) => x = y
      BY <1>7, <1>8
    <2> HIDE DEF Given
    <2>2. QED  BY <1>2, <1>4, <1>9, <1>10, <1>11, <2>1
  <1>12. ASSUME NEW v \in Threads, pc'[v] \in StartLabels
         PROVE  /\ v \in Callers /\ "startPeriodicScan" \in Ops[v]
                /\ \A u \in Threads : ~Carries(u)'
    <2> HIDE DEF Given
    <2>1. CASE v = t
      <3>1. CallStartPeriodicScan(t) \/ SetPeriodic(t)
        BY <1>12, <2>1, OwnCarry
      <3>2. /\ t \in Callers /\ "startPeriodicScan" \in Ops[t]
            /\ \A u \in Threads : ~Carries(u)
        <4>1. CASE CallStartPeriodicScan(t)
          BY <4>1 DEF CallStartPeriodicScan, Call, PeriodicUse
        <4>2. CASE SetPeriodic(t)
          BY <4>2 DEF SetPeriodic, Step, ChainInv, Starting, StartLabels
        <4>3. QED  BY <3>1, <4>1, <4>2
      <3>3. pc[t] # "setBreath"
        BY <3>1 DEF CallStartPeriodicScan, Call, SetPeriodic, Step
      <3>4. QED  BY <1>2, <1>9, <1>10, <2>1, <3>2, <3>3
    <2>2. CASE v # t
      <3>1. pc[v] \in StartLabels
        BY <1>12, <2>2, OthersCarry
      <3>2. /\ v \in Callers /\ "startPeriodicScan" \in Ops[v]
            /\ \A u \in Threads : ~Carries(u)
        BY <3>1 DEF ChainInv, Starting
      <3>3. pc[t] # "setBreath"
        BY <2>2, <3>2 DEF ChainInv, Starting, StartLabels, OneStarter
      <3>4. QED  BY <1>2, <1>9, <1>10, <3>2, <3>3
    <2>3. QED  BY <2>1, <2>2
  <1>13. OnePeriodicChain'
    BY <1>11 DEF OnePeriodicChain
  <1>14. Starting'
    BY <1>12 DEF Starting
  <1>15. QED  BY <1>3, <1>13, <1>14 DEF ChainInv

\* When the callers only start and stop periodic scans, one of them starts, and it does
\* so only when none is carried on, one thread at a time carries the scan on: the
\* hand-overs between the starter, the listener, the timer and the thread that scans next
\* never make two of one, whatever the others stop meanwhile.
THEOREM PeriodicChainIsOne ==
  ASSUME PeriodicUse, OneStarter PROVE Spec => []OnePeriodicChain
  <1>1. Init => ChainInv
    <2>1. ASSUME Init, NEW t \in Threads
          PROVE  pc[t] \in {"idle", "dead"} /\ call[t].fn = None
      BY <2>1 DEF Init, NoCall
    <2>2. ASSUME Init, NEW t \in Threads
          PROVE  ~Carries(t) /\ InScan(pc[t], call[t].fn) /\ pc[t] \notin StartLabels
      BY <2>1, <2>2, ThreadsAssumption DEF Carries, InScan, StartLabels
    <2>3. QED  BY <2>2 DEF ChainInv, OnePeriodicChain, Starting
  <1>2. ASSUME TypeOK, TimerPending, ChainInv, [Next]_vars PROVE ChainInv'
    <2>1. CASE UNCHANGED Kept
      BY <1>2, <2>1 DEF ChainInv, OnePeriodicChain, Starting, Carries, InScan, Kept, locals
    <2>2. ASSUME NEW t \in Threads, Does(t) PROVE ChainInv'
      BY <1>2, <2>2, ChainStep
    <2>3. QED  BY <1>2, <2>1, <2>2, TimerLostKeeps, StutterKeeps DEF Next, Does, TimerLost
  <1>3. ChainInv => OnePeriodicChain
    BY DEF ChainInv
  <1>4. QED  BY ScanTyping, TimerInductive, <1>1, <1>2, <1>3, PTL DEF Spec
=============================================================================
