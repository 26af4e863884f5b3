---------------------- MODULE DeviceTransactionsProofs ----------------------
(***************************************************************************)
(* Proofs about DeviceTransactions for any sets of threads and devices.    *)
(***************************************************************************)
EXTENDS DeviceTransactions, TLAPS

----------------------------------------------------------------------------
(* Type correctness *)

\* Where a lock operation or a join continues, and that a thread that works has
\* an object that a scan made.
ThenTyped ==
  \A t \in Threads :
    /\ pc[t] = "acquire" => then[t] \in {"find", "link", "close"}
    /\ pc[t] \in {"release", "set"} => then[t] \in {"use", "retry", "idle", "dead"}
    /\ pc[t] = "joinFirst" => then[t] \in {"operate", "discover"}
Working ==
  /\ registry \subseteq made
  /\ \A t \in Threads : pc[t] \notin {"idle", "dead"} => dev[t] \in made
Typing == TypeOK /\ ThenTyped /\ Working

\* The threads at rest have no device yet, and no lock operation to go on from.
LEMMA InitTyping == Init => Typing
  <1> SUFFICES ASSUME Init PROVE Typing
    OBVIOUS
  <1>1. ThenTyped /\ Working
    BY ThreadsAssumption DEF Init, Home, ThenTyped, Working, Threads
  <1>2. scanOn \in BOOLEAN
    BY DEF Init
  <1>3. TypeOK
    BY <1>2, ThreadsAssumption DEF Init, Home, TypeOK, Labels, Threads
  <1>4. QED
    BY <1>1, <1>3 DEF Typing

\* Each step of a command, a timer or a listener (l.330-423, l.1110-1345) keeps the
\* types: what it stores is a thread, a device or a label of its own kind, and the
\* operation that starts a lock operation says where the thread continues.
LEMMA ProceedTyping ==
  ASSUME Typing, NEW t \in Threads, Proceed(t) PROVE Typing'
  <1> USE ThreadsAssumption DEF Typing, TypeOK, ThenTyped, Working, Labels,
       Threads, Home, Step, Now, InProgress, Begin, EndAfter, Cancel, Ended, SameAddr,
       Registered, StopListening, scan, device, mutex, helpers, locals
  <1>1. ASSUME Release(t) PROVE Typing'
    BY <1>1 DEF Release
  <1>2. ASSUME ReleaseRaises(t) PROVE Typing'
    BY <1>2 DEF ReleaseRaises
  <1>3. ASSUME SetEvent(t) PROVE Typing'
    BY <1>3 DEF SetEvent
  <1>4. ASSUME LookupFree(t) PROVE Typing'
    BY <1>4 DEF LookupFree
  <1>5. ASSUME LookupBusy(t) PROVE Typing'
    BY <1>5 DEF LookupBusy
  <1>6. ASSUME LookupFails(t) PROVE Typing'
    BY <1>6 DEF LookupFails
  <1>7. ASSUME WaitEvent(t) PROVE Typing'
    BY <1>7 DEF WaitEvent
  <1>8. ASSUME Claim(t) PROVE Typing'
    BY <1>8 DEF Claim
  <1>9. ASSUME Reset(t) PROVE Typing'
    BY <1>9 DEF Reset
  <1>10. ASSUME FirstConnect(t) PROVE Typing'
    BY <1>10 DEF FirstConnect
  <1>11. ASSUME TestConnect(t) PROVE Typing'
    BY <1>11 DEF TestConnect
  <1>12. ASSUME StartConnect(t) PROVE Typing'
    BY <1>12 DEF StartConnect
  <1>13. ASSUME Linked(t) PROVE Typing'
    BY <1>13 DEF Linked
  <1>14. ASSUME NotLinked(t) PROVE Typing'
    BY <1>14 DEF NotLinked
  <1>15. ASSUME Retry(t) PROVE Typing'
    BY <1>15 DEF Retry
  <1>16. ASSUME Discover(t) PROVE Typing'
    BY <1>16 DEF Discover
  <1>17. ASSUME DiscoverFails(t) PROVE Typing'
    BY <1>17 DEF DiscoverFails
  <1>18. ASSUME Discovered(t) PROVE Typing'
    BY <1>18 DEF Discovered
  <1>19. ASSUME JoinFirst(t) PROVE Typing'
    BY <1>19 DEF JoinFirst
  <1>20. ASSUME JoinFirstFails(t) PROVE Typing'
    BY <1>20 DEF JoinFirstFails
  <1>21. ASSUME OperateRaises(t) PROVE Typing'
    BY <1>21 DEF OperateRaises
  <1>22. ASSUME TestConnected(t) PROVE Typing'
    BY <1>22 DEF TestConnected
  <1>23. ASSUME StartClose(t) PROVE Typing'
    BY <1>23 DEF StartClose
  <1>24. ASSUME Close(t) PROVE Typing'
    BY <1>24 DEF Close, CloseLink
  <1>25. ASSUME Closed(t) PROVE Typing'
    BY <1>25 DEF Closed
  <1>26. ASSUME Expire(t) PROVE Typing'
    BY <1>26 DEF Expire
  <1>27. ASSUME Fired(t) PROVE Typing'
    BY <1>27 DEF Fired
  <1>28. ASSUME ListenerStops(t) PROVE Typing'
    BY <1>28 DEF ListenerStops
  <1>29. ASSUME NEW l \in Listeners, Notify(t, l) PROVE Typing'
    BY <1>29 DEF Notify
  <1>30. ASSUME NEW keep \in Keeps, ReadWrite(t, keep) PROVE Typing'
    BY <1>30 DEF ReadWrite
  <1>31. ASSUME NEW w \in Timers, ArmKeep(t, w) PROVE Typing'
    BY <1>31 DEF ArmKeep, Arm, Spare
  <1>32. ASSUME Find(t) PROVE Typing'
    BY <1>32 DEF Find
  <1>33. ASSUME NotFound(t) PROVE Typing'
    BY <1>33 DEF NotFound
  <1>34. ASSUME GATTDiscover(t) PROVE Typing'
    BY <1>34 DEF GATTDiscover
  <1>35. ASSUME RediscoverFails(t) PROVE Typing'
    BY <1>35 DEF RediscoverFails
  <1>36. ASSUME NEW keep \in Keeps, Rediscover(t, keep) PROVE Typing'
    BY <1>36 DEF Rediscover
  <1>37. ASSUME LinkRaises(t) PROVE Typing'
    BY <1>37 DEF LinkRaises, Lose
  <1>38. ASSUME DiscoverRaises(t) PROVE Typing'
    BY <1>38 DEF DiscoverRaises
  <1>39. ASSUME NEW to \in {"idle", "dead", "hung"}, CloseBreaks(t, to) PROVE Typing'
    BY <1>39 DEF CloseBreaks, CloseLink, Lose
  <1>40. QED
    BY <1>1, <1>2, <1>3, <1>4, <1>5, <1>6, <1>7, <1>8, <1>9, <1>10, <1>11, <1>12,
         <1>13, <1>14, <1>15, <1>16, <1>17, <1>18, <1>19, <1>20, <1>21, <1>22,
         <1>23, <1>24, <1>25, <1>26, <1>27, <1>28, <1>29, <1>30, <1>31,
       <1>32, <1>33, <1>34, <1>35, <1>36, <1>37, <1>38, <1>39 DEF Proceed

\* So do the calls of the commands, the arrival of a notification and the failure of
\* a listener.
LEMMA NextTyping ==
  ASSUME Typing, [Next]_vars PROVE Typing'
  <1> USE ThreadsAssumption DEF Typing, TypeOK, ThenTyped, Working, Labels,
       Threads, Home, Step, Now, InProgress, Begin, EndAfter, Cancel, Ended, SameAddr,
       Registered, StopListening, scan, device, mutex, helpers, locals
  <1>1. ASSUME NEW t \in Threads, Proceed(t) PROVE Typing'
    BY <1>1, ProceedTyping
  <1>2. ASSUME NEW t \in Threads, Acquire(t) PROVE Typing'
    BY <1>2 DEF Acquire
  <1>3. ASSUME NEW t \in Threads, ListenerFails(t) PROVE Typing'
    BY <1>3 DEF ListenerFails
  <1>4. ASSUME NEW t \in Threads, NEW o \in Devs, Command(t, o) PROVE Typing'
    BY <1>4 DEF Command
  <1>5. ASSUME NEW t \in Threads, NEW w \in Timers, Notified(t, w) PROVE Typing'
    BY <1>5 DEF Notified, Arm, Spare
  <1>6. ASSUME UNCHANGED vars PROVE Typing'
    BY <1>6 DEF vars
  <1>7. ASSUME Scan PROVE Typing'
    <2>1. ASSUME InitScan PROVE Typing'
      BY <2>1 DEF InitScan
    <2>2. ASSUME ScanEnds PROVE Typing'
      BY <2>2 DEF ScanEnds
    <2>3. ASSUME NEW o \in Devs, ForceDisconnect(o) PROVE Typing'
      BY <2>3 DEF ForceDisconnect
    <2>4. ASSUME NEW o \in Devs, AddDevice(o) PROVE Typing'
      BY <2>4 DEF AddDevice
    <2>5. QED  BY <1>7, <2>1, <2>2, <2>3, <2>4 DEF Scan
  <1>8. QED
    BY <1>1, <1>2, <1>3, <1>4, <1>5, <1>6, <1>7 DEF Next

\* Type correctness of BLE_Device's fields, locks and threads, for any numbers of
\* command threads, keep timers, listeners and devices.
THEOREM DeviceTyping == Spec => []TypeOK
  <1>1. Typing => TypeOK
    BY DEF Typing
  <1>2. QED
    BY InitTyping, NextTyping, <1>1, PTL DEF Spec

----------------------------------------------------------------------------
(* A device nobody works on is free *)

\* From asking for the lock the device has now to the end of the transaction, the
\* thread still has a release before it.
Asking(t) == pc[t] = "acquire" /\ lockAt[t] = lockNo[dev[t]]
InTransaction(t) ==
  pc[t] \in {"find", "connect", "begin", "startConnect", "link", "close", "join", "release"}
Engaged(t) == InTransaction(t) \/ Asking(t)

\* Locks and events that are held or clear, and the locks that are asked for, are
\* those a device has or has had; an object not yet made has none.
NumbersPast ==
  /\ \A o \in Devs, n \in Nat : <<o, n>> \in held \cup cleared => n <= lockNo[o]
  /\ \A t \in Threads : pc[t] = "acquire" => lockAt[t] <= lockNo[dev[t]]
  /\ \A o \in Devs \ made, n \in Nat : <<o, n>> \notin held \cup cleared

\* _devices has one object for an address.
OneEach == \A x, y \in known : AddrOf[x] = AddrOf[y] => x = y

\* The lock a known device has, if held, is lost or is released by a thread that is on
\* its way.
HeldToEnd ==
  \A o \in known : <<o, lockNo[o]>> \in held \ lost => \E t \in Threads : dev[t] = o /\ Engaged(t)

\* The event a known device has, if clear, is set by a thread that is about to, by one
\* that will get the lock first, or by the one that releases the lock.
ClearedToEnd ==
  \A o \in known : <<o, lockNo[o]>> \in cleared \ held =>
    \E t \in Threads :
      /\ dev[t] = o
      /\ pc[t] = "set" \/ (pc[t] = "acquire" /\ lockAt[t] = lockNo[o])

Freeing == NumbersPast /\ OneEach /\ HeldToEnd /\ ClearedToEnd

\* BLE_Device.__init__ makes the lock free and the event set.
LEMMA InitFreeing == Init => Freeing
  BY DEF Init, Freeing, NumbersPast, OneEach, HeldToEnd, ClearedToEnd, Engaged, InTransaction, Asking, Home

\* Threads that are engaged or about to set an event stay where they are when others
\* change places, and so does what they are engaged in.
LEMMA OthersMove ==
  ASSUME Typing, Freeing,
         UNCHANGED <<lockNo, held, cleared, lost, known, made>>,
         \A u \in Threads : \/ pc'[u] = pc[u] /\ dev'[u] = dev[u] /\ lockAt'[u] = lockAt[u]
                            \/ /\ pc[u] # "set" /\ ~InTransaction(u)
                               /\ pc[u] = "acquire" => <<dev[u], lockAt[u]>> \in lost
                               /\ pc'[u] \notin {"acquire", "set"} /\ ~InTransaction(u)'
  PROVE  Freeing'
  <1>1. NumbersPast'
    BY DEF Typing, TypeOK, Freeing, NumbersPast
  <1>2. HeldToEnd'
    <2> SUFFICES ASSUME NEW o \in known, <<o, lockNo[o]>> \in held \ lost
                 PROVE  \E t \in Threads : dev'[t] = o /\ Engaged(t)'
      BY DEF HeldToEnd
    <2>1. PICK t \in Threads : dev[t] = o /\ Engaged(t)
      BY DEF Freeing, HeldToEnd
    <2>2. pc'[t] = pc[t] /\ dev'[t] = dev[t] /\ lockAt'[t] = lockAt[t]
      BY <2>1 DEF Engaged, Asking
    <2>3. dev'[t] = o /\ Engaged(t)'
      BY <2>1, <2>2 DEF Engaged, InTransaction, Asking
    <2>4. QED  BY <2>3
  <1>3. ClearedToEnd'
    <2> SUFFICES ASSUME NEW o \in known, <<o, lockNo[o]>> \in cleared \ held
                 PROVE  \E t \in Threads :
                          /\ dev'[t] = o
                          /\ pc'[t] = "set" \/ (pc'[t] = "acquire" /\ lockAt'[t] = lockNo[o])
      BY DEF ClearedToEnd
    <2>1. PICK t \in Threads :
            /\ dev[t] = o
            /\ pc[t] = "set" \/ (pc[t] = "acquire" /\ lockAt[t] = lockNo[o])
      BY DEF Freeing, ClearedToEnd
    <2>2. <<o, lockNo[o]>> \notin lost
      BY DEF Typing, TypeOK
    <2>3. pc'[t] = pc[t] /\ dev'[t] = dev[t] /\ lockAt'[t] = lockAt[t]
      BY <2>1, <2>2
    <2>4. QED  BY <2>1, <2>3
  <1>4. OneEach'
    BY DEF Freeing, OneEach
  <1>5. QED  BY <1>1, <1>2, <1>3, <1>4 DEF Freeing

\* Setting events (l.453) leaves all numbers past.
LEMMA FewerCleared ==
  ASSUME NumbersPast, cleared' \subseteq cleared, held' = held, lockNo' = lockNo, made' = made,
         \A u \in Threads : pc'[u] = "acquire" => lockAt'[u] <= lockNo'[dev'[u]]
  PROVE  NumbersPast'
  <1>1. \A o \in Devs, n \in Nat : <<o, n>> \in (held \cup cleared)' => n <= lockNo'[o]
    BY DEF NumbersPast
  <1>2. \A o \in Devs \ made', n \in Nat : <<o, n>> \notin (held \cup cleared)'
    BY DEF NumbersPast
  <1>3. QED  BY <1>1, <1>2 DEF NumbersPast

\* Each step that takes the current lock or clears the current event leaves a thread
\* that will release or set it: startTransaction before the attempt, endTransaction
\* after it and on each way out (l.434-453); the new pair that initDevConnect makes
\* is free (l.236-244), and a release that raises finds nothing held.
LEMMA ProceedFreeing ==
  ASSUME Typing, Freeing, NEW t \in Threads, Proceed(t) PROVE Freeing'
  <1> USE ThreadsAssumption DEF Typing, TypeOK, ThenTyped, Working, Labels,
       Threads, Home, Step, Now, InProgress, Begin, EndAfter, Cancel, SameAddr,
       Registered, StopListening, scan, device, mutex, helpers, locals, Freeing,
       NumbersPast, OneEach, HeldToEnd, ClearedToEnd, Engaged, InTransaction, Asking
  <1>1. ASSUME Release(t) PROVE Freeing'
    BY <1>1 DEF Release
  <1>2. ASSUME ReleaseRaises(t) PROVE Freeing'
    BY <1>2 DEF ReleaseRaises
  <1>3. ASSUME SetEvent(t) PROVE Freeing'
    <2>1. \A u \in Threads : pc[u] \in {"acquire", "set"} \/ Engaged(u) => u = t \/ pc'[u] = pc[u]
      BY <1>3 DEF SetEvent
    <2>2. /\ UNCHANGED <<lockNo, held, dev, lockAt, known, made>> /\ cleared' = cleared \ {Now(t)}
          /\ pc[t] = "set" /\ pc'[t] \in {"use", "retry", "idle", "dead"}
      BY <1>3 DEF SetEvent
    <2>3. NumbersPast'
      <3>1. ASSUME NEW u \in Threads, pc'[u] = "acquire" PROVE pc[u] = "acquire"
        BY <1>3, <3>1 DEF SetEvent
      <3>2. cleared' \subseteq cleared /\ held' = held /\ lockNo' = lockNo /\ made' = made
        BY <2>2
      <3>3. \A u \in Threads : pc'[u] = "acquire" => lockAt'[u] <= lockNo'[dev'[u]]
        BY <2>2, <3>1
      <3>4. QED  BY <3>2, <3>3, FewerCleared
    <2>4. HeldToEnd'
      <3>1. \A u \in Threads : Engaged(u) => u # t /\ pc'[u] = pc[u]
        BY <2>1, <2>2
      <3>2. UNCHANGED <<lost, dev, lockAt, lockNo>>
        BY <1>3 DEF SetEvent
      <3>3. \A u \in Threads : Engaged(u) => Engaged(u)'
        BY <3>1, <3>2
      <3>4. QED  BY <2>2, <3>2, <3>3
    <2>5. ClearedToEnd'
      BY <2>1, <2>2
    <2>6. OneEach'
      BY <2>2
    <2>7. QED  BY <2>3, <2>4, <2>5, <2>6
  <1>4. ASSUME LookupFree(t) PROVE Freeing'
    <2>1. \A u \in Threads : \/ pc'[u] = pc[u] /\ dev'[u] = dev[u]
                           \/ /\ pc[u] \in {"lookup", "pending"}
                              /\ pc'[u] \in {"use", "dead"}
      BY <1>4 DEF LookupFree
    <2>2. UNCHANGED <<lockNo, held, cleared, lost, known, made, lockAt>>
      BY <1>4 DEF LookupFree
    <2>3. ASSUME NEW u \in Threads,
                 pc[u] \in {"lookup", "pending"}, pc'[u] \in {"use", "dead"}
          PROVE  /\ pc[u] # "set" /\ ~InTransaction(u)
                 /\ pc[u] = "acquire" => <<dev[u], lockAt[u]>> \in lost
                 /\ pc'[u] \notin {"acquire", "set"} /\ ~InTransaction(u)'
      BY <2>3
    <2>4. QED  BY <2>1, <2>2, <2>3, OthersMove
  <1>5. ASSUME LookupBusy(t) PROVE Freeing'
    BY <1>5 DEF LookupBusy
  <1>6. ASSUME LookupFails(t) PROVE Freeing'
    BY <1>6 DEF LookupFails
  <1>7. ASSUME WaitEvent(t) PROVE Freeing'
    BY <1>7 DEF WaitEvent
  <1>8. ASSUME Claim(t) PROVE Freeing'
    BY <1>8 DEF Claim
  <1>9. ASSUME Reset(t) PROVE Freeing'
    BY <1>9 DEF Reset
  <1>10. ASSUME FirstConnect(t) PROVE Freeing'
    BY <1>10 DEF FirstConnect
  <1>11. ASSUME TestConnect(t) PROVE Freeing'
    BY <1>11 DEF TestConnect
  <1>12. ASSUME StartConnect(t) PROVE Freeing'
    <2>1. NumbersPast'
      BY <1>12 DEF StartConnect
    <2>2. HeldToEnd'
      <3>1. /\ UNCHANGED <<lockNo, held, lost, known, dev>> /\ pc'[t] = "acquire"
            /\ lockAt'[t] = lockNo[dev[t]]
            /\ \A u \in Threads : u = t \/ (pc'[u] = pc[u] /\ lockAt'[u] = lockAt[u])
        BY <1>12 DEF StartConnect
      <3>2. \A u \in Threads : Engaged(u) => u = t \/ Engaged(u)'
        BY <3>1
      <3>3. <<dev[t], lockNo[dev[t]]>> \in held \ lost => Engaged(t)'
        BY <3>1
      <3>4. QED  BY <3>1, <3>2, <3>3
    <2>3. ClearedToEnd' /\ OneEach'
      BY <1>12 DEF StartConnect
    <2>4. QED  BY <2>1, <2>2, <2>3
  <1>13. ASSUME Linked(t) PROVE Freeing'
    BY <1>13 DEF Linked
  <1>14. ASSUME NotLinked(t) PROVE Freeing'
    BY <1>14 DEF NotLinked
  <1>15. ASSUME Retry(t) PROVE Freeing'
    BY <1>15 DEF Retry
  <1>16. ASSUME Discover(t) PROVE Freeing'
    BY <1>16 DEF Discover
  <1>17. ASSUME DiscoverFails(t) PROVE Freeing'
    BY <1>17 DEF DiscoverFails
  <1>18. ASSUME Discovered(t) PROVE Freeing'
    BY <1>18 DEF Discovered
  <1>19. ASSUME JoinFirst(t) PROVE Freeing'
    BY <1>19 DEF JoinFirst
  <1>20. ASSUME JoinFirstFails(t) PROVE Freeing'
    BY <1>20 DEF JoinFirstFails
  <1>21. ASSUME OperateRaises(t) PROVE Freeing'
    BY <1>21 DEF OperateRaises
  <1>22. ASSUME TestConnected(t) PROVE Freeing'
    BY <1>22 DEF TestConnected
  <1>23. ASSUME StartClose(t) PROVE Freeing'
    BY <1>23 DEF StartClose
  <1>24. ASSUME Close(t) PROVE Freeing'
    BY <1>24, ZenonT(40) DEF Close, CloseLink
  <1>25. ASSUME Closed(t) PROVE Freeing'
    BY <1>25 DEF Closed
  <1>26. ASSUME Expire(t) PROVE Freeing'
    BY <1>26 DEF Expire
  <1>27. ASSUME Fired(t) PROVE Freeing'
    BY <1>27 DEF Fired
  <1>28. ASSUME ListenerStops(t) PROVE Freeing'
    BY <1>28 DEF ListenerStops
  <1>29. ASSUME NEW l \in Listeners, Notify(t, l) PROVE Freeing'
    BY <1>29 DEF Notify
  <1>30. ASSUME NEW keep \in Keeps, ReadWrite(t, keep) PROVE Freeing'
    BY <1>30 DEF ReadWrite
  <1>31. ASSUME NEW w \in Timers, ArmKeep(t, w) PROVE Freeing'
    <2>1. \A u \in Threads : \/ pc'[u] = pc[u] /\ dev'[u] = dev[u]
                           \/ /\ \/ pc[u] \in {"arm", "pending", "dead"}
                                 \/ Spare(pc, u)
                              /\ pc'[u] \in {"idle", "pending", "dead"}
      BY <1>31 DEF ArmKeep, Arm, Spare
    <2>2. UNCHANGED <<lockNo, held, cleared, lost, known, made, lockAt>>
      BY <1>31 DEF ArmKeep, Arm
    <2>3. ASSUME NEW u \in Threads,
                 pc[u] \in {"arm", "pending", "dead"} \/ Spare(pc, u),
                 pc'[u] \in {"idle", "pending", "dead"}
          PROVE  /\ pc[u] # "set" /\ ~InTransaction(u)
                 /\ pc[u] = "acquire" => <<dev[u], lockAt[u]>> \in lost
                 /\ pc'[u] \notin {"acquire", "set"} /\ ~InTransaction(u)'
      BY <2>3 DEF Spare
    <2>4. QED  BY <2>1, <2>2, <2>3, OthersMove
  <1>32. ASSUME Find(t) PROVE Freeing'
    BY <1>32 DEF Find
  <1>33. ASSUME NotFound(t) PROVE Freeing'
    BY <1>33 DEF NotFound
  <1>34. ASSUME GATTDiscover(t) PROVE Freeing'
    BY <1>34 DEF GATTDiscover
  <1>35. ASSUME RediscoverFails(t) PROVE Freeing'
    BY <1>35 DEF RediscoverFails
  <1>36. ASSUME NEW keep \in Keeps, Rediscover(t, keep) PROVE Freeing'
    BY <1>36 DEF Rediscover
  <1>37. ASSUME LinkRaises(t) PROVE Freeing'
    BY <1>37 DEF LinkRaises, Lose
  <1>38. ASSUME DiscoverRaises(t) PROVE Freeing'
    BY <1>38 DEF DiscoverRaises
  <1>39. ASSUME NEW to \in {"idle", "dead", "hung"}, CloseBreaks(t, to) PROVE Freeing'
    <2>1. /\ UNCHANGED <<lockNo, held, cleared, known, made, dev, lockAt>>
          /\ lost' = lost \cup ({Now(t)} \cap held)
          /\ pc[t] = "close" /\ pc'[t] \in {"idle", "dead", "hung"}
      BY <1>39 DEF CloseBreaks, CloseLink, Lose
    <2>2. \A u \in Threads : u = t \/ pc'[u] = pc[u] \/ (pc[u] = "pending" /\ pc'[u] = "dead")
      BY <1>39 DEF CloseBreaks, CloseLink
    <2>3. NumbersPast'
      BY <2>1, <2>2
    <2>4. HeldToEnd'
      <3>1. \A u \in Threads : Engaged(u) => u = t \/ Engaged(u)'
        BY <2>1, <2>2
      <3>2. \A o \in known : <<o, lockNo[o]>> \in held \ lost' => dev[t] # o
        BY <2>1
      <3>3. QED  BY <2>1, <3>1, <3>2
    <2>5. ClearedToEnd'
      BY <2>1, <2>2
    <2>6. QED  BY <2>1, <2>3, <2>4, <2>5
  <1> HIDE DEF Freeing
  <1>40. QED
    BY <1>1, <1>2, <1>3, <1>4, <1>5, <1>6, <1>7, <1>8, <1>9, <1>10, <1>11, <1>12,
         <1>13, <1>14, <1>15, <1>16, <1>17, <1>18, <1>19, <1>20, <1>21, <1>22,
         <1>23, <1>24, <1>25, <1>26, <1>27, <1>28, <1>29, <1>30, <1>31,
       <1>32, <1>33, <1>34, <1>35, <1>36, <1>37, <1>38, <1>39 DEF Proceed

\* Acquiring a lock, a new command, a notification and a failing listener do too.
LEMMA NextFreeing ==
  ASSUME Typing, Freeing, [Next]_vars PROVE Freeing'
  <1> USE ThreadsAssumption DEF Typing, TypeOK, ThenTyped, Working, Labels,
       Threads, Home, Step, Now, InProgress, Begin, EndAfter, Cancel, SameAddr,
       Registered, StopListening, scan, device, mutex, helpers, locals, Freeing,
       NumbersPast, OneEach, HeldToEnd, ClearedToEnd, Engaged, InTransaction, Asking
  <1>1. ASSUME NEW t \in Threads, Proceed(t) PROVE Freeing'
    BY <1>1, ProceedFreeing
  <1>2. ASSUME NEW t \in Threads, Acquire(t) PROVE Freeing'
    BY <1>2 DEF Acquire
  <1>3. ASSUME NEW t \in Threads, ListenerFails(t) PROVE Freeing'
    BY <1>3 DEF ListenerFails
  <1>4. ASSUME NEW t \in Threads, NEW o \in Devs, Command(t, o) PROVE Freeing'
    BY <1>4 DEF Command
  <1>5. ASSUME NEW t \in Threads, NEW w \in Timers, Notified(t, w) PROVE Freeing'
    <2>1. \A u \in Threads : \/ pc'[u] = pc[u] /\ dev'[u] = dev[u]
                           \/ /\ \/ pc[u] \in {"listen", "pending", "dead"}
                                 \/ Spare(pc, u)
                              /\ pc'[u] \in {"listen", "pending", "dead"}
      BY <1>5 DEF Notified, Arm, Spare
    <2>2. UNCHANGED <<lockNo, held, cleared, lost, known, made, lockAt>>
      BY <1>5 DEF Notified, Arm
    <2>3. ASSUME NEW u \in Threads,
                 pc[u] \in {"listen", "pending", "dead"} \/ Spare(pc, u),
                 pc'[u] \in {"listen", "pending", "dead"}
          PROVE  /\ pc[u] # "set" /\ ~InTransaction(u)
                 /\ pc[u] = "acquire" => <<dev[u], lockAt[u]>> \in lost
                 /\ pc'[u] \notin {"acquire", "set"} /\ ~InTransaction(u)'
      BY <2>3 DEF Spare
    <2>4. QED  BY <2>1, <2>2, <2>3, OthersMove
  <1>6. ASSUME UNCHANGED vars PROVE Freeing'
    BY <1>6 DEF vars
  <1>7. ASSUME Scan PROVE Freeing'
    <2>1. ASSUME InitScan PROVE Freeing'
      BY <2>1 DEF InitScan
    <2>2. ASSUME ScanEnds PROVE Freeing'
      BY <2>2 DEF ScanEnds
    <2>3. ASSUME NEW o \in Devs, ForceDisconnect(o) PROVE Freeing'
      BY <2>3 DEF ForceDisconnect
    <2>4. ASSUME NEW o \in Devs, AddDevice(o) PROVE Freeing'
      BY <2>4 DEF AddDevice
    <2>5. QED  BY <1>7, <2>1, <2>2, <2>3, <2>4 DEF Scan
  <1>8. QED
    BY <1>1, <1>2, <1>3, <1>4, <1>5, <1>6, <1>7, ZenonT(40) DEF Next

\* When every thread of a known device is at rest, its current transaction lock is free
\* and its event is set, for any number of threads that raced, unless its last
\* transaction was left open: connect ends its transaction after a BTLEException of
\* _innerConnect only (l.265, l.280), and disconnect ends it when _p.disconnect() has
\* returned (l.351-361).  So the next devConnect or disconnect does not block on what
\* startTransaction and endTransaction (l.445-453) left.
THEOREM QuietDeviceFree == Spec => []QuietIsFree
  <1>1. Freeing => QuietIsFree
    BY DEF Freeing, HeldToEnd, ClearedToEnd, Engaged, InTransaction, Asking, QuietIsFree, AtRest
  <1>2. QED
    BY InitTyping, NextTyping, InitFreeing, NextFreeing, <1>1, PTL DEF Spec
=============================================================================
