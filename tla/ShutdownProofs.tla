---------------------------- MODULE ShutdownProofs ----------------------------
(***************************************************************************)
(* Proofs about Shutdown: for any number of sessions, clicks and lines in  *)
(* the pipe, every call into the tray object is made in time, a one-shot   *)
(* command leaves no Chrome and no line behind, no click is lost, whoever  *)
(* holds a mutex can go on, and the status is read whole.                  *)
(***************************************************************************)
EXTENDS Shutdown, TLAPS

-----------------------------------------------------------------------------
(* The types *)

\* A goroutine that uses or ends a session has one.
DoomedOK ==
    \A t \in Threads :
        pc[t] \in {"register", "registered", "launch", "run", "unregister", "unregistered", "kill"} =>
            doomed[t] \in Sessions

Typed == TypeOK /\ DoomedOK

LEMMA InitTypes == Init => Typed
<1> SUFFICES ASSUME Init PROVE Typed
    OBVIOUS
<1>1. icon \in BOOLEAN
    BY DEF Init
<1>2. pc["sync"] \in SyncPCs /\ pc["pump"] \in PumpPCs /\ pc \in [Threads -> SyncPCs \cup PumpPCs]
    BY DEF Init, Threads, SyncPCs, PumpPCs
<1>3. DoomedOK
    BY DEF Init, DoomedOK, Threads
<1>4. /\ opened \in 0 .. MaxSessions /\ clicks \in 0 .. MaxClicks /\ pipe \in 0 .. PipeSize
      /\ syncNow \in 0 .. 1 /\ reader \in {"reading", "broken", "collected"}
    BY BoundAssumption DEF Init
<1>4a. closed \in BOOLEAN
    BY DEF Init
<1>5. /\ mode \in {"tray", "oneshot"} /\ phase \in {"chats", "surfaces", "rest"}
      /\ mutex \in [Mutexes -> Threads \cup {"free"}]
      /\ shuttingDown \in BOOLEAN /\ exited \in BOOLEAN /\ wanted \in BOOLEAN
      /\ active \in Sessions \cup {0} /\ doomed \in [Threads -> Sessions \cup {0}]
      /\ cancelled \subseteq Sessions /\ chrome \subseteq Sessions
    BY DEF Init
<1> QED
    BY <1>1, <1>2, <1>3, <1>4, <1>4a, <1>5 DEF Typed, TypeOK

LEMMA StepTypes == Typed /\ [Next]_vars => Typed'
<1> SUFFICES ASSUME Typed, [Next]_vars PROVE Typed'
    OBVIOUS
<1>1. CASE TipLock
    BY <1>1, BoundAssumption DEF TipLock, Lock, At, Goto, Typed, TypeOK, DoomedOK, Threads, Mutexes, SyncPCs, PumpPCs, Sessions, trayVars, sessionVars, pipeVars
<1>2. CASE TipCheck
    BY <1>2, BoundAssumption DEF TipCheck, Release, ToCall, AfterTip, At, Goto, Typed, TypeOK, DoomedOK, Threads, Mutexes, SyncPCs, PumpPCs, Sessions, trayVars, sessionVars, pipeVars
<1>3. CASE TipGet
    BY <1>3, BoundAssumption DEF TipGet, Lock, At, Goto, Typed, TypeOK, DoomedOK, Threads, Mutexes, SyncPCs, PumpPCs, Sessions, trayVars, sessionVars, pipeVars
<1>4. CASE TipRead
    BY <1>4, BoundAssumption DEF TipRead, Unlock, Release, At, Goto, Typed, TypeOK, DoomedOK, Threads, Mutexes, SyncPCs, PumpPCs, Sessions, trayVars, sessionVars, pipeVars
<1>5. CASE TipCall
    BY <1>5, BoundAssumption DEF TipCall, Unlock, Release, AfterTip, At, Goto, Typed, TypeOK, DoomedOK, Threads, Mutexes, SyncPCs, PumpPCs, Sessions, trayVars, sessionVars, pipeVars
<1>6. CASE BeginCycle
    <2>1. /\ pc' = [pc EXCEPT !["sync"] = pc'["sync"]] /\ pc'["sync"] \in {"open", "set"}
          /\ phase' \in {"chats", "surfaces", "rest"} /\ wanted' \in BOOLEAN
        BY <1>6 DEF BeginCycle, Goto, Typed, TypeOK, Threads
    <2> QED
        BY <1>6, <2>1 DEF BeginCycle, Typed, TypeOK, DoomedOK, Threads, SyncPCs, sessionVars, pipeVars
<1>7. CASE NextPart
    BY <1>7, BoundAssumption DEF NextPart, WriteOut, At, Goto, Typed, TypeOK, DoomedOK, Threads, SyncPCs, PumpPCs, Sessions, trayVars, sessionVars, pipeVars
<1>8. CASE SetLock
    BY <1>8, BoundAssumption DEF SetLock, Lock, At, Goto, Typed, TypeOK, DoomedOK, Threads, Mutexes, SyncPCs, PumpPCs, Sessions, trayVars, sessionVars, pipeVars
<1>9. CASE SetWrite
    BY <1>9, BoundAssumption DEF SetWrite, Unlock, Release, At, Goto, Typed, TypeOK, DoomedOK, Threads, Mutexes, SyncPCs, PumpPCs, Sessions, trayVars, sessionVars, pipeVars
<1>10. CASE TakeToken
    BY <1>10, BoundAssumption DEF TakeToken, At, Goto, Typed, TypeOK, DoomedOK, Threads, SyncPCs, PumpPCs, Sessions, trayVars, sessionVars, pipeVars
<1>11. CASE Open
    BY <1>11, BoundAssumption DEF Open, At, Goto, Typed, TypeOK, DoomedOK, Threads, SyncPCs, PumpPCs, Sessions, trayVars, sessionVars, pipeVars
<1>12. CASE Register
    BY <1>12, BoundAssumption DEF Register, Lock, At, Goto, Typed, TypeOK, DoomedOK, Threads, Mutexes, SyncPCs, PumpPCs, Sessions, trayVars, sessionVars, pipeVars
<1>13. CASE Registered
    BY <1>13, BoundAssumption DEF Registered, Release, At, Goto, Typed, TypeOK, DoomedOK, Threads, Mutexes, SyncPCs, PumpPCs, Sessions, trayVars, sessionVars, pipeVars
<1>14. CASE OpenNot
    BY <1>14, BoundAssumption DEF OpenNot, At, Goto, Typed, TypeOK, DoomedOK, Threads, SyncPCs, PumpPCs, Sessions, trayVars, sessionVars, pipeVars
<1>15. CASE Launch
    <2>1. doomed["sync"] \in Sessions /\ chrome \subseteq Sessions
        BY <1>15 DEF Launch, At, Typed, TypeOK, DoomedOK, Threads
    <2>2. /\ chrome' \subseteq Sessions
          /\ pc' = [pc EXCEPT !["sync"] = pc'["sync"]] /\ pc'["sync"] \in {"run", "unregister"}
        BY <1>15, <2>1 DEF Launch, Goto, Typed, TypeOK, Threads
    <2> QED
        BY <1>15, <2>1, <2>2 DEF Launch, Typed, TypeOK, DoomedOK, Threads, SyncPCs, trayVars, pipeVars
<1>16. CASE Finish
    BY <1>16, BoundAssumption DEF Finish, At, Goto, Typed, TypeOK, DoomedOK, Threads, SyncPCs, PumpPCs, Sessions, trayVars, sessionVars, pipeVars
<1>17. CASE GoFatal
    BY <1>17, BoundAssumption DEF GoFatal, At, Goto, Typed, TypeOK, DoomedOK, Threads, SyncPCs, PumpPCs, Sessions, trayVars, sessionVars, pipeVars
<1>18. CASE OneShotNext
    BY <1>18, BoundAssumption DEF OneShotNext, At, Goto, Typed, TypeOK, DoomedOK, Threads, SyncPCs, PumpPCs, Sessions, trayVars, sessionVars, pipeVars
<1>19. CASE Fatal
    BY <1>19, BoundAssumption DEF Fatal, WriteOut, At, Goto, Typed, TypeOK, DoomedOK, Threads, SyncPCs, PumpPCs, Sessions, trayVars, sessionVars, pipeVars
<1>20. CASE PrintLine
    BY <1>20, BoundAssumption DEF PrintLine, WriteOut, At, Goto, Typed, TypeOK, DoomedOK, Threads, SyncPCs, PumpPCs, Sessions, trayVars, sessionVars, pipeVars
<1>21. CASE TimerFires
    BY <1>21, BoundAssumption DEF TimerFires, At, Goto, Typed, TypeOK, DoomedOK, Threads, SyncPCs, PumpPCs, Sessions, trayVars, sessionVars, pipeVars
<1>22. CASE NotifyLock
    BY <1>22, BoundAssumption DEF NotifyLock, Lock, At, Goto, Typed, TypeOK, DoomedOK, Threads, Mutexes, SyncPCs, PumpPCs, Sessions, trayVars, sessionVars, pipeVars
<1>23. CASE NotifyGet
    BY <1>23, BoundAssumption DEF NotifyGet, Lock, At, Goto, Typed, TypeOK, DoomedOK, Threads, Mutexes, SyncPCs, PumpPCs, Sessions, trayVars, sessionVars, pipeVars
<1>24. CASE NotifyRead
    BY <1>24, BoundAssumption DEF NotifyRead, Unlock, Release, At, Goto, Typed, TypeOK, DoomedOK, Threads, Mutexes, SyncPCs, PumpPCs, Sessions, trayVars, sessionVars, pipeVars
<1>25. CASE NotifyCall
    BY <1>25, BoundAssumption DEF NotifyCall, Unlock, Release, At, Goto, Typed, TypeOK, DoomedOK, Threads, Mutexes, SyncPCs, PumpPCs, Sessions, trayVars, sessionVars, pipeVars
<1>26. CASE QuitLock
    BY <1>26, BoundAssumption DEF QuitLock, Lock, At, Goto, Typed, TypeOK, DoomedOK, Threads, Mutexes, SyncPCs, PumpPCs, Sessions, trayVars, sessionVars, pipeVars
<1>27. CASE Remove
    <2>1. TypeOK'
        BY <1>27 DEF Remove, Release, Goto, Typed, TypeOK, Threads, PumpPCs, sessionVars, pipeVars
    <2>2. DoomedOK'
        BY <1>27 DEF Remove, Release, Goto, Typed, TypeOK, DoomedOK, Threads, sessionVars, pipeVars
    <2> QED
        BY <2>1, <2>2 DEF Typed
<1>28. CASE ClickSync
    BY <1>28, BoundAssumption DEF ClickSync, OfferToken, At, Goto, Typed, TypeOK, DoomedOK, Threads, SyncPCs, PumpPCs, Sessions, trayVars, sessionVars, pipeVars
<1>29. CASE ClickStatus
    BY <1>29, BoundAssumption DEF ClickStatus, At, Goto, Typed, TypeOK, DoomedOK, Threads, SyncPCs, PumpPCs, Sessions, trayVars, sessionVars, pipeVars
<1>30. CASE ClickQuit
    BY <1>30, BoundAssumption DEF ClickQuit, At, Goto, Typed, TypeOK, DoomedOK, Threads, SyncPCs, PumpPCs, Sessions, trayVars, sessionVars, pipeVars
<1>31. CASE RunReturns
    BY <1>31, BoundAssumption DEF RunReturns, At, Goto, Typed, TypeOK, DoomedOK, Threads, SyncPCs, PumpPCs, Sessions, trayVars, sessionVars, pipeVars
<1>32. CASE Show \/ Break \/ Collect
    <2>1. pipe' \in 0 .. PipeSize /\ reader' \in {"reading", "broken", "collected"}
        BY <1>32, BoundAssumption DEF Show, Break, Collect, Typed, TypeOK
    <2> QED
        BY <1>32, <2>1 DEF Show, Break, Collect, Typed, TypeOK, DoomedOK, trayVars, sessionVars
<1>33. ASSUME NEW t \in Threads, Take(t) PROVE Typed'
    BY <1>33, BoundAssumption DEF Take, Lock, At, Goto, Typed, TypeOK, DoomedOK, Threads, Mutexes, SyncPCs, PumpPCs, Sessions, trayVars, sessionVars, pipeVars
<1>34. ASSUME NEW t \in Threads, Taken(t) PROVE Typed'
    BY <1>34, BoundAssumption DEF Taken, Release, At, Goto, Typed, TypeOK, DoomedOK, Threads, Mutexes, SyncPCs, PumpPCs, Sessions, trayVars, sessionVars, pipeVars
<1>35. ASSUME NEW t \in Threads, Unregister(t) PROVE Typed'
    BY <1>35, BoundAssumption DEF Unregister, Lock, At, Goto, Typed, TypeOK, DoomedOK, Threads, Mutexes, SyncPCs, PumpPCs, Sessions, trayVars, sessionVars, pipeVars
<1>36. ASSUME NEW t \in Threads, Unregistered(t) PROVE Typed'
    BY <1>36, BoundAssumption DEF Unregistered, Release, At, Goto, Typed, TypeOK, DoomedOK, Threads, Mutexes, SyncPCs, PumpPCs, Sessions, trayVars, sessionVars, pipeVars
<1>37. ASSUME NEW t \in Threads, Kill(t) PROVE Typed'
    <2>1. /\ doomed[t] \in Sessions
          /\ cancelled' \subseteq Sessions /\ chrome' \subseteq Sessions
        BY <1>37 DEF Kill, At, Typed, TypeOK, DoomedOK
    <2>2. pc' = [pc EXCEPT ![t] = pc'[t]] /\ pc'[t] \in {"next", "stop"}
          /\ (t = "pump" => pc'[t] = "stop")
        BY <1>37 DEF Kill, Goto, Typed, TypeOK, Threads
    <2>3. doomed' = [doomed EXCEPT ![t] = 0]
        BY <1>37 DEF Kill
    <2>4. DoomedOK'
        BY <2>2, <2>3 DEF Typed, TypeOK, DoomedOK
    <2>5. pc' \in [Threads -> SyncPCs \cup PumpPCs]
          /\ pc'["sync"] \in SyncPCs /\ pc'["pump"] \in PumpPCs
        BY <2>2 DEF Typed, TypeOK, Threads, SyncPCs, PumpPCs
    <2>6. doomed' \in [Threads -> Sessions \cup {0}]
        BY <2>3 DEF Typed, TypeOK
    <2> QED
        BY <1>37, <2>1, <2>4, <2>5, <2>6 DEF Kill, Typed, TypeOK, trayVars, pipeVars
<1>38. ASSUME NEW t \in Threads, Stop(t) \/ Drained(t) PROVE Typed'
    <2>1. /\ pc' = [pc EXCEPT ![t] = pc'[t]] /\ pc'[t] \in {"drain", "exit"}
          /\ closed' \in BOOLEAN
        BY <1>38 DEF Stop, Drained, Goto, Typed, TypeOK, pipeVars
    <2>2. pc' \in [Threads -> SyncPCs \cup PumpPCs]
          /\ pc'["sync"] \in SyncPCs /\ pc'["pump"] \in PumpPCs
        BY <2>1 DEF Typed, TypeOK, Threads, SyncPCs, PumpPCs
    <2>3. DoomedOK'
        BY <1>38, <2>1 DEF Stop, Drained, Typed, TypeOK, DoomedOK, sessionVars
    <2> QED
        BY <1>38, <2>1, <2>2, <2>3 DEF Stop, Drained, Typed, TypeOK, trayVars, sessionVars, pipeVars
<1>39. ASSUME NEW t \in Threads, Exit(t) PROVE Typed'
    BY <1>39, BoundAssumption DEF Exit, At, Goto, Typed, TypeOK, DoomedOK, Threads, SyncPCs, PumpPCs, Sessions, trayVars, sessionVars, pipeVars
<1>40. CASE UNCHANGED vars
    BY <1>40 DEF vars, At, Goto, Typed, TypeOK, DoomedOK, Threads, SyncPCs, PumpPCs, Sessions, trayVars, sessionVars, pipeVars
<1> QED
    BY <1>1, <1>2, <1>3, <1>4, <1>5, <1>6, <1>7, <1>8, <1>9, <1>10, <1>11, <1>12, <1>13, <1>14,
       <1>15, <1>16, <1>17, <1>18, <1>19, <1>20, <1>21, <1>22, <1>23, <1>24, <1>25, <1>26, <1>27, <1>28,
       <1>29, <1>30, <1>31, <1>32, <1>33, <1>34, <1>35, <1>36, <1>37, <1>38, <1>39, <1>40
       DEF Next, SyncStep, PumpStep, SyncLock, PumpLock, User, Teardown, Threads

LEMMA Types == Spec => []Typed
BY InitTypes, StepTypes, PTL DEF Spec

-----------------------------------------------------------------------------
(* The tray object *)

\* The mutexes are held just where the code holds them: trayMu while the status is
\* waited for and read, the others for one step each.
MutexOK ==
    /\ mutex["trayMu"] = "sync" <=> pc["sync"] \in {"tipCheck", "tipGet", "tipRead", "tipCall"}
    /\ mutex["trayMu"] = "pump" <=> pc["pump"] \in {"notifyGet", "notifyRead", "notifyCall", "remove"}
    /\ mutex["statusMu"] = "sync" <=> pc["sync"] \in {"tipRead", "write"}
    /\ mutex["statusMu"] = "pump" <=> pc["pump"] = "notifyRead"
    /\ \A t \in Threads : mutex["teardownMu"] = t <=> pc[t] \in {"registered", "taken", "unregistered"}

\* The icon is removed with trayMu, after shuttingDown is set.
IconOK ==
    /\ mode = "oneshot" =>
           /\ pc["sync"] \notin {"tip", "tipCheck", "tipGet", "tipRead", "tipCall", "cycle", "set", "write", "wait", "ended"}
           /\ pc["pump"] = "idle"
    /\ mode = "tray" =>
           /\ pc["pump"] \in {"quitLock", "remove", "take", "taken", "unregister", "unregistered", "kill"} => shuttingDown
           /\ ~icon => shuttingDown /\ pc["pump"] \in {"take", "taken", "unregister", "unregistered", "kill", "stop", "drain", "exit"}
    /\ pc["sync"] \in {"tipGet", "tipRead", "tipCall"} => icon

LEMMA StepTray == TypeOK /\ MutexOK /\ IconOK /\ [Next]_vars => MutexOK' /\ IconOK'
<1> DEFINE OK == MutexOK /\ IconOK
<1> SUFFICES ASSUME TypeOK, OK, [Next]_vars PROVE OK'
    OBVIOUS
<1>1. CASE TipLock
    BY <1>1 DEF TipLock, Lock, At, Goto, TypeOK, MutexOK, IconOK, Threads, Mutexes, SyncPCs, PumpPCs, trayVars
<1>2. CASE TipCheck
    BY <1>2 DEF TipCheck, Release, ToCall, AfterTip, At, Goto, TypeOK, MutexOK, IconOK, Threads, Mutexes, SyncPCs, PumpPCs, trayVars
<1>3. CASE TipGet
    BY <1>3 DEF TipGet, Lock, At, Goto, TypeOK, MutexOK, IconOK, Threads, Mutexes, SyncPCs, PumpPCs, trayVars
<1>4. CASE TipRead
    BY <1>4 DEF TipRead, Unlock, Release, At, Goto, TypeOK, MutexOK, IconOK, Threads, Mutexes, SyncPCs, PumpPCs, trayVars
<1>5. CASE TipCall
    BY <1>5 DEF TipCall, Unlock, Release, AfterTip, At, Goto, TypeOK, MutexOK, IconOK, Threads, Mutexes, SyncPCs, PumpPCs, trayVars
<1>6. CASE BeginCycle
    BY <1>6 DEF BeginCycle, At, Goto, TypeOK, MutexOK, IconOK, Threads, Mutexes, SyncPCs, PumpPCs, trayVars
<1>7. CASE NextPart
    BY <1>7 DEF NextPart, WriteOut, At, Goto, TypeOK, MutexOK, IconOK, Threads, Mutexes, SyncPCs, PumpPCs, trayVars
<1>8. CASE SetLock
    BY <1>8 DEF SetLock, Lock, At, Goto, TypeOK, MutexOK, IconOK, Threads, Mutexes, SyncPCs, PumpPCs, trayVars
<1>9. CASE SetWrite
    BY <1>9 DEF SetWrite, Unlock, Release, At, Goto, TypeOK, MutexOK, IconOK, Threads, Mutexes, SyncPCs, PumpPCs, trayVars
<1>10. CASE TakeToken
    BY <1>10 DEF TakeToken, At, Goto, TypeOK, MutexOK, IconOK, Threads, Mutexes, SyncPCs, PumpPCs, trayVars
<1>11. CASE Open
    BY <1>11 DEF Open, At, Goto, TypeOK, MutexOK, IconOK, Threads, Mutexes, SyncPCs, PumpPCs, trayVars
<1>12. CASE Register
    BY <1>12 DEF Register, Lock, At, Goto, TypeOK, MutexOK, IconOK, Threads, Mutexes, SyncPCs, PumpPCs, trayVars
<1>13. CASE Registered
    BY <1>13 DEF Registered, Release, At, Goto, TypeOK, MutexOK, IconOK, Threads, Mutexes, SyncPCs, PumpPCs, trayVars
<1>14. CASE OpenNot
    BY <1>14 DEF OpenNot, At, Goto, TypeOK, MutexOK, IconOK, Threads, Mutexes, SyncPCs, PumpPCs, trayVars
<1>15. CASE Launch
    BY <1>15 DEF Launch, At, Goto, TypeOK, MutexOK, IconOK, Threads, Mutexes, SyncPCs, PumpPCs, trayVars
<1>16. CASE Finish
    BY <1>16 DEF Finish, At, Goto, TypeOK, MutexOK, IconOK, Threads, Mutexes, SyncPCs, PumpPCs, trayVars
<1>17. CASE GoFatal
    BY <1>17 DEF GoFatal, At, Goto, TypeOK, MutexOK, IconOK, Threads, Mutexes, SyncPCs, PumpPCs, trayVars
<1>18. CASE OneShotNext
    BY <1>18 DEF OneShotNext, At, Goto, TypeOK, MutexOK, IconOK, Threads, Mutexes, SyncPCs, PumpPCs, trayVars
<1>19. CASE Fatal
    BY <1>19 DEF Fatal, WriteOut, At, Goto, TypeOK, MutexOK, IconOK, Threads, Mutexes, SyncPCs, PumpPCs, trayVars
<1>20. CASE PrintLine
    BY <1>20 DEF PrintLine, WriteOut, At, Goto, TypeOK, MutexOK, IconOK, Threads, Mutexes, SyncPCs, PumpPCs, trayVars
<1>21. CASE TimerFires
    BY <1>21 DEF TimerFires, At, Goto, TypeOK, MutexOK, IconOK, Threads, Mutexes, SyncPCs, PumpPCs, trayVars
<1>22. CASE NotifyLock
    BY <1>22 DEF NotifyLock, Lock, At, Goto, TypeOK, MutexOK, IconOK, Threads, Mutexes, SyncPCs, PumpPCs, trayVars
<1>23. CASE NotifyGet
    BY <1>23 DEF NotifyGet, Lock, At, Goto, TypeOK, MutexOK, IconOK, Threads, Mutexes, SyncPCs, PumpPCs, trayVars
<1>24. CASE NotifyRead
    BY <1>24 DEF NotifyRead, Unlock, Release, At, Goto, TypeOK, MutexOK, IconOK, Threads, Mutexes, SyncPCs, PumpPCs, trayVars
<1>25. CASE NotifyCall
    BY <1>25 DEF NotifyCall, Unlock, Release, At, Goto, TypeOK, MutexOK, IconOK, Threads, Mutexes, SyncPCs, PumpPCs, trayVars
<1>26. CASE QuitLock
    BY <1>26 DEF QuitLock, Lock, At, Goto, TypeOK, MutexOK, IconOK, Threads, Mutexes, SyncPCs, PumpPCs, trayVars
<1>27. CASE Remove
    BY <1>27 DEF Remove, Release, At, Goto, TypeOK, MutexOK, IconOK, Threads, Mutexes, SyncPCs, PumpPCs, trayVars
<1>28. CASE ClickSync
    BY <1>28 DEF ClickSync, OfferToken, At, Goto, TypeOK, MutexOK, IconOK, Threads, Mutexes, SyncPCs, PumpPCs, trayVars
<1>29. CASE ClickStatus
    BY <1>29 DEF ClickStatus, At, Goto, TypeOK, MutexOK, IconOK, Threads, Mutexes, SyncPCs, PumpPCs, trayVars
<1>30. CASE ClickQuit
    BY <1>30 DEF ClickQuit, At, Goto, TypeOK, MutexOK, IconOK, Threads, Mutexes, SyncPCs, PumpPCs, trayVars
<1>31. CASE RunReturns
    BY <1>31 DEF RunReturns, At, Goto, TypeOK, MutexOK, IconOK, Threads, Mutexes, SyncPCs, PumpPCs, trayVars
<1>32. CASE Show \/ Break \/ Collect
    BY <1>32 DEF Show, Break, Collect, At, Goto, TypeOK, MutexOK, IconOK, Threads, Mutexes, SyncPCs, PumpPCs, trayVars
<1>33. ASSUME NEW t \in Threads, Take(t) PROVE OK'
    BY <1>33 DEF Take, Lock, At, Goto, TypeOK, MutexOK, IconOK, Threads, Mutexes, SyncPCs, PumpPCs, trayVars
<1>34. ASSUME NEW t \in Threads, Taken(t) PROVE OK'
    BY <1>34 DEF Taken, Release, At, Goto, TypeOK, MutexOK, IconOK, Threads, Mutexes, SyncPCs, PumpPCs, trayVars
<1>35. ASSUME NEW t \in Threads, Unregister(t) PROVE OK'
    BY <1>35 DEF Unregister, Lock, At, Goto, TypeOK, MutexOK, IconOK, Threads, Mutexes, SyncPCs, PumpPCs, trayVars
<1>36. ASSUME NEW t \in Threads, Unregistered(t) PROVE OK'
    BY <1>36 DEF Unregistered, Release, At, Goto, TypeOK, MutexOK, IconOK, Threads, Mutexes, SyncPCs, PumpPCs, trayVars
<1>37. ASSUME NEW t \in Threads, Kill(t) PROVE OK'
    BY <1>37 DEF Kill, At, Goto, TypeOK, MutexOK, IconOK, Threads, Mutexes, SyncPCs, PumpPCs, trayVars
<1>38. ASSUME NEW t \in Threads, Stop(t) \/ Drained(t) PROVE OK'
    BY <1>38 DEF Stop, Drained, At, Goto, TypeOK, MutexOK, IconOK, Threads, Mutexes, SyncPCs, PumpPCs, trayVars
<1>39. ASSUME NEW t \in Threads, Exit(t) PROVE OK'
    BY <1>39 DEF Exit, At, Goto, TypeOK, MutexOK, IconOK, Threads, Mutexes, SyncPCs, PumpPCs, trayVars
<1>40. CASE UNCHANGED vars
    BY <1>40 DEF vars, At, Goto, TypeOK, MutexOK, IconOK, Threads, Mutexes, SyncPCs, PumpPCs, trayVars
<1> QED
    BY <1>1, <1>2, <1>3, <1>4, <1>5, <1>6, <1>7, <1>8, <1>9, <1>10, <1>11, <1>12, <1>13, <1>14,
       <1>15, <1>16, <1>17, <1>18, <1>19, <1>20, <1>21, <1>22, <1>23, <1>24, <1>25, <1>26, <1>27, <1>28,
       <1>29, <1>30, <1>31, <1>32, <1>33, <1>34, <1>35, <1>36, <1>37, <1>38, <1>39, <1>40
       DEF Next, SyncStep, PumpStep, SyncLock, PumpLock, User, Teardown, Threads

\* SetTooltip, ShowNotification and Remove are called under trayMu and while the
\* icon exists, however "Beenden" falls.
THEOREM TrayIsCalledInTime == Spec => []TrayCallsInTime
<1>1. Init => MutexOK /\ IconOK
    BY DEF Init, MutexOK, IconOK, Threads, Mutexes
<1>2. TypeOK /\ MutexOK /\ IconOK => TrayCallsInTime
    BY DEF TypeOK, MutexOK, IconOK, TrayCallsInTime
<1>3. Typed => TypeOK
    BY DEF Typed
<1> QED
    BY <1>1, <1>2, <1>3, Types, StepTray, PTL DEF Spec

\* The variables of Shutdown have their types; in particular the channel syncNow
\* never holds more than its one token.
THEOREM ShutdownTypes == Spec => []TypeOK
BY Types, PTL DEF Typed

-----------------------------------------------------------------------------
(* The one-shot command *)

\* Chrome runs only for the session the command has in its hands, or has registered.
HandOK ==
    mode = "oneshot" =>
        /\ pc["pump"] = "idle"
        /\ pc["sync"] \notin {"tip", "tipCheck", "tipGet", "tipRead", "tipCall", "cycle", "set", "write", "wait", "ended"}
        /\ pc["sync"] \in {"open", "register", "registered", "launch", "next", "stop", "drain", "exit"} => chrome = {}
        /\ pc["sync"] \in {"launch", "run"} => doomed["sync"] = active
        /\ pc["sync"] \in {"run", "fatal", "take", "taken"} => chrome \subseteq {active}
        /\ pc["sync"] \in {"unregister", "unregistered", "kill"} => chrome \subseteq {doomed["sync"]}
        /\ pc["sync"] = "exit" /\ reader = "reading" => pipe = 0
        /\ exited => pc["sync"] = "exit"

LEMMA StepHand == TypeOK /\ HandOK /\ [Next]_vars => HandOK'
<1> SUFFICES ASSUME TypeOK, HandOK, [Next]_vars PROVE HandOK'
    OBVIOUS
<1>1. CASE TipLock
    BY <1>1, BoundAssumption DEF TipLock, Lock, At, Goto, TypeOK, HandOK, Threads, Mutexes, Sessions, SyncPCs, PumpPCs, trayVars, sessionVars, pipeVars
<1>2. CASE TipCheck
    BY <1>2, BoundAssumption DEF TipCheck, Release, ToCall, AfterTip, At, Goto, TypeOK, HandOK, Threads, Mutexes, Sessions, SyncPCs, PumpPCs, trayVars, sessionVars, pipeVars
<1>3. CASE TipGet
    BY <1>3, BoundAssumption DEF TipGet, Lock, At, Goto, TypeOK, HandOK, Threads, Mutexes, Sessions, SyncPCs, PumpPCs, trayVars, sessionVars, pipeVars
<1>4. CASE TipRead
    BY <1>4, BoundAssumption DEF TipRead, Unlock, Release, At, Goto, TypeOK, HandOK, Threads, Mutexes, Sessions, SyncPCs, PumpPCs, trayVars, sessionVars, pipeVars
<1>5. CASE TipCall
    BY <1>5, BoundAssumption DEF TipCall, Unlock, Release, AfterTip, At, Goto, TypeOK, HandOK, Threads, Mutexes, Sessions, SyncPCs, PumpPCs, trayVars, sessionVars, pipeVars
<1>6. CASE BeginCycle
    BY <1>6, BoundAssumption DEF BeginCycle, At, Goto, TypeOK, HandOK, Threads, Sessions, SyncPCs, PumpPCs, trayVars, sessionVars, pipeVars
<1>7. CASE NextPart
    BY <1>7, BoundAssumption DEF NextPart, WriteOut, At, Goto, TypeOK, HandOK, Threads, Sessions, SyncPCs, PumpPCs, trayVars, sessionVars, pipeVars
<1>8. CASE SetLock
    BY <1>8, BoundAssumption DEF SetLock, Lock, At, Goto, TypeOK, HandOK, Threads, Mutexes, Sessions, SyncPCs, PumpPCs, trayVars, sessionVars, pipeVars
<1>9. CASE SetWrite
    BY <1>9, BoundAssumption DEF SetWrite, Unlock, Release, At, Goto, TypeOK, HandOK, Threads, Mutexes, Sessions, SyncPCs, PumpPCs, trayVars, sessionVars, pipeVars
<1>10. CASE TakeToken
    BY <1>10, BoundAssumption DEF TakeToken, At, Goto, TypeOK, HandOK, Threads, Sessions, SyncPCs, PumpPCs, trayVars, sessionVars, pipeVars
<1>11. CASE Open
    BY <1>11, BoundAssumption DEF Open, At, Goto, TypeOK, HandOK, Threads, Sessions, SyncPCs, PumpPCs, trayVars, sessionVars, pipeVars
<1>12. CASE Register
    BY <1>12, BoundAssumption DEF Register, Lock, At, Goto, TypeOK, HandOK, Threads, Mutexes, Sessions, SyncPCs, PumpPCs, trayVars, sessionVars, pipeVars
<1>13. CASE Registered
    BY <1>13, BoundAssumption DEF Registered, Release, At, Goto, TypeOK, HandOK, Threads, Mutexes, Sessions, SyncPCs, PumpPCs, trayVars, sessionVars, pipeVars
<1>14. CASE OpenNot
    BY <1>14, BoundAssumption DEF OpenNot, At, Goto, TypeOK, HandOK, Threads, Sessions, SyncPCs, PumpPCs, trayVars, sessionVars, pipeVars
<1>15. CASE Launch
    BY <1>15, BoundAssumption DEF Launch, At, Goto, TypeOK, HandOK, Threads, Sessions, SyncPCs, PumpPCs, trayVars, sessionVars, pipeVars
<1>16. CASE Finish
    BY <1>16, BoundAssumption DEF Finish, At, Goto, TypeOK, HandOK, Threads, Sessions, SyncPCs, PumpPCs, trayVars, sessionVars, pipeVars
<1>17. CASE GoFatal
    BY <1>17, BoundAssumption DEF GoFatal, At, Goto, TypeOK, HandOK, Threads, Sessions, SyncPCs, PumpPCs, trayVars, sessionVars, pipeVars
<1>18. CASE OneShotNext
    BY <1>18, BoundAssumption DEF OneShotNext, At, Goto, TypeOK, HandOK, Threads, Sessions, SyncPCs, PumpPCs, trayVars, sessionVars, pipeVars
<1>19. CASE Fatal
    BY <1>19, BoundAssumption DEF Fatal, WriteOut, At, Goto, TypeOK, HandOK, Threads, Sessions, SyncPCs, PumpPCs, trayVars, sessionVars, pipeVars
<1>20. CASE PrintLine
    BY <1>20, BoundAssumption DEF PrintLine, WriteOut, At, Goto, TypeOK, HandOK, Threads, Sessions, SyncPCs, PumpPCs, trayVars, sessionVars, pipeVars
<1>21. CASE TimerFires
    BY <1>21, BoundAssumption DEF TimerFires, At, Goto, TypeOK, HandOK, Threads, Sessions, SyncPCs, PumpPCs, trayVars, sessionVars, pipeVars
<1>22. CASE NotifyLock
    BY <1>22, BoundAssumption DEF NotifyLock, Lock, At, Goto, TypeOK, HandOK, Threads, Mutexes, Sessions, SyncPCs, PumpPCs, trayVars, sessionVars, pipeVars
<1>23. CASE NotifyGet
    BY <1>23, BoundAssumption DEF NotifyGet, Lock, At, Goto, TypeOK, HandOK, Threads, Mutexes, Sessions, SyncPCs, PumpPCs, trayVars, sessionVars, pipeVars
<1>24. CASE NotifyRead
    BY <1>24, BoundAssumption DEF NotifyRead, Unlock, Release, At, Goto, TypeOK, HandOK, Threads, Mutexes, Sessions, SyncPCs, PumpPCs, trayVars, sessionVars, pipeVars
<1>25. CASE NotifyCall
    BY <1>25, BoundAssumption DEF NotifyCall, Unlock, Release, At, Goto, TypeOK, HandOK, Threads, Mutexes, Sessions, SyncPCs, PumpPCs, trayVars, sessionVars, pipeVars
<1>26. CASE QuitLock
    BY <1>26, BoundAssumption DEF QuitLock, Lock, At, Goto, TypeOK, HandOK, Threads, Mutexes, Sessions, SyncPCs, PumpPCs, trayVars, sessionVars, pipeVars
<1>27. CASE Remove
    BY <1>27, BoundAssumption DEF Remove, Release, At, Goto, TypeOK, HandOK, Threads, Sessions, SyncPCs, PumpPCs, trayVars, sessionVars, pipeVars
<1>28. CASE ClickSync
    BY <1>28, BoundAssumption DEF ClickSync, OfferToken, At, Goto, TypeOK, HandOK, Threads, Sessions, SyncPCs, PumpPCs, trayVars, sessionVars, pipeVars
<1>29. CASE ClickStatus
    BY <1>29, BoundAssumption DEF ClickStatus, At, Goto, TypeOK, HandOK, Threads, Sessions, SyncPCs, PumpPCs, trayVars, sessionVars, pipeVars
<1>30. CASE ClickQuit
    BY <1>30, BoundAssumption DEF ClickQuit, At, Goto, TypeOK, HandOK, Threads, Sessions, SyncPCs, PumpPCs, trayVars, sessionVars, pipeVars
<1>31. CASE RunReturns
    BY <1>31, BoundAssumption DEF RunReturns, At, Goto, TypeOK, HandOK, Threads, Sessions, SyncPCs, PumpPCs, trayVars, sessionVars, pipeVars
<1>32. CASE Show \/ Break \/ Collect
    <2>1. mode = "oneshot" /\ pc["sync"] = "exit" /\ reader = "reading" => pipe = 0
        BY <1>32 DEF HandOK
    <2> QED
        BY <1>32, <2>1 DEF Show, Break, Collect, TypeOK, HandOK, trayVars, sessionVars
<1>33. ASSUME NEW t \in Threads, Take(t) PROVE HandOK'
    BY <1>33, BoundAssumption DEF Take, Lock, At, Goto, TypeOK, HandOK, Threads, Mutexes, Sessions, SyncPCs, PumpPCs, trayVars, sessionVars, pipeVars
<1>34. ASSUME NEW t \in Threads, Taken(t) PROVE HandOK'
    BY <1>34, BoundAssumption DEF Taken, Release, At, Goto, TypeOK, HandOK, Threads, Mutexes, Sessions, SyncPCs, PumpPCs, trayVars, sessionVars, pipeVars
<1>35. ASSUME NEW t \in Threads, Unregister(t) PROVE HandOK'
    BY <1>35, BoundAssumption DEF Unregister, Lock, At, Goto, TypeOK, HandOK, Threads, Mutexes, Sessions, SyncPCs, PumpPCs, trayVars, sessionVars, pipeVars
<1>36. ASSUME NEW t \in Threads, Unregistered(t) PROVE HandOK'
    BY <1>36, BoundAssumption DEF Unregistered, Release, At, Goto, TypeOK, HandOK, Threads, Mutexes, Sessions, SyncPCs, PumpPCs, trayVars, sessionVars, pipeVars
<1>37. ASSUME NEW t \in Threads, Kill(t), mode = "oneshot" PROVE HandOK'
    <2>1. t = "sync" /\ pc["sync"] = "kill" /\ chrome \subseteq {doomed["sync"]}
        BY <1>37 DEF Kill, At, HandOK, Threads
    <2>2. chrome' = {}
        BY <1>37, <2>1 DEF Kill
    <2>3. pc' = [pc EXCEPT !["sync"] = pc'["sync"]] /\ pc'["sync"] \in {"next", "stop"}
        BY <1>37, <2>1 DEF Kill, Goto, TypeOK, Threads
    <2> QED
        BY <1>37, <2>1, <2>2, <2>3 DEF Kill, At, HandOK, TypeOK, Threads
<1>38. ASSUME NEW t \in Threads, Kill(t), mode # "oneshot" PROVE HandOK'
    BY <1>38 DEF Kill, HandOK
<1>39. ASSUME NEW t \in Threads, Stop(t) \/ Drained(t) PROVE HandOK'
    BY <1>39, BoundAssumption DEF Stop, Drained, At, Goto, TypeOK, HandOK, Threads, Sessions, SyncPCs, PumpPCs, trayVars, sessionVars, pipeVars
<1>40. ASSUME NEW t \in Threads, Exit(t) PROVE HandOK'
    BY <1>40, BoundAssumption DEF Exit, At, Goto, TypeOK, HandOK, Threads, Sessions, SyncPCs, PumpPCs, trayVars, sessionVars, pipeVars
<1>41. CASE UNCHANGED vars
    BY <1>41 DEF vars, At, Goto, TypeOK, HandOK, Threads, Sessions, SyncPCs, PumpPCs, trayVars, sessionVars, pipeVars
<1> QED
    BY <1>1, <1>2, <1>3, <1>4, <1>5, <1>6, <1>7, <1>8, <1>9, <1>10, <1>11, <1>12, <1>13, <1>14,
       <1>15, <1>16, <1>17, <1>18, <1>19, <1>20, <1>21, <1>22, <1>23, <1>24, <1>25, <1>26, <1>27, <1>28,
       <1>29, <1>30, <1>31, <1>32, <1>33, <1>34, <1>35, <1>36, <1>37, <1>38, <1>39, <1>40, <1>41
       DEF Next, SyncStep, PumpStep, SyncLock, PumpLock, User, Teardown, Threads

\* fatal() and the deferred teardown: no Chrome is left and no line is lost.
THEOREM OneShotIsClean == Spec => []OneShotLeavesNothing
<1>1. Init => HandOK
    BY DEF Init, HandOK, Threads
<1>2. HandOK => OneShotLeavesNothing
    BY DEF HandOK, OneShotLeavesNothing
<1>3. Typed => TypeOK
    BY DEF Typed
<1> QED
    BY <1>1, <1>2, <1>3, Types, StepHand, PTL DEF Spec

-----------------------------------------------------------------------------
(* Clicks and mutexes *)

LEMMA StepClick == TypeOK /\ ClickNotLost /\ [Next]_vars => ClickNotLost'
<1> SUFFICES ASSUME TypeOK, ClickNotLost, [Next]_vars PROVE ClickNotLost'
    OBVIOUS
<1>1. CASE TipLock
    BY <1>1 DEF TipLock, Lock, At, Goto, TypeOK, ClickNotLost, Threads, SyncPCs, PumpPCs, trayVars
<1>2. CASE TipCheck
    BY <1>2 DEF TipCheck, Release, ToCall, AfterTip, At, Goto, TypeOK, ClickNotLost, Threads, SyncPCs, PumpPCs, trayVars
<1>3. CASE TipGet
    BY <1>3 DEF TipGet, Lock, At, Goto, TypeOK, ClickNotLost, Threads, SyncPCs, PumpPCs, trayVars
<1>4. CASE TipRead
    BY <1>4 DEF TipRead, Unlock, Release, At, Goto, TypeOK, ClickNotLost, Threads, SyncPCs, PumpPCs, trayVars
<1>5. CASE TipCall
    BY <1>5 DEF TipCall, Unlock, Release, AfterTip, At, Goto, TypeOK, ClickNotLost, Threads, SyncPCs, PumpPCs, trayVars
<1>6. CASE BeginCycle
    BY <1>6 DEF BeginCycle, At, Goto, TypeOK, ClickNotLost, Threads, SyncPCs, PumpPCs, trayVars
<1>7. CASE NextPart
    BY <1>7 DEF NextPart, WriteOut, At, Goto, TypeOK, ClickNotLost, Threads, SyncPCs, PumpPCs, trayVars
<1>8. CASE SetLock
    BY <1>8 DEF SetLock, Lock, At, Goto, TypeOK, ClickNotLost, Threads, SyncPCs, PumpPCs, trayVars
<1>9. CASE SetWrite
    BY <1>9 DEF SetWrite, Unlock, Release, At, Goto, TypeOK, ClickNotLost, Threads, SyncPCs, PumpPCs, trayVars
<1>10. CASE TakeToken
    BY <1>10 DEF TakeToken, At, Goto, TypeOK, ClickNotLost, Threads, SyncPCs, PumpPCs, trayVars
<1>11. CASE Open
    BY <1>11 DEF Open, At, Goto, TypeOK, ClickNotLost, Threads, SyncPCs, PumpPCs, trayVars
<1>12. CASE Register
    BY <1>12 DEF Register, Lock, At, Goto, TypeOK, ClickNotLost, Threads, SyncPCs, PumpPCs, trayVars
<1>13. CASE Registered
    BY <1>13 DEF Registered, Release, At, Goto, TypeOK, ClickNotLost, Threads, SyncPCs, PumpPCs, trayVars
<1>14. CASE OpenNot
    BY <1>14 DEF OpenNot, At, Goto, TypeOK, ClickNotLost, Threads, SyncPCs, PumpPCs, trayVars
<1>15. CASE Launch
    BY <1>15 DEF Launch, At, Goto, TypeOK, ClickNotLost, Threads, SyncPCs, PumpPCs, trayVars
<1>16. CASE Finish
    BY <1>16 DEF Finish, At, Goto, TypeOK, ClickNotLost, Threads, SyncPCs, PumpPCs, trayVars
<1>17. CASE GoFatal
    BY <1>17 DEF GoFatal, At, Goto, TypeOK, ClickNotLost, Threads, SyncPCs, PumpPCs, trayVars
<1>18. CASE OneShotNext
    BY <1>18 DEF OneShotNext, At, Goto, TypeOK, ClickNotLost, Threads, SyncPCs, PumpPCs, trayVars
<1>19. CASE Fatal
    BY <1>19 DEF Fatal, WriteOut, At, Goto, TypeOK, ClickNotLost, Threads, SyncPCs, PumpPCs, trayVars
<1>20. CASE PrintLine
    BY <1>20 DEF PrintLine, WriteOut, At, Goto, TypeOK, ClickNotLost, Threads, SyncPCs, PumpPCs, trayVars
<1>21. CASE TimerFires
    BY <1>21 DEF TimerFires, At, Goto, TypeOK, ClickNotLost, Threads, SyncPCs, PumpPCs, trayVars
<1>22. CASE NotifyLock
    BY <1>22 DEF NotifyLock, Lock, At, Goto, TypeOK, ClickNotLost, Threads, SyncPCs, PumpPCs, trayVars
<1>23. CASE NotifyGet
    BY <1>23 DEF NotifyGet, Lock, At, Goto, TypeOK, ClickNotLost, Threads, SyncPCs, PumpPCs, trayVars
<1>24. CASE NotifyRead
    BY <1>24 DEF NotifyRead, Unlock, Release, At, Goto, TypeOK, ClickNotLost, Threads, SyncPCs, PumpPCs, trayVars
<1>25. CASE NotifyCall
    BY <1>25 DEF NotifyCall, Unlock, Release, At, Goto, TypeOK, ClickNotLost, Threads, SyncPCs, PumpPCs, trayVars
<1>26. CASE QuitLock
    BY <1>26 DEF QuitLock, Lock, At, Goto, TypeOK, ClickNotLost, Threads, SyncPCs, PumpPCs, trayVars
<1>27. CASE Remove
    BY <1>27 DEF Remove, Release, At, Goto, TypeOK, ClickNotLost, Threads, SyncPCs, PumpPCs, trayVars
<1>28. CASE ClickSync
    BY <1>28 DEF ClickSync, OfferToken, At, Goto, TypeOK, ClickNotLost, Threads, SyncPCs, PumpPCs, trayVars
<1>29. CASE ClickStatus
    BY <1>29 DEF ClickStatus, At, Goto, TypeOK, ClickNotLost, Threads, SyncPCs, PumpPCs, trayVars
<1>30. CASE ClickQuit
    BY <1>30 DEF ClickQuit, At, Goto, TypeOK, ClickNotLost, Threads, SyncPCs, PumpPCs, trayVars
<1>31. CASE RunReturns
    BY <1>31 DEF RunReturns, At, Goto, TypeOK, ClickNotLost, Threads, SyncPCs, PumpPCs, trayVars
<1>32. CASE Show \/ Break \/ Collect
    BY <1>32 DEF Show, Break, Collect, At, Goto, TypeOK, ClickNotLost, Threads, SyncPCs, PumpPCs, trayVars
<1>33. ASSUME NEW t \in Threads, Take(t) PROVE ClickNotLost'
    BY <1>33 DEF Take, Lock, At, Goto, TypeOK, ClickNotLost, Threads, SyncPCs, PumpPCs, trayVars
<1>34. ASSUME NEW t \in Threads, Taken(t) PROVE ClickNotLost'
    BY <1>34 DEF Taken, Release, At, Goto, TypeOK, ClickNotLost, Threads, SyncPCs, PumpPCs, trayVars
<1>35. ASSUME NEW t \in Threads, Unregister(t) PROVE ClickNotLost'
    BY <1>35 DEF Unregister, Lock, At, Goto, TypeOK, ClickNotLost, Threads, SyncPCs, PumpPCs, trayVars
<1>36. ASSUME NEW t \in Threads, Unregistered(t) PROVE ClickNotLost'
    BY <1>36 DEF Unregistered, Release, At, Goto, TypeOK, ClickNotLost, Threads, SyncPCs, PumpPCs, trayVars
<1>37. ASSUME NEW t \in Threads, Kill(t) PROVE ClickNotLost'
    BY <1>37 DEF Kill, At, Goto, TypeOK, ClickNotLost, Threads, SyncPCs, PumpPCs, trayVars
<1>38. ASSUME NEW t \in Threads, Stop(t) \/ Drained(t) PROVE ClickNotLost'
    BY <1>38 DEF Stop, Drained, At, Goto, TypeOK, ClickNotLost, Threads, SyncPCs, PumpPCs, trayVars
<1>39. ASSUME NEW t \in Threads, Exit(t) PROVE ClickNotLost'
    BY <1>39 DEF Exit, At, Goto, TypeOK, ClickNotLost, Threads, SyncPCs, PumpPCs, trayVars
<1>40. CASE UNCHANGED vars
    BY <1>40 DEF vars, At, Goto, TypeOK, ClickNotLost, Threads, SyncPCs, PumpPCs, trayVars
<1> QED
    BY <1>1, <1>2, <1>3, <1>4, <1>5, <1>6, <1>7, <1>8, <1>9, <1>10, <1>11, <1>12, <1>13, <1>14,
       <1>15, <1>16, <1>17, <1>18, <1>19, <1>20, <1>21, <1>22, <1>23, <1>24, <1>25, <1>26, <1>27, <1>28,
       <1>29, <1>30, <1>31, <1>32, <1>33, <1>34, <1>35, <1>36, <1>37, <1>38, <1>39, <1>40
       DEF Next, SyncStep, PumpStep, SyncLock, PumpLock, User, Teardown, Threads

\* From the click on "Jetzt synchronisieren" to the beginning of a cycle its token is in
\* the channel or a cycle is about to begin, for any number of clicks.
THEOREM ClicksAreNotLost == Spec => []ClickNotLost
<1>1. Init => ClickNotLost
    BY DEF Init, ClickNotLost
<1>2. Typed => TypeOK
    BY DEF Typed
<1> QED
    BY <1>1, <1>2, Types, StepClick, PTL DEF Spec

\* Whoever holds a mutex another goroutine waits for can go on at once: no cycle of
\* waiting goroutines, and none that waits for the pipe with a mutex in its hands.
THEOREM HoldersMoveOn == Spec => []HolderMovesOn
<1>1. Init => MutexOK /\ IconOK
    BY DEF Init, MutexOK, IconOK, Threads, Mutexes
<1>2. TypeOK /\ MutexOK => HolderMovesOn
    <2> SUFFICES ASSUME TypeOK, MutexOK, NEW t \in Threads, NEW u \in Threads, WaitsFor(t, u)
                 PROVE  MovesOn(u)
        BY DEF HolderMovesOn
    <2>1. PICK m \in Mutexes : pc[t] \in LockPlaces[m] /\ mutex[m] = u
        BY DEF WaitsFor
    <2>2. CASE m = "trayMu"
        <3>1. pc[t] \in {"tip", "notify", "quitLock"} /\ mutex["trayMu"] = u
            BY <2>1, <2>2 DEF LockPlaces
        <3>2. mutex["statusMu"] \in {"sync", "pump", "free"}
            BY DEF TypeOK, Mutexes, Threads
        <3>3. mutex["statusMu"] = "free" \/ mutex["statusMu"] = u
            BY <3>1, <3>2 DEF MutexOK, Threads
        <3>4. mutex["statusMu"] = u => pc[u] \notin LockPlaces["statusMu"]
            BY DEF MutexOK, LockPlaces, Mutexes, Threads
        <3>5. pc[u] \notin PipePlaces /\ pc[u] \notin LockPlaces["trayMu"] /\ pc[u] \notin LockPlaces["teardownMu"]
            BY <3>1 DEF MutexOK, LockPlaces, PipePlaces, Mutexes, Threads
        <3> QED
            BY <3>3, <3>4, <3>5 DEF MovesOn, Mutexes
    <2>3. CASE m = "statusMu"
        BY <2>1, <2>3 DEF MutexOK, MovesOn, LockPlaces, PipePlaces, Mutexes, Threads
    <2>4. CASE m = "teardownMu"
        BY <2>1, <2>4 DEF MutexOK, MovesOn, LockPlaces, PipePlaces, Mutexes, Threads
    <2> QED
        BY <2>2, <2>3, <2>4 DEF Mutexes
<1>3. Typed => TypeOK
    BY DEF Typed
<1> QED
    BY <1>1, <1>2, <1>3, Types, StepTray, PTL DEF Spec

\* The status is not read for a notification while a cycle writes it.
THEOREM StatusIsWhole == Spec => []StatusNotTorn
<1>1. Init => MutexOK /\ IconOK
    BY DEF Init, MutexOK, IconOK, Threads, Mutexes
<1>2. MutexOK => StatusNotTorn
    BY DEF MutexOK, StatusNotTorn
<1>3. Typed => TypeOK
    BY DEF Typed
<1> QED
    BY <1>1, <1>2, <1>3, Types, StepTray, PTL DEF Spec

=============================================================================
