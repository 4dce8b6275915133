------------------------------ MODULE Shutdown ------------------------------
(***************************************************************************)
(* How a run of the program comes to its end: the tray daemon of tray.go   *)
(* (trayMain: the sync goroutine and the goroutine that runs the menu      *)
(* callbacks) and a one-shot command, with the teardown registry, the      *)
(* output pipe and fatal() of security.go and the Chrome sessions that     *)
(* openClaudeSession of cdp.go starts and ends.                            *)
(*                                                                         *)
(* What a session downloads is the subject of Session and SyncEngine; here *)
(* it is a number, opened and closed.                                      *)
(***************************************************************************)
EXTENDS Naturals

CONSTANTS
    MaxSessions,  \* bound: sessions opened in one run
    MaxClicks,    \* bound: clicks on "Jetzt synchronisieren" and "Status anzeigen"
    PipeSize      \* lines the output pipe holds

ASSUME BoundAssumption ==
    MaxSessions \in Nat \ {0} /\ MaxClicks \in Nat /\ PipeSize \in Nat \ {0}

VARIABLES
    mode,          \* "tray" or "oneshot"
    pc,            \* where the two goroutines are
    phase,         \* which session of a cycle: "chats", "surfaces"
    mutex,         \* mutex -> the goroutine that holds it, or "free"
    shuttingDown,  \* "Beenden" has been clicked
    icon,          \* does the tray icon exist?
    syncNow,       \* tokens in the channel of that name
    wanted,        \* observation: a click no cycle has begun after
    clicks,        \* clicks so far
    active,        \* activeTeardown: the session it tears down; 0: nil
    doomed,        \* the session a goroutine is tearing down; 0: none
    cancelled,     \* sessions whose context is cancelled
    chrome,        \* sessions with a Chrome process
    opened,        \* sessions so far
    pipe,          \* lines printed and not yet shown
    closed,        \* is the write end of the pipe closed?
    reader,        \* "reading"; "broken": it returned, the terminal is gone;
                   \* "collected": and the runtime has closed the read end
    exited         \* os.Exit, or the return of main

vars == <<mode, pc, phase, mutex, shuttingDown, icon, syncNow, wanted, clicks,
          active, doomed, cancelled, chrome, opened, pipe, closed, reader, exited>>

Threads == {"sync", "pump"}
Sessions == 1 .. MaxSessions

\* statusMu is the RWMutex of statusHolder.  Its two readers never meet, as both come
\* with trayMu in their hands: one holder is enough.
Mutexes == {"trayMu", "statusMu", "teardownMu"}

SyncPCs == {"tip", "tipCheck", "tipGet", "tipRead", "tipCall", "cycle", "set", "write",
            "open", "register", "registered", "launch", "run", "unregister", "unregistered",
            "kill", "next", "wait", "ended", "fatal", "take", "taken", "stop", "drain", "exit"}
PumpPCs == {"idle", "notify", "notifyGet", "notifyRead", "notifyCall", "quitLock", "remove",
            "take", "taken", "unregister", "unregistered", "kill", "stop", "drain", "exit"}

TypeOK ==
    /\ mode \in {"tray", "oneshot"}
    /\ pc \in [Threads -> SyncPCs \cup PumpPCs]
    /\ pc["sync"] \in SyncPCs /\ pc["pump"] \in PumpPCs
    /\ phase \in {"chats", "surfaces", "rest"}
    /\ mutex \in [Mutexes -> Threads \cup {"free"}]
    /\ shuttingDown \in BOOLEAN /\ icon \in BOOLEAN /\ exited \in BOOLEAN
    /\ syncNow \in 0 .. 1 /\ wanted \in BOOLEAN /\ clicks \in 0 .. MaxClicks
    /\ active \in Sessions \cup {0}
    /\ doomed \in [Threads -> Sessions \cup {0}]
    /\ cancelled \subseteq Sessions /\ chrome \subseteq Sessions
    /\ opened \in 0 .. MaxSessions
    /\ pipe \in 0 .. PipeSize /\ closed \in BOOLEAN
    /\ reader \in {"reading", "broken", "collected"}

-----------------------------------------------------------------------------
(* Helpers *)

At(t, label) == ~exited /\ pc[t] = label
Goto(t, label) == pc' = [pc EXCEPT ![t] = label]

trayVars == <<shuttingDown, icon, syncNow, wanted, clicks>>
sessionVars == <<active, doomed, cancelled, chrome, opened>>
pipeVars == <<pipe, closed, reader>>

Release(m) == mutex' = [mutex EXCEPT ![m] = "free"]

\* A goroutine waits for m, and goes on with it.
Lock(t, label, m, next) ==
    /\ At(t, label) /\ mutex[m] = "free"
    /\ mutex' = [mutex EXCEPT ![m] = t] /\ Goto(t, next)
    /\ UNCHANGED <<mode, phase, trayVars, sessionVars, pipeVars, exited>>

\* What it does with m in its hands changes nothing here, and m is released.
Unlock(t, label, m, next) ==
    /\ At(t, label) /\ Release(m) /\ Goto(t, next)
    /\ UNCHANGED <<mode, phase, trayVars, sessionVars, pipeVars, exited>>

\* A line printed: it waits while the pipe is full, and is lost without notice
\* when one end is closed.
WriteOut ==
    /\ IF closed \/ reader = "collected" THEN UNCHANGED pipe
       ELSE pipe < PipeSize /\ pipe' = pipe + 1
    /\ UNCHANGED <<closed, reader>>

-----------------------------------------------------------------------------
(* The teardown registry and the output pipe: security.go *)

Take(t) == Lock(t, "take", "teardownMu", "taken")

\* A faulty variant of Taken: the teardown runs before a deferred Unlock, and so
\* waits for itself in registerTeardown(nil).
TakenDeferred(t) ==
    /\ At(t, "taken")
    /\ doomed' = [doomed EXCEPT ![t] = active] /\ active' = 0
    /\ IF active = 0 THEN Release("teardownMu") ELSE UNCHANGED mutex
    /\ Goto(t, IF active = 0 THEN "stop" ELSE "unregister")
    /\ UNCHANGED <<mode, phase, trayVars, cancelled, chrome, opened, pipeVars, exited>>

\* runActiveTeardown takes the registered teardown under the mutex and runs it after.
Taken(t) ==
    /\ At(t, "taken")
    /\ doomed' = [doomed EXCEPT ![t] = active] /\ active' = 0
    /\ Release("teardownMu")
    /\ Goto(t, IF active = 0 THEN "stop" ELSE "unregister")
    /\ UNCHANGED <<mode, phase, trayVars, cancelled, chrome, opened, pipeVars, exited>>

\* The teardown of a session begins with registerTeardown(nil), whoever runs it ...
Unregister(t) == Lock(t, "unregister", "teardownMu", "unregistered")

Unregistered(t) ==
    /\ At(t, "unregistered")
    /\ active' = 0 /\ Release("teardownMu")
    /\ Goto(t, "kill")
    /\ UNCHANGED <<mode, phase, trayVars, doomed, cancelled, chrome, opened, pipeVars, exited>>

\* ... and then cancels its contexts, which ends Chrome.
Kill(t) ==
    /\ At(t, "kill")
    /\ cancelled' = cancelled \cup {doomed[t]} /\ chrome' = chrome \ {doomed[t]}
    /\ doomed' = [doomed EXCEPT ![t] = 0]
    /\ \/ t = "pump" /\ Goto(t, "stop")
       \/ t = "sync" /\ phase # "rest" /\ Goto(t, "next")
       \/ t = "sync" /\ phase = "rest" /\ Goto(t, "stop")
    /\ UNCHANGED <<mode, phase, mutex, trayVars, active, opened, pipeVars, exited>>

\* stopRedactor closes the pipe ...
Stop(t) ==
    /\ At(t, "stop") /\ closed' = TRUE /\ Goto(t, "drain")
    /\ UNCHANGED <<mode, phase, mutex, trayVars, sessionVars, pipe, reader, exited>>

\* ... and waits for the reader to have shown the rest, or to have given up.
Drained(t) ==
    /\ At(t, "drain") /\ (reader = "reading" => pipe = 0) /\ Goto(t, "exit")
    /\ UNCHANGED <<mode, phase, mutex, trayVars, sessionVars, pipeVars, exited>>

Exit(t) ==
    /\ At(t, "exit") /\ exited' = TRUE
    /\ UNCHANGED <<mode, pc, phase, mutex, trayVars, sessionVars, pipeVars>>

\* The reader of the pipe shows one line, or cannot, and returns.
Show ==
    /\ ~exited /\ reader = "reading" /\ pipe > 0 /\ pipe' = pipe - 1
    /\ UNCHANGED <<mode, pc, phase, mutex, trayVars, sessionVars, closed, reader, exited>>

Break ==
    /\ ~exited /\ reader = "reading" /\ pipe > 0 /\ pipe' = pipe - 1
    /\ reader' = "broken"
    /\ UNCHANGED <<mode, pc, phase, mutex, trayVars, sessionVars, closed, exited>>

\* Nothing closes the read end but the garbage collector, once the reader is gone.
Collect ==
    /\ ~exited /\ reader = "broken" /\ reader' = "collected" /\ pipe' = 0
    /\ UNCHANGED <<mode, pc, phase, mutex, trayVars, sessionVars, closed, exited>>

-----------------------------------------------------------------------------
(* A session: openClaudeSession, its use, its teardown *)

\* The contexts of a session exist before its teardown is registered ...
Open ==
    /\ At("sync", "open") /\ opened < MaxSessions
    /\ opened' = opened + 1 /\ doomed' = [doomed EXCEPT !["sync"] = opened + 1]
    /\ Goto("sync", "register")
    /\ UNCHANGED <<mode, phase, mutex, trayVars, active, cancelled, chrome, pipeVars, exited>>

Register == Lock("sync", "register", "teardownMu", "registered")

\* ... and its teardown is registered before Chrome is started.
Registered ==
    /\ At("sync", "registered")
    /\ active' = doomed["sync"] /\ Release("teardownMu")
    /\ Goto("sync", "launch")
    /\ UNCHANGED <<mode, phase, trayVars, doomed, cancelled, chrome, opened, pipeVars, exited>>

\* No session key, or no session due in this part of the cycle.
OpenNot ==
    /\ At("sync", "open") /\ Goto("sync", "next")
    /\ UNCHANGED <<mode, phase, mutex, trayVars, sessionVars, pipeVars, exited>>

\* Chrome starts unless the context is cancelled already.
Launch ==
    /\ At("sync", "launch")
    /\ LET s == doomed["sync"] IN
          \/ s \notin cancelled /\ chrome' = chrome \cup {s} /\ Goto("sync", "run")
          \/ UNCHANGED chrome /\ Goto("sync", "unregister")
    /\ UNCHANGED <<mode, phase, mutex, trayVars, active, doomed, cancelled, opened, pipeVars, exited>>

\* The harvest prints as it goes; it ends by itself or because of the context.
PrintLine ==
    /\ At("sync", "run") /\ WriteOut
    /\ UNCHANGED <<mode, pc, phase, mutex, trayVars, sessionVars, exited>>

Finish ==
    /\ At("sync", "run")
    /\ Goto("sync", "unregister")
    /\ UNCHANGED <<mode, phase, mutex, trayVars, sessionVars, pipeVars, exited>>

\* A one-shot command that fails calls fatal(), and its deferred teardown never runs.
GoFatal ==
    /\ At("sync", "run") /\ mode = "oneshot"
    /\ doomed' = [doomed EXCEPT !["sync"] = 0]
    /\ Goto("sync", "fatal")
    /\ UNCHANGED <<mode, phase, mutex, trayVars, active, cancelled, chrome, opened, pipeVars, exited>>

-----------------------------------------------------------------------------
(* The one-shot command *)

\* After its session the command returns from main, or opening it had failed.
OneShotNext ==
    /\ At("sync", "next") /\ mode = "oneshot"
    /\ \E label \in {"stop", "fatal"} : Goto("sync", label)
    /\ UNCHANGED <<mode, phase, mutex, trayVars, sessionVars, pipeVars, exited>>

\* A faulty variant of Fatal: it prints and exits (fixed in 2.1.0).
FatalAtOnce ==
    /\ At("sync", "fatal") /\ WriteOut
    /\ phase' = "rest"
    /\ Goto("sync", "stop")
    /\ UNCHANGED <<mode, mutex, trayVars, sessionVars, exited>>

\* fatal() prints, tears down what is registered, drains the pipe and exits.
Fatal ==
    /\ At("sync", "fatal") /\ WriteOut
    /\ phase' = "rest"
    /\ Goto("sync", "take")
    /\ UNCHANGED <<mode, mutex, trayVars, sessionVars, exited>>

-----------------------------------------------------------------------------
(* The sync goroutine of the tray *)

TipLock == Lock("sync", "tip", "trayMu", "tipCheck")

\* After the tooltip: a cycle, or the end of one, where the flag is read again.
AfterTip == IF phase = "chats" THEN "cycle" ELSE IF shuttingDown THEN "ended" ELSE "wait"

\* The tooltip of a cycle's end shows the status, which has a mutex of its own.
ToCall == IF phase = "chats" THEN "tipCall" ELSE "tipGet"

\* A faulty variant of TipCheck: the flag was read before the mutex was taken.
TipCheckStale ==
    /\ At("sync", "tipCheck") /\ Goto("sync", ToCall)
    /\ UNCHANGED <<mode, phase, mutex, trayVars, sessionVars, pipeVars, exited>>

TipCheck ==
    /\ At("sync", "tipCheck")
    /\ IF shuttingDown THEN Release("trayMu") /\ Goto("sync", AfterTip)
       ELSE UNCHANGED mutex /\ Goto("sync", ToCall)
    /\ UNCHANGED <<mode, phase, trayVars, sessionVars, pipeVars, exited>>

\* status.get(): the read lock is released by the return.
TipGet == Lock("sync", "tipGet", "statusMu", "tipRead")
TipRead == Unlock("sync", "tipRead", "statusMu", "tipCall")

\* SetTooltip.
TipCall == Unlock("sync", "tipCall", "trayMu", AfterTip)

\* A faulty variant of SetWrite: the mutex is kept for the tooltip that follows.
SetWriteKeeps ==
    /\ At("sync", "write") /\ Goto("sync", "tip")
    /\ UNCHANGED <<mode, phase, mutex, trayVars, sessionVars, pipeVars, exited>>

\* status.set(), once runCycle has returned.
SetLock == Lock("sync", "set", "statusMu", "write")
SetWrite == Unlock("sync", "write", "statusMu", "tip")

\* runCycle begins: skipped while Desktop is up, else chats, then surfaces.
BeginCycle ==
    /\ At("sync", "cycle")
    /\ wanted' = FALSE
    /\ \/ Goto("sync", "open") /\ UNCHANGED phase
       \/ Goto("sync", "set") /\ phase' = "rest"
    /\ UNCHANGED <<mode, mutex, shuttingDown, icon, syncNow, clicks,
                   sessionVars, pipeVars, exited>>

\* The chats end with a line in the log, the surfaces only if they were due.
NextPart ==
    /\ At("sync", "next") /\ mode = "tray"
    /\ \/ phase = "chats" /\ phase' = "surfaces" /\ Goto("sync", "open") /\ WriteOut
       \/ /\ phase = "surfaces" /\ phase' = "rest" /\ Goto("sync", "set")
          /\ WriteOut \/ UNCHANGED pipeVars
    /\ UNCHANGED <<mode, mutex, trayVars, sessionVars, exited>>

TimerFires ==
    /\ At("sync", "wait")
    /\ phase' = "chats" /\ Goto("sync", "tip")
    /\ UNCHANGED <<mode, mutex, trayVars, sessionVars, pipeVars, exited>>

TakeToken ==
    /\ At("sync", "wait") /\ syncNow > 0
    /\ syncNow' = syncNow - 1 /\ phase' = "chats" /\ Goto("sync", "tip")
    /\ UNCHANGED <<mode, mutex, shuttingDown, icon, wanted, clicks,
                   sessionVars, pipeVars, exited>>

-----------------------------------------------------------------------------
(* The menu callbacks, one at a time on the message pump *)

\* Faulty variants of OfferToken: a second token is queued, and an unbuffered
\* channel, heard only while waiting.
OfferTokenTwice == syncNow' = syncNow + 1
OfferTokenUnbuffered == syncNow' = IF pc["sync"] = "wait" THEN 1 ELSE syncNow

\* A non-blocking send on a channel of capacity 1.
OfferToken == syncNow' = 1

ClickSync ==
    /\ At("pump", "idle") /\ mode = "tray" /\ clicks < MaxClicks
    /\ clicks' = clicks + 1 /\ wanted' = TRUE
    /\ OfferToken
    /\ UNCHANGED <<mode, pc, phase, mutex, shuttingDown, icon, sessionVars, pipeVars, exited>>

ClickStatus ==
    /\ At("pump", "idle") /\ mode = "tray" /\ clicks < MaxClicks
    /\ clicks' = clicks + 1 /\ Goto("pump", "notify")
    /\ UNCHANGED <<mode, phase, mutex, shuttingDown, icon, syncNow, wanted,
                   sessionVars, pipeVars, exited>>

NotifyLock == Lock("pump", "notify", "trayMu", "notifyGet")

\* A faulty variant of NotifyGet: the status is a plain string (before 2.0.1).
NotifyGetUnlocked ==
    /\ At("pump", "notifyGet") /\ Goto("pump", "notifyRead")
    /\ UNCHANGED <<mode, phase, mutex, trayVars, sessionVars, pipeVars, exited>>

NotifyGet == Lock("pump", "notifyGet", "statusMu", "notifyRead")
NotifyRead == Unlock("pump", "notifyRead", "statusMu", "notifyCall")

\* ShowNotification.
NotifyCall == Unlock("pump", "notifyCall", "trayMu", "idle")

ClickQuit ==
    /\ At("pump", "idle") /\ mode = "tray"
    /\ shuttingDown' = TRUE /\ Goto("pump", "quitLock")
    /\ UNCHANGED <<mode, phase, mutex, icon, syncNow, wanted, clicks,
                   sessionVars, pipeVars, exited>>

QuitLock == Lock("pump", "quitLock", "trayMu", "remove")

Remove ==
    /\ At("pump", "remove")
    /\ icon' = FALSE /\ Release("trayMu") /\ Goto("pump", "take")
    /\ UNCHANGED <<mode, phase, shuttingDown, syncNow, wanted, clicks,
                   sessionVars, pipeVars, exited>>

\* tray.Run returns, with an error that is logged: trayMain and main return, and
\* the redactor is stopped, but no session is torn down.
RunReturns ==
    /\ At("pump", "idle") /\ mode = "tray" /\ Goto("pump", "stop")
    /\ UNCHANGED <<mode, phase, mutex, trayVars, sessionVars, pipeVars, exited>>

-----------------------------------------------------------------------------
(* Specification *)

Init ==
    /\ mode \in {"tray", "oneshot"}
    /\ pc = [t \in Threads |-> IF t = "pump" THEN "idle" ELSE IF mode = "tray" THEN "tip" ELSE "open"]
    /\ phase = "chats" /\ mutex = [m \in Mutexes |-> "free"]
    /\ shuttingDown = FALSE /\ icon = (mode = "tray")
    /\ syncNow = 0 /\ wanted = FALSE /\ clicks = 0
    /\ active = 0 /\ doomed = [t \in Threads |-> 0] /\ cancelled = {} /\ chrome = {} /\ opened = 0
    /\ pipe = 0 /\ closed = FALSE /\ reader = "reading" /\ exited = FALSE

\* Every place where a mutex is waited for.
SyncLock == TipLock \/ TipGet \/ SetLock \/ Register \/ Take("sync") \/ Unregister("sync")
PumpLock == NotifyLock \/ NotifyGet \/ QuitLock \/ Take("pump") \/ Unregister("pump")

Teardown(t) == Taken(t) \/ Unregistered(t) \/ Kill(t) \/ Stop(t) \/ Drained(t) \/ Exit(t)

SyncStep ==
    \/ SyncLock \/ TipCheck \/ TipRead \/ TipCall \/ BeginCycle \/ NextPart \/ SetWrite \/ TakeToken
    \/ Open \/ OpenNot \/ Registered \/ Launch \/ Finish \/ GoFatal \/ OneShotNext \/ Fatal
    \/ Teardown("sync")

\* What a callback does once it has been entered.
PumpStep == PumpLock \/ NotifyRead \/ NotifyCall \/ Remove \/ Teardown("pump")

User == ClickSync \/ ClickStatus \/ ClickQuit

Next == SyncStep \/ PrintLine \/ TimerFires \/ PumpStep \/ User \/ RunReturns
    \/ Show \/ Break \/ Collect

Spec == Init /\ [][Next]_vars

\* The goroutines run; a free mutex is handed to whoever waits for it; garbage is
\* collected.  Nothing is assumed of the timer or the user.
Fairness ==
    /\ WF_vars(SyncStep) /\ WF_vars(PumpStep) /\ WF_vars(Show \/ Break) /\ WF_vars(Collect)
    /\ SF_vars(SyncLock) /\ SF_vars(PumpLock)

FairSpec == Spec /\ Fairness

-----------------------------------------------------------------------------
(* Properties *)

\* After start-up every call into the tray object is made under trayMu and before
\* Remove, however a click on "Beenden" falls between the check of shuttingDown and the
\* call, or while the status is waited for.  (The icon is set up without trayMu, before
\* there is a second goroutine.)
TrayCallsInTime ==
    /\ pc["sync"] = "tipCall" => icon /\ mutex["trayMu"] = "sync"
    /\ pc["pump"] \in {"notifyCall", "remove"} => icon /\ mutex["trayMu"] = "pump"

\* A one-shot command leaves no Chrome behind and, as long as there is a terminal,
\* has shown every line it printed, the last one too, whether it returns or calls
\* fatal() (security.go).
OneShotLeavesNothing ==
    exited /\ mode = "oneshot" => chrome = {} /\ (reader = "reading" => pipe = 0)

\* A click on "Jetzt synchronisieren" during a cycle is not lost: a cycle begins
\* after it, without waiting for the timer (the channel holds one token), unless
\* "Beenden" is clicked or tray.Run returns.
SyncRequestServed == wanted ~> (~wanted \/ shuttingDown \/ exited)

\* The safety side of it: as long as no cycle has begun after the click, its token is
\* in the channel, or a cycle is about to begin that the timer or an earlier click has
\* started; a click that falls between two steps of the loop is not swallowed.
ClickNotLost ==
    wanted => syncNow = 1 \/ (phase = "chats" /\ pc["sync"] \in {"tip", "tipCheck", "tipCall", "cycle"})

\* Once "Beenden" is clicked or fatal() is called the process exits: the three
\* mutexes, the pipe and the teardown never wait for each other, and not for a
\* terminal that is gone either.
QuitExits == shuttingDown \/ pc["sync"] = "fatal" ~> exited

\* Where a mutex is waited for, and where the pipe may have to be.
LockPlaces ==
    [m \in Mutexes |->
        CASE m = "trayMu" -> {"tip", "notify", "quitLock"}
          [] m = "statusMu" -> {"set", "tipGet", "notifyGet"}
          [] m = "teardownMu" -> {"register", "take", "unregister"}]
PipePlaces == {"run", "next", "fatal", "drain"}

WaitsFor(t, u) == \E m \in Mutexes : pc[t] \in LockPlaces[m] /\ mutex[m] = u

MovesOn(u) ==
    /\ pc[u] \notin PipePlaces
    /\ \A m \in Mutexes : pc[u] \in LockPlaces[m] => mutex[m] = "free"

\* Why they never wait for each other: whoever holds a mutex another goroutine waits
\* for can go on at once.  trayMu is kept while the status is waited for, but the
\* status is never kept while trayMu is, the registry's mutex is kept for no call at
\* all, and none for the pipe (tray.go's callbacks and loop, runActiveTeardown).
HolderMovesOn == \A t, u \in Threads : WaitsFor(t, u) => MovesOn(u)

\* The comment on statusHolder: without the mutex "a torn read could surface a garbled
\* status".  The status is not read for a notification while a cycle writes it.
StatusNotTorn == ~(pc["sync"] = "write" /\ pc["pump"] = "notifyRead")

\* The comment on activeTeardown: with it "a fatal exit - or the tray 'Beenden'
\* click" can "run it and not orphan the visible browser".
NoOrphan == exited /\ (shuttingDown \/ mode = "oneshot") => chrome = {}

=============================================================================
