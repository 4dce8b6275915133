------------------------------ MODULE SyncEngine ------------------------------
(***************************************************************************)
(* The chat sync engine of schroedinger-sync: the daemon cycle of          *)
(* daemon.go (runCycle, harvestOnce, syncConversations, loadState,         *)
(* saveState) and the one-shot harvest of cdp.go (cdpHarvest), any number  *)
(* of instances of either sharing one output directory, next to the       *)
(* claude.ai account they copy and the Claude Desktop that edits it.       *)
(*                                                                         *)
(* Data is abstracted to versions.  Version v > 0 of a conversation stands *)
(* for its content and its updated_at; Second[v] is updated_at cut to 19   *)
(* characters, the only part an exported file repeats in its header.       *)
(* Conversations are visited in an arbitrary order (the server's).         *)
(***************************************************************************)
EXTENDS Naturals, FiniteSets

CONSTANTS
    Convs,           \* conversation UUIDs
    None,            \* "no conversation"
    Daemons,         \* running watch / tray / supervise instances
    Harvesters,      \* one-shot `harvest` invocations
    Overlap,         \* may two instances work at the same time?
    Second,          \* version -> updated_at truncated to whole seconds
    Tiny,            \* conversations whose export never counts as current: at most
                     \* minFileSizeBytes, or a title that pushes the header too far
    Broken,          \* conversations whose fetch always fails (e.g. rate limit)
    Hanging,         \* conversations whose fetch never answers
    MaxRetryCycles,  \* maxRetryCycles
    FaultKinds,      \* which transient faults may happen
    MaxFaults,       \* bound: how many of them
    MaxVer,          \* bound: versions of one conversation
    MaxCookie,       \* bound: writes of Desktop's cookie database
    MaxDay           \* bound: days

Procs == Daemons \cup Harvesters
Versions == 0 .. MaxVer    \* 0: absent

ASSUME ConvAssumption == None \notin Convs
ASSUME ProcAssumption == Daemons \cap Harvesters = {} /\ Overlap \in BOOLEAN
ASSUME BoundAssumption ==
    /\ MaxRetryCycles \in Nat \ {0}
    /\ MaxFaults \in Nat /\ MaxVer \in Nat /\ MaxCookie \in Nat /\ MaxDay \in Nat
ASSUME SecondAssumption == Second \in [Versions -> Nat]

VARIABLES
    \* the account and the user's machine
    server,     \* latest version of every conversation
    gone,       \* conversations deleted from the account
    desktop,    \* is Claude Desktop running?
    cookie,     \* modification time of the cookie database; 0: no such file
    day,        \* calendar day, from 1
    \* the output directory
    file,       \* the Markdown export of every conversation
    disk,       \* .sync-state.json
    \* the instances
    pc,         \* where each one is
    job,        \* its local variables
    result,     \* exit status of the last one-shot harvest
    \* observation
    dropped,    \* failed conversations of the last cycle that ended clean or at the cap
    faults      \* transient faults so far

envVars == <<server, gone, desktop, cookie, day>>
vars == <<server, gone, desktop, cookie, day, file, disk,
          pc, job, result, dropped, faults>>

-----------------------------------------------------------------------------
(* Typing *)

\* syncState.  known[c] = 0: c has no entry.  lastSurf = 0: LastSurfaces == "".
State == [known: [Convs -> Versions], synced: BOOLEAN, lastCookie: Nat,
          lastSurf: Nat, retries: 0 .. MaxRetryCycles - 1]
EmptyState == [known |-> [c \in Convs |-> 0], synced |-> FALSE, lastCookie |-> 0,
               lastSurf |-> 0, retries |-> 0]

\* ver = 0 stands for a file that is missing or has just been truncated; whole
\* is FALSE when only a prefix of the content (with the header) is on disk.
File == [ver: Versions, whole: BOOLEAN]
NoFile == [ver |-> 0, whole |-> FALSE]
Whole(v) == [ver |-> v, whole |-> TRUE]
Torn(v) == [ver |-> v, whole |-> FALSE]

Job == [mem: State, mod: Nat, listed: [Convs -> Versions], todo: SUBSET Convs,
        cur: Convs \cup {None}, body: Versions, errs: SUBSET Convs, prog: BOOLEAN]
NoJob == [mem |-> EmptyState, mod |-> 0, listed |-> [c \in Convs |-> 0], todo |-> {},
          cur |-> None, body |-> 0, errs |-> {}, prog |-> FALSE]

PCs == {"idle", "loaded", "open", "list", "scan", "fetch", "write", "fill", "hash",
        "surfaces", "refresh"}

TypeOK ==
    /\ server \in [Convs -> Versions]
    /\ gone \in SUBSET Convs
    /\ desktop \in BOOLEAN
    /\ cookie \in Nat
    /\ day \in Nat
    /\ file \in [Convs -> File]
    /\ disk \in State
    /\ pc \in [Procs -> PCs]
    /\ job \in [Procs -> Job]
    /\ result \in [Harvesters -> {"none", "ok", "failed"}]
    /\ dropped \in SUBSET Convs
    /\ faults \in 0 .. MaxFaults

-----------------------------------------------------------------------------
(* Helpers *)

Goto(p, label) == pc' = [pc EXCEPT ![p] = label]

\* A transient fault: a call of the program that fails although it could have
\* succeeded, or the death of the process.
Fault(kind) == kind \in FaultKinds /\ faults < MaxFaults /\ faults' = faults + 1
NoFault == faults' = faults

\* os.Stat size above minFileSizeBytes and fileConvUpdatedAt = trunc(updated_at, 19).
HeaderMatches(c, v) ==
    c \notin Tiny /\ file[c].ver # 0 /\ Second[file[c].ver] = Second[v]

\* A faulty variant of SkipsAt: the one-shot harvest downloads everything again.
SkipsAtKnown(p, c) ==
    p \in Daemons /\ HeaderMatches(c, job[p].listed[c]) /\ job[p].mem.known[c] = job[p].listed[c]

\* fileIsCurrent for the one-shot harvest, convAction = actionSkip for the daemon.
SkipsAt(p, c) ==
    /\ HeaderMatches(c, job[p].listed[c])
    /\ p \in Daemons => job[p].mem.known[c] = job[p].listed[c]

\* A faulty variant of SeedsAt: any existing file is trusted (fixed in 2.1.1).
SeedsAnyFile(p, c) ==
    p \in Daemons /\ job[p].mem.known[c] = 0 /\ file[c].ver # 0 /\ c \notin Tiny

\* convAction = actionSeed.
SeedsAt(p, c) ==
    p \in Daemons /\ job[p].mem.known[c] = 0 /\ HeaderMatches(c, job[p].listed[c])

\* The retry cap: a cycle with errors and no progress, the last of a series.
CapReached(j) == ~j.prog /\ j.mem.retries + 1 >= MaxRetryCycles

\* A faulty variant of Advances: errors are ignored (fixed in 2.1.2).
AdvancesAlways(j) == TRUE

\* Does the cookie watermark advance past this cycle's activity?
Advances(j) == j.errs = {} \/ CapReached(j)

\* Faulty variants of Watermarked: the cookie time taken after the harvest
\* instead of before it, and a stall counter that is never reset.
WatermarkedLate(j) ==
    [j.mem EXCEPT
        !.synced = TRUE,
        !.lastCookie = IF Advances(j) THEN cookie ELSE @,
        !.retries = IF Advances(j) \/ j.prog THEN 0 ELSE @ + 1]
WatermarkedNoReset(j) ==
    [j.mem EXCEPT
        !.synced = TRUE,
        !.lastCookie = IF Advances(j) THEN j.mod ELSE @,
        !.retries = IF j.errs = {} THEN 0 ELSE @ + 1]

\* cookieWatermark: the state a finished cycle leaves behind.
Watermarked(j) ==
    [j.mem EXCEPT
        !.synced = TRUE,
        !.lastCookie = IF Advances(j) THEN j.mod ELSE @,
        !.retries = IF Advances(j) \/ j.prog THEN 0 ELSE @ + 1]

\* loadState: an unreadable file is a first run.
LoadState(p) ==
    \/ NoFault /\ job' = [job EXCEPT ![p] = [NoJob EXCEPT !.mem = disk]]
    \/ Fault("load") /\ job' = [job EXCEPT ![p] = NoJob]

\* saveState: temporary file and rename, all or nothing.
SaveState(s) ==
    \/ NoFault /\ disk' = s
    \/ Fault("save") /\ disk' = disk

\* The locals of an instance that leaves the chat harvest go out of scope.
EndJob(p) == job' = [job EXCEPT ![p] = NoJob]

\* A faulty variant of ItemFails: the failure is logged and not counted.
ItemFailsQuietly(p) ==
    /\ job' = [job EXCEPT ![p].todo = @ \ {job[p].cur}, ![p].cur = None, ![p].body = 0]
    /\ Goto(p, "scan")

\* The current conversation is counted as an error; the loop continues.
ItemFails(p) ==
    /\ job' = [job EXCEPT ![p].errs = @ \cup {job[p].cur}, ![p].todo = @ \ {job[p].cur},
                          ![p].cur = None, ![p].body = 0]
    /\ Goto(p, "scan")

\* A faulty variant of MovesState: every download counts as progress (fixed in 2.1.2).
MovesStateAlways(j) == TRUE

\* newN++ or changedN++: rewriting an unchanged conversation is no progress.
MovesState(j) == j.mem.known[j.cur] # j.listed[j.cur]

\* A hard error ends the chat harvest.  The daemon reports it, keeps nothing of
\* what the harvest learnt, and turns to the surfaces; the one-shot exits.
HardError(p) ==
    /\ EndJob(p)
    /\ IF p \in Daemons THEN Goto(p, "surfaces") /\ UNCHANGED result
       ELSE Goto(p, "idle") /\ result' = [result EXCEPT ![p] = "failed"]

-----------------------------------------------------------------------------
(* A cycle of the daemon, a run of the one-shot harvest *)

\* Without Overlap a cycle or a harvest starts when no other is under way.
MayStart(p) == pc[p] = "idle" /\ (~Overlap => \A q \in Procs : pc[q] = "idle")

\* runCycle skips the whole cycle while Desktop is running.
StartCycle(d) ==
    /\ MayStart(d) /\ ~desktop
    /\ LoadState(d)
    /\ Goto(d, "loaded")
    /\ UNCHANGED <<envVars, file, disk, result, dropped>>

\* The cookie time is read once, before the session; LastSync == "" forces a run.
Trigger(d) ==
    /\ pc[d] = "loaded"
    /\ job' = [job EXCEPT ![d].mod = cookie]
    /\ LET mem == job[d].mem
           activity == cookie # 0 /\ cookie # mem.lastCookie
       IN  Goto(d, IF activity \/ ~mem.synced THEN "open" ELSE "surfaces")
    /\ UNCHANGED <<envVars, file, disk, result, dropped, faults>>

\* (A one-shot harvest does not read the cookie time: here it dates its listing.)
StartHarvest(h) ==
    /\ MayStart(h)
    /\ Goto(h, "open")
    /\ job' = [job EXCEPT ![h].mod = cookie]
    /\ result' = [result EXCEPT ![h] = "none"]
    /\ UNCHANGED <<envVars, file, disk, dropped, faults>>

\* The cookie database can be read only while Desktop is down.
SessionPossible == ~desktop /\ cookie # 0

OpenSession(p) ==
    /\ pc[p] = "open"
    /\ \/ SessionPossible /\ NoFault /\ Goto(p, "list") /\ UNCHANGED <<job, result>>
       \/ ~SessionPossible /\ NoFault /\ HardError(p)
       \/ Fault("session") /\ HardError(p)
    /\ UNCHANGED <<envVars, file, disk, dropped>>

\* listAllConversations: a page that fails is a hard error.  The pages are fetched
\* one after the other, so when the account changes meanwhile a conversation may
\* slip between two of them; whatever changes it first opens Desktop.
List(p) ==
    /\ pc[p] = "list"
    /\ \/ /\ NoFault
          /\ \E missed \in SUBSET Convs :
                LET seen == [c \in Convs |-> IF c \in gone \cup missed THEN 0 ELSE server[c]]
                IN  /\ desktop \/ cookie # job[p].mod \/ missed = {}
                    /\ job' = [job EXCEPT ![p].listed = seen,
                                          ![p].todo = {c \in Convs : seen[c] # 0}]
          /\ Goto(p, "scan") /\ UNCHANGED result
       \/ Fault("session") /\ HardError(p)
    /\ UNCHANGED <<envVars, file, disk, dropped>>

Skip(p) ==
    /\ pc[p] = "scan"
    /\ \E c \in job[p].todo : SkipsAt(p, c) /\ job' = [job EXCEPT ![p].todo = @ \ {c}]
    /\ UNCHANGED <<envVars, file, disk, pc, result, dropped, faults>>

Seed(d) ==
    /\ pc[d] = "scan"
    /\ \E c \in job[d].todo :
          /\ SeedsAt(d, c)
          /\ job' = [job EXCEPT ![d].todo = @ \ {c}, ![d].mem.known[c] = job[d].listed[c]]
    /\ UNCHANGED <<envVars, file, disk, pc, result, dropped, faults>>

PickFetch(p) ==
    /\ pc[p] = "scan"
    /\ \E c \in job[p].todo :
          ~SkipsAt(p, c) /\ ~SeedsAt(p, c) /\ job' = [job EXCEPT ![p].cur = c]
    /\ Goto(p, "fetch")
    /\ UNCHANGED <<envVars, file, disk, result, dropped, faults>>

\* The body is newer than the listing if the conversation changed in between.
Fetch(p) ==
    /\ pc[p] = "fetch"
    /\ LET c == job[p].cur IN
          /\ c \notin Broken \cup Hanging \cup gone
          /\ job' = [job EXCEPT ![p].body = server[c]]
    /\ Goto(p, "write")
    /\ UNCHANGED <<envVars, file, disk, result, dropped, faults>>

\* A failed request or an answer that is no conversation: counted, not written.
FetchFails(p) ==
    /\ pc[p] = "fetch" /\ job[p].cur \notin Hanging
    /\ (job[p].cur \in Broken \cup gone /\ NoFault) \/ Fault("item")
    /\ ItemFails(p)
    /\ UNCHANGED <<envVars, file, disk, result, dropped>>

\* The 30 minutes of the session run out: context.DeadlineExceeded.
FetchTimesOut(p) ==
    /\ pc[p] = "fetch"
    /\ (job[p].cur \in Hanging /\ NoFault) \/ Fault("deadline")
    /\ HardError(p)
    /\ UNCHANGED <<envVars, file, disk, dropped>>

\* os.WriteFile truncates the previous export before it writes the new one.
Truncate(p) ==
    /\ pc[p] = "write"
    /\ \/ NoFault /\ file' = [file EXCEPT ![job[p].cur] = NoFile] /\ Goto(p, "fill") /\ UNCHANGED job
       \/ Fault("write") /\ ItemFails(p) /\ UNCHANGED file
    /\ UNCHANGED <<envVars, disk, result, dropped>>

\* ("mixed": another instance has written a longer body meanwhile, and its tail stays.)
Fill(p) ==
    /\ pc[p] = "fill"
    /\ LET write(f) == file' = [file EXCEPT ![job[p].cur] = f] IN
          \/ NoFault /\ write(Whole(job[p].body)) /\ Goto(p, "hash") /\ UNCHANGED job
          \/ /\ Fault("mixed") /\ file[job[p].cur].ver \notin {0, job[p].body}
             /\ write(Torn(job[p].body)) /\ Goto(p, "hash") /\ UNCHANGED job
          \/ Fault("write") /\ write(NoFile) /\ ItemFails(p)
          \/ Fault("torn") /\ write(Torn(job[p].body)) /\ ItemFails(p)
    /\ UNCHANGED <<envVars, disk, result, dropped>>

\* The rest of writeMarkdown and of the loop body: recording the hash (module
\* Manifest), whose failure is no error, takes the time between the write and the
\* daemon's counting of progress and noting of the version.
Record(p) ==
    /\ pc[p] = "hash"
    /\ LET j == job[p]
           done == [j EXCEPT !.todo = @ \ {j.cur}, !.cur = None, !.body = 0]
       IN  job' = [job EXCEPT ![p] =
                      IF p \in Daemons
                      THEN [done EXCEPT !.prog = @ \/ MovesState(j),
                                        !.mem.known[j.cur] = j.listed[j.cur]]
                      ELSE done]
    /\ Goto(p, "scan")
    /\ UNCHANGED <<envVars, file, disk, result, dropped, faults>>

\* The end of the daemon's chat harvest: the watermark, LastSync, saveState.
Save(d) ==
    /\ pc[d] = "scan" /\ job[d].todo = {}
    /\ SaveState(Watermarked(job[d]))
    /\ dropped' = IF job[d].errs = {} \/ CapReached(job[d]) THEN job[d].errs ELSE dropped
    /\ EndJob(d)
    /\ Goto(d, "surfaces")
    /\ UNCHANGED <<envVars, file, result>>

\* The surfaces, and the exit status of the one-shot harvest.
FinishHarvest(h) ==
    /\ pc[h] = "scan" /\ job[h].todo = {}
    /\ \/ /\ NoFault
          /\ result' = [result EXCEPT ![h] = IF job[h].errs = {} THEN "ok" ELSE "failed"]
       \/ Fault("surfaces") /\ result' = [result EXCEPT ![h] = "failed"]
    /\ EndJob(h)
    /\ Goto(h, "idle")
    /\ UNCHANGED <<envVars, file, disk, dropped>>

\* The state is loaded a second time; surfaces are due once a day.
CheckSurfaces(d) ==
    /\ pc[d] = "surfaces"
    /\ LoadState(d)
    /\ Goto(d, IF job'[d].mem.lastSurf < day THEN "refresh" ELSE "idle")
    /\ UNCHANGED <<envVars, file, disk, result, dropped>>

\* refreshSurfaces in a session of its own, then the whole state is saved.
Refresh(d) ==
    /\ pc[d] = "refresh"
    /\ \/ SessionPossible /\ SaveState([job[d].mem EXCEPT !.lastSurf = day])
       \/ ~SessionPossible /\ NoFault /\ UNCHANGED disk
       \/ Fault("surfaces") /\ UNCHANGED disk
    /\ EndJob(d)
    /\ Goto(d, "idle")
    /\ UNCHANGED <<envVars, file, result, dropped>>

-----------------------------------------------------------------------------
(* What happens around the program *)

\* The process dies anywhere.  A one-shot harvest then has no good exit status.
Crash(p) ==
    /\ pc[p] # "idle" /\ Fault("crash")
    /\ EndJob(p)
    /\ Goto(p, "idle")
    /\ result' = IF p \in Harvesters THEN [result EXCEPT ![p] = "failed"] ELSE result
    /\ UNCHANGED <<envVars, file, disk, dropped>>

OpenDesktop ==
    /\ ~desktop /\ cookie < MaxCookie /\ desktop' = TRUE
    /\ UNCHANGED <<server, gone, cookie, day, file, disk, pc, job, result, dropped, faults>>

\* Desktop writes its cookie database at the latest when it exits.
CloseDesktop ==
    /\ desktop /\ desktop' = FALSE /\ cookie' = cookie + 1
    /\ UNCHANGED <<server, gone, day, file, disk, pc, job, result, dropped, faults>>

FlushCookies ==
    /\ desktop /\ cookie + 1 < MaxCookie /\ cookie' = cookie + 1
    /\ UNCHANGED <<server, gone, desktop, day, file, disk, pc, job, result, dropped, faults>>

Edit(c) ==
    /\ desktop /\ c \notin gone /\ server[c] < MaxVer
    /\ server' = [server EXCEPT ![c] = @ + 1]
    /\ UNCHANGED <<gone, desktop, cookie, day, file, disk, pc, job, result, dropped, faults>>

Delete(c) ==
    /\ desktop /\ server[c] # 0 /\ c \notin gone
    /\ gone' = gone \cup {c}
    /\ UNCHANGED <<server, desktop, cookie, day, file, disk, pc, job, result, dropped, faults>>

NextDay ==
    /\ day < MaxDay /\ day' = day + 1
    /\ UNCHANGED <<server, gone, desktop, cookie, file, disk, pc, job, result, dropped, faults>>

-----------------------------------------------------------------------------
(* Specification *)

Init ==
    /\ server \in [Convs -> {v \in Versions : v <= 1}]
    /\ gone = {} /\ desktop = FALSE /\ cookie = 0 /\ day = 1
    /\ file = [c \in Convs |-> NoFile]
    /\ disk = EmptyState
    /\ pc = [p \in Procs |-> "idle"] /\ job = [p \in Procs |-> NoJob]
    /\ result = [h \in Harvesters |-> "none"]
    /\ dropped = {} /\ faults = 0

HarvestStep(p) ==
    \/ OpenSession(p) \/ List(p) \/ Skip(p) \/ PickFetch(p)
    \/ Fetch(p) \/ FetchFails(p) \/ FetchTimesOut(p)
    \/ Truncate(p) \/ Fill(p) \/ Record(p)

DaemonStep(d) ==
    \/ StartCycle(d) \/ Trigger(d) \/ HarvestStep(d) \/ Seed(d) \/ Save(d)
    \/ CheckSurfaces(d) \/ Refresh(d)

OneShotStep(h) == StartHarvest(h) \/ HarvestStep(h) \/ FinishHarvest(h)

Environment ==
    \/ OpenDesktop \/ CloseDesktop \/ FlushCookies \/ NextDay
    \/ \E c \in Convs : Edit(c) \/ Delete(c)

Next ==
    \/ \E d \in Daemons : DaemonStep(d)
    \/ \E h \in Harvesters : OneShotStep(h)
    \/ \E p \in Procs : Crash(p)
    \/ Environment

Spec == Init /\ [][Next]_vars

\* A live instance keeps running; Desktop does not stay open for ever.
Fairness ==
    /\ \A d \in Daemons : WF_vars(DaemonStep(d))
    /\ WF_vars(CloseDesktop)

FairSpec == Spec /\ Fairness

-----------------------------------------------------------------------------
(* Properties *)

\* The chat harvest with Chrome open.
HarvestPCs == {"list", "scan", "fetch", "write", "fill", "hash"}

\* Nothing has happened since the cookie time the daemon last acted on: the
\* next cycles will not look at the account.
Quiet == ~desktop /\ disk.synced /\ disk.lastCookie = cookie

\* When the daemon has stopped looking, every conversation of the account is
\* exported in full at its latest version, save those given up at the retry cap
\* and files below the size check, which any later harvest rewrites (runCycle
\* reads the cookie time before the session and advances the watermark to it only
\* through cookieWatermark).  Without Overlap.
QuietComplete ==
    Quiet => \A c \in Convs \ (dropped \cup gone \cup Tiny) :
                server[c] # 0 => file[c] = Whole(server[c])

\* What the directory holds, as its user sees it.
CompleteCopy == [c \in Convs |-> IF file[c].whole THEN file[c].ver ELSE 0]
Excused == Convs \cap (dropped \cup gone \cup Tiny)

M == INSTANCE Mirror WITH Items <- Convs, account <- server, copy <- CompleteCopy,
                          excused <- Excused, settled <- Quiet

\* The engine implements the mirror: however cycles, one-shot harvests, faults and
\* deaths of the process follow each other, "up to date" is claimed only of a
\* complete copy, an edit ends the claim before it is made, and while the claim
\* stands no copy it speaks of is touched, not even truncated for a moment by a
\* one-shot harvest (fileIsCurrent, os.WriteFile).  Without Overlap.
ImplementsMirror == M!Spec

\* A conversation is passed over or adopted without a download only if its file
\* is a complete export at least as new as the listing (convAction, fileIsCurrent),
\* whatever another instance does to the directory, short of writing the same
\* file at the same time.
DecisionsSound ==
    [][\A p \in Procs : pc[p] = "scan" /\ pc'[p] = "scan" =>
        \A c \in job[p].todo \ job'[p].todo :
            file[c].whole /\ file[c].ver >= job[p].listed[c]]_vars

\* A one-shot harvest that reports success leaves every listed conversation
\* complete and at least as new as it was listed (cdpHarvest exits non-zero on any
\* failure).  Without Overlap.
CleanExitComplete ==
    [][\A h \in Harvesters : result[h] # "ok" /\ result'[h] = "ok" =>
        \A c \in Convs : job[h].listed[c] # 0 =>
            file[c].whole /\ file[c].ver >= job[h].listed[c]]_vars

\* The state after a chat harvest: nothing is taken back, and the watermark, a known
\* version or, failing those, the stall counter has gone up.
MovesOn ==
    /\ disk'.synced /\ disk'.lastSurf = disk.lastSurf
    /\ disk.lastCookie <= disk'.lastCookie
    /\ \A c \in Convs : disk.known[c] <= disk'.known[c]
    /\ \/ ~disk.synced \/ disk.lastCookie < disk'.lastCookie
       \/ \E c \in Convs : disk.known[c] < disk'.known[c]
       \/ disk.retries < disk'.retries

SavesChats(d) == pc[d] = "scan" /\ pc'[d] = "surfaces" /\ faults' = faults

\* No cycle that opens Chrome and saves its state is for nothing: it brings the next
\* cycle closer to leaving the account alone, whatever its items did, and nothing else
\* touches what it saved (runCycle, cookieWatermark, and the second loadState and
\* saveState of the same cycle).  Without Overlap, and if the state can be read.
EveryCycleCounts ==
    [][IF \E d \in Daemons : SavesChats(d) THEN MovesOn
       ELSE disk' \in {disk, [disk EXCEPT !.lastSurf = day]}]_vars

\* Every conversation that can be fetched is in the end exported at its latest
\* version and stays so, after transient failures too (runCycle, every interval),
\* unless it failed in the very cycle in which the retry cap gave up on another.
\* With cookie = 0 there is no Desktop login to borrow.
EventuallyExported ==
    \A c \in Convs \ (Broken \cup Hanging) :
        <>[](cookie = 0 \/ c \in gone \cup dropped \/ (server[c] # 0 => file[c] = Whole(server[c])))

\* With no more Desktop activity the daemon stops re-listing the account and
\* opening Chrome for it, even if a conversation fails for ever (cookieWatermark's
\* cap; progress is not counted for a file rewritten unchanged).
QuietAfterCap == \A d \in Daemons : <>[](pc[d] \notin HarvestPCs)

=============================================================================
