------------------------------ MODULE Supervise ------------------------------
(***************************************************************************)
(* The autostart mode of schroedinger-sync: superviseLoop and              *)
(* nextSuperviseState of daemon.go.  The loop polls for Claude Desktop and *)
(* VS Code and runs a sync cycle only while it considers the user active.  *)
(*                                                                         *)
(* Time is counted in polls: one sleep is one poll interval (20 s), or     *)
(* longer when the machine was suspended.  A cycle is one runCycle: it is  *)
(* skipped when Desktop is up at its beginning, and otherwise copies the   *)
(* account (SyncEngine has the detail).                                    *)
(***************************************************************************)
EXTENDS Naturals

CONSTANTS
    Grace,      \* superviseGraceOffPolls
    Interval,   \* cycle interval, in polls
    BriefUse,   \* may Desktop be open for less than a poll?
    MaxFaults,  \* bound: process queries and syncs that fail
    MaxOpen     \* bound: how often Claude Desktop is opened

ASSUME GraceAssumption == Grace \in Nat \ {0}
ASSUME IntervalAssumption == Interval \in Nat \ {0}
ASSUME BoundAssumption == BriefUse \in BOOLEAN /\ MaxFaults \in Nat /\ MaxOpen \in Nat

VARIABLES
    desktop, vscode,  \* what is running
    dirty,            \* has Desktop been used since the last copy of the account?
    opened,           \* how often Desktop has been opened
    pc,               \* where the loop is
    desktopUp, vscodeUp, active, missCount,  \* its locals
    since,            \* polls since lastCycle; Interval also for "long ago" and "never"
    faults,           \* failed queries and syncs
    window            \* observation: what the last Grace polls saw, the latest first

userVars == <<desktop, vscode, dirty, opened>>
vars == <<desktop, vscode, dirty, opened, pc, desktopUp, vscodeUp, active, missCount,
          since, faults, window>>

PCs == {"pollDesktop", "pollVSCode", "decide", "cycle", "sync", "sleep"}

TypeOK ==
    /\ desktop \in BOOLEAN /\ vscode \in BOOLEAN /\ dirty \in BOOLEAN
    /\ opened \in 0 .. MaxOpen
    /\ pc \in PCs
    /\ desktopUp \in BOOLEAN /\ vscodeUp \in BOOLEAN
    /\ active \in BOOLEAN /\ missCount \in 0 .. Grace - 1
    /\ since \in 0 .. Interval
    /\ faults \in 0 .. MaxFaults
    /\ window \in [1 .. Grace -> BOOLEAN]

-----------------------------------------------------------------------------
(* nextSuperviseState: the decision of one poll *)

\* A faulty variant: one poll too many before the loop goes idle.
NextActiveLate(seen, wasActive, misses) == seen \/ (wasActive /\ misses < Grace)

NextActive(seen, wasActive, misses) == seen \/ (wasActive /\ misses + 1 < Grace)

\* A faulty variant: a sighting does not forget the misses before it.
NextMissesKept(seen, wasActive, misses) ==
    IF NextActive(seen, wasActive, misses) THEN IF seen THEN misses ELSE misses + 1 ELSE 0

NextMisses(seen, wasActive, misses) ==
    IF NextActive(seen, wasActive, misses) /\ ~seen THEN misses + 1 ELSE 0

-----------------------------------------------------------------------------
(* The loop *)

\* processPathContains and isVSCodeRunning answer "no" when the query fails.
Query(running, answer) ==
    \/ answer = running /\ UNCHANGED faults
    \/ answer = FALSE /\ faults < MaxFaults /\ faults' = faults + 1

PollDesktop ==
    /\ pc = "pollDesktop" /\ pc' = "pollVSCode"
    /\ desktopUp' \in BOOLEAN /\ Query(desktop, desktopUp')
    /\ UNCHANGED <<userVars, vscodeUp, active, missCount, since, window>>

PollVSCode ==
    /\ pc = "pollVSCode" /\ pc' = "decide"
    /\ vscodeUp' \in BOOLEAN /\ Query(vscode, vscodeUp')
    /\ UNCHANGED <<userVars, desktopUp, active, missCount, since, window>>

\* Faulty variants of Due: a fixed interval, whoever is there, and a cycle only
\* when the loop resumes.
DueAlways == since = Interval
DueOnResume == active' /\ ~active /\ since = Interval

\* Is a cycle due after this poll?
Due == active' /\ since = Interval

Decide ==
    /\ pc = "decide"
    /\ LET seen == desktopUp \/ vscodeUp IN
          /\ active' = NextActive(seen, active, missCount)
          /\ missCount' = NextMisses(seen, active, missCount)
          /\ window' = [i \in 1 .. Grace |-> IF i = 1 THEN seen ELSE window[i - 1]]
    /\ pc' = IF Due THEN "cycle" ELSE "sleep"
    /\ UNCHANGED <<userVars, desktopUp, vscodeUp, since, faults>>

\* runCycle asks again whether Desktop is up.  A skipped cycle counts as a cycle.
StartCycle ==
    /\ pc = "cycle"
    /\ \E up \in BOOLEAN :
          /\ Query(desktop, up)
          /\ pc' = IF up THEN "sleep" ELSE "sync"
          /\ since' = IF up THEN 0 ELSE since
    /\ UNCHANGED <<userVars, desktopUp, vscodeUp, active, missCount, window>>

\* The account is copied, as it is now.  While Desktop holds the cookie
\* database the copy fails; it may fail for other reasons.
Sync ==
    /\ pc = "sync" /\ pc' = "sleep"
    /\ \/ ~desktop /\ dirty' = FALSE /\ UNCHANGED faults
       \/ desktop /\ UNCHANGED <<dirty, faults>>
       \/ faults < MaxFaults /\ faults' = faults + 1 /\ UNCHANGED dirty
    /\ since' = 0
    /\ UNCHANGED <<desktop, vscode, opened, desktopUp, vscodeUp, active, missCount, window>>

Sleep ==
    /\ pc = "sleep" /\ pc' = "pollDesktop"
    /\ since' = IF since < Interval THEN since + 1 ELSE since
    /\ UNCHANGED <<userVars, desktopUp, vscodeUp, active, missCount, faults, window>>

\* The machine was suspended during the sleep, or the polls were slow.
SleepLong ==
    /\ pc = "sleep" /\ pc' = "pollDesktop"
    /\ since' = Interval
    /\ UNCHANGED <<userVars, desktopUp, vscodeUp, active, missCount, faults, window>>

Loop == PollDesktop \/ PollVSCode \/ Decide \/ StartCycle \/ Sync \/ Sleep \/ SleepLong

-----------------------------------------------------------------------------
(* The user *)

loopVars == <<pc, desktopUp, vscodeUp, active, missCount, since, faults, window>>

OpenDesktop ==
    /\ ~desktop /\ opened < MaxOpen
    /\ desktop' = TRUE /\ dirty' = TRUE /\ opened' = opened + 1
    /\ UNCHANGED <<vscode, loopVars>>

\* Unless BriefUse, Desktop stays open until a poll has seen it.
CloseDesktop ==
    /\ desktop /\ (BriefUse \/ desktopUp)
    /\ desktop' = FALSE
    /\ UNCHANGED <<vscode, dirty, opened, loopVars>>

OpenVSCode == ~vscode /\ vscode' = TRUE /\ UNCHANGED <<desktop, dirty, opened, loopVars>>

CloseVSCode == vscode /\ vscode' = FALSE /\ UNCHANGED <<desktop, dirty, opened, loopVars>>

User == OpenDesktop \/ CloseDesktop \/ OpenVSCode \/ CloseVSCode

-----------------------------------------------------------------------------
(* Specification *)

Init ==
    /\ desktop \in BOOLEAN /\ vscode \in BOOLEAN /\ dirty = desktop /\ opened = 0
    /\ pc = "pollDesktop" /\ desktopUp = FALSE /\ vscodeUp = FALSE
    /\ active = FALSE /\ missCount = 0 /\ since = Interval /\ faults = 0
    /\ window = [i \in 1 .. Grace |-> FALSE]

Next == Loop \/ User

Spec == Init /\ [][Next]_vars

\* The loop never ends; the user does not keep Desktop open for ever.
FairSpec == Spec /\ WF_vars(Loop) /\ WF_vars(CloseDesktop)

-----------------------------------------------------------------------------
(* Properties *)

\* nextSuperviseState remembers one bit and a miss count; together they say
\* exactly whether any of the last Grace polls saw Desktop or VS Code.  So a gap
\* shorter than Grace polls never pauses the sync, wherever it falls, and Grace
\* polls without a sighting always do.
ActiveIffSeen == active <=> \E i \in 1 .. Grace : window[i]

\* A cycle is run only while the user has been seen within the last Grace polls and
\* never twice within an interval; and while the user is there, the loop never goes to
\* sleep over a cycle that is due, be it after a pause of the loop, a suspended machine
\* or a cycle that was skipped or failed (superviseLoop).
CyclesWhenDue ==
    /\ pc \in {"cycle", "sync"} => since = Interval /\ \E i \in 1 .. Grace : window[i]
    /\ pc = "sleep" /\ since = Interval => \A i \in 1 .. Grace : ~window[i]

\* While VS Code stays open and Desktop stays closed, the account is copied, after
\* failures too, and remains so (superviseLoop's cycles every interval).
CopiedWhileVSCodeIsOpen == <>[](vscode /\ ~desktop) => <>[]~dirty

\* Idle means no Chrome and no network: once everything is closed for good, the
\* loop runs no further cycle (superviseLoop), even if none has ever succeeded.
IdleInTheEnd == <>[](~vscode /\ ~desktop) => <>[](~active /\ pc \notin {"cycle", "sync"})

\* The header of daemon.go: the daemon "watches for claude.ai activity (Cookie-DB
\* writes) and incrementally syncs"; the README: it "only actually syncs in the
\* windows where Desktop happens to be closed".  So what was done in Desktop is
\* copied once Desktop is closed for good.
CopiedOnceDesktopIsClosed == <>[]~desktop => <>[]~dirty

=============================================================================
