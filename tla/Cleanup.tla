---- MODULE Cleanup ----
(***************************************************************************)
(* What several instances of the program, sharing one machine with no      *)
(* single-instance guard, leave on disk and sweep away (daemon.go 708-861, *)
(* cdp.go 102-172, main.go 75-107): a Chrome profile directory named after *)
(* the process id, and a randomly named copy of the cookie database.       *)
(* Every daemon sweeps both when it starts, while others may be reading    *)
(* the cookie copy or have Chrome open on their profile.                   *)
(*                                                                         *)
(* A process id is a member of Pids, whatever process holds it over time.  *)
(* Windows, its process table and Chrome are external.                     *)
(***************************************************************************)
CONSTANTS Pids,           \* the process ids the machine hands out
          Temps,          \* the names of %TEMP%\schroedinger_* directories
          Nobody,         \* no directory: neither a process id nor a name
          QueryFails,     \* may a question to the process table or to the
                          \* file system go unanswered?
          ReuseInWindow,  \* may a process id be handed out again between the
                          \* liveness check of its directory and its removal?
          BriefCopies     \* is a cookie copy in use for less than residueMinAge?

ASSUME Names == Pids \cap Temps = {} /\ Nobody \notin Pids \cup Temps
ASSUME Switches == {QueryFails, ReuseInWindow, BriefCopies} \subseteq BOOLEAN

VARIABLES
  phase,    \* what holds the process id, and where an instance of ours is
  chrome,   \* the ids on whose profile directory a Chrome is running
  profile,  \* the profile directory of this id
  temp,     \* the copy of the cookie database under this name
  mine,     \* the copy an instance is using
  todo,     \* the directories a cleanup has listed and not looked at yet
  target,   \* the directory a cleanup has decided to remove
  failed,   \* the instances whose cleanup has counted an error
  owed      \* (ghost) what lay abandoned when the cleanup listed it

vars == <<phase, chrome, profile, temp, mine, todo, target, failed, owed>>

Cleaning == {"profiles", "temps"}
\* "ended": the process is gone but another process still holds a handle to it.
Gone     == {"none", "ended"}
Phases   == Gone \cup Cleaning \cup {"other", "idle", "copying", "sweep", "launch", "session"}

Running(p) == phase[p] \notin Gone
Ours(p)    == Running(p) /\ phase[p] # "other"

TypeOK ==
  /\ phase \in [Pids -> Phases]
  /\ chrome \in SUBSET Pids
  /\ profile \in [Pids -> {"absent", "plain", "torn", "link"}]
  /\ temp \in [Temps -> {"absent", "young", "old"}]
  /\ mine \in [Pids -> Temps \cup {Nobody}]
  /\ todo \in [Pids -> SUBSET (Pids \cup Temps)]
  /\ target \in [Pids -> Pids \cup Temps \cup {Nobody}]
  /\ failed \in SUBSET Pids
  /\ owed \in [Pids -> SUBSET (Pids \cup Temps)]
  /\ \A p \in Pids : mine[p] # Nobody <=> phase[p] = "copying"

(* A junction may stand where a profile belongs; nothing else is there yet. *)
Init ==
  /\ phase = [p \in Pids |-> "none"]
  /\ chrome = {}
  /\ profile \in [Pids -> {"absent", "link"}]
  /\ temp = [t \in Temps |-> "absent"]
  /\ mine = [p \in Pids |-> Nobody]
  /\ todo = [p \in Pids |-> {}]
  /\ target = [p \in Pids |-> Nobody]
  /\ failed = {}
  /\ owed = [p \in Pids |-> {}]

----
(* The files.                                                               *)

(* os.RemoveAll on a profile: files that Chrome has open stay, and the walk
   has already deleted others when it meets them; or it fails half-way.     *)
RemovedProfile(q) ==
  IF profile[q] = "absent" THEN {"absent"}
  ELSE {"torn"} \cup (IF q \in chrome THEN {} ELSE {"absent"})

(* isReparsePoint: neither sweep touches a junction, unless its attributes
   cannot be read; RemoveAll then unlinks it.                               *)
SweptProfile(q) ==
  IF profile[q] # "link" THEN RemovedProfile(q)
  ELSE {"link"} \cup (IF QueryFails THEN {"absent"} ELSE {})

\* A faulty variant of AliveAnswers: every profile but one's own is a leftover.
AliveNever(q) == {FALSE}

\* A faulty variant of AliveAnswers: an id that can be opened counts as running.
AliveByHandle(q) == {phase[q] # "none"}

(* processAlive: the process table is asked for the id, and an exit code of
   STILL_ACTIVE tells a running process from one that only has handles left.
   A query that fails is answered like a process that is gone.              *)
AliveAnswers(q) == {Running(q)} \cup (IF QueryFails THEN {FALSE} ELSE {})

\* A faulty variant of TooYoung: the comparison the wrong way round.
TooYoungReversed(t) == temp[t] = "old"

(* time.Since(fi.ModTime()) < residueMinAge; a copy that cannot be looked at
   is passed over in silence.                                               *)
TooYoung(t) == temp[t] # "old"
PassedOver(t) == {TooYoung(t)} \cup (IF QueryFails THEN {TRUE} ELSE {})

----
(* Processes come and go.                                                   *)

(* A fresh id, or one whose process is gone. A daemon (watch, supervise,
   tray) or cleanup-temp sweeps first, the other commands do not; any other
   program may get the id too.                                              *)
Start(p) ==
  /\ phase[p] = "none"
  /\ ReuseInWindow \/ \A c \in Pids : target[c] # p
  /\ \E to \in {"profiles", "idle", "other"} :
       /\ phase' = [phase EXCEPT ![p] = to]
       /\ LET left == [c \in Pids |-> owed[c] \ {p}] IN
          IF to = "profiles"
          THEN LET there == {q \in Pids : profile[q] # "absent"} IN
               /\ \/ /\ todo' = [todo EXCEPT ![p] = there]  \* os.ReadDir
                     /\ owed' = [left EXCEPT ![p] = {q \in there \ {p} : ~Running(q)}]
                     /\ failed' = failed \ {p}
                  \/ /\ todo' = [todo EXCEPT ![p] = {}]     \* ReadDir failed
                     /\ owed' = [left EXCEPT ![p] = {}]
                     /\ failed' = failed \cup {p}
          ELSE /\ owed' = [left EXCEPT ![p] = {}]
               /\ failed' = failed \ {p}
               /\ todo' = [todo EXCEPT ![p] = {}]
  /\ UNCHANGED <<chrome, profile, temp, mine, target>>

(* The end of a process, by its own exit or killed at any point, in which
   case a Chrome it started may outlive it: no Job Object ties them.        *)
End(p) ==
  /\ Running(p)
  /\ \E to \in Gone : phase' = [phase EXCEPT ![p] = to]
  /\ chrome' \in {chrome, chrome \ {p}}
  /\ mine' = [mine EXCEPT ![p] = Nobody]
  /\ todo' = [todo EXCEPT ![p] = {}]
  /\ target' = [target EXCEPT ![p] = Nobody]
  /\ owed' = [owed EXCEPT ![p] = {}]
  /\ failed' = failed \ {p}
  /\ UNCHANGED <<profile, temp>>

(* The last handle to a process that ended is closed; a Chrome that outlived
   its parent is closed; a cookie copy has been there for residueMinAge.    *)
LastHandleClosed(p) ==
  /\ phase[p] = "ended"
  /\ phase' = [phase EXCEPT ![p] = "none"]
  /\ UNCHANGED <<chrome, profile, temp, mine, todo, target, failed, owed>>

OrphanCloses(p) ==
  /\ p \in chrome /\ phase[p] # "session"
  /\ chrome' = chrome \ {p}
  /\ UNCHANGED <<phase, profile, temp, mine, todo, target, failed, owed>>

Age(t) ==
  /\ temp[t] = "young"
  /\ BriefCopies => \A p \in Pids : mine[p] # t
  /\ temp' = [temp EXCEPT ![t] = "old"]
  /\ UNCHANGED <<phase, chrome, profile, mine, todo, target, failed, owed>>

----
(* A session: openClaudeSession reads the session key through a copy of the
   cookie database, sweeps its own profile directory and starts Chrome.     *)

(* os.MkdirTemp: a random name, which no cleanup has ever listed. *)
CopyCookieDB(p) ==
  /\ phase[p] = "idle"
  /\ \E t \in Temps :
       /\ temp[t] = "absent"
       /\ \A c \in Pids : t # target[c] /\ t \notin todo[c] \cup owed[c]
       /\ temp' = [temp EXCEPT ![t] = "young"]
       /\ mine' = [mine EXCEPT ![p] = t]
  /\ phase' = [phase EXCEPT ![p] = "copying"]
  /\ UNCHANGED <<chrome, profile, todo, target, failed, owed>>

\* A faulty variant of CopyDone: the error return forgets the cleanup.
CopyDoneLeaky(p) ==
  /\ phase[p] = "copying"
  /\ \/ /\ phase' = [phase EXCEPT ![p] = "sweep"]
        /\ temp' = [temp EXCEPT ![mine[p]] = "absent"]
        /\ mine' = [mine EXCEPT ![p] = Nobody]
     \/ /\ phase' = [phase EXCEPT ![p] = "idle"]
        /\ UNCHANGED <<temp, mine>>
  /\ UNCHANGED <<chrome, profile, todo, target, failed, owed>>

(* The key was read, or not: the copy is removed either way, by a RemoveAll
   whose failure nobody looks at.                                           *)
CopyDone(p) ==
  /\ phase[p] = "copying"
  /\ \E to \in {"sweep", "idle"} : phase' = [phase EXCEPT ![p] = to]
  /\ \E left \in {"absent", temp[mine[p]]} : temp' = [temp EXCEPT ![mine[p]] = left]
  /\ mine' = [mine EXCEPT ![p] = Nobody]
  /\ UNCHANGED <<chrome, profile, todo, target, failed, owed>>

SweepChromeProfile(p) ==
  /\ phase[p] = "sweep"
  /\ \E after \in SweptProfile(p) : profile' = [profile EXCEPT ![p] = after]
  /\ phase' = [phase EXCEPT ![p] = "launch"]
  /\ UNCHANGED <<chrome, temp, mine, todo, target, failed, owed>>

(* Chrome comes up on whatever the sweep left, or the session does not open. *)
Launch(p) ==
  /\ phase[p] = "launch"
  /\ \/ /\ phase' = [phase EXCEPT ![p] = "session"]
        /\ chrome' = chrome \cup {p}
        /\ profile' = [profile EXCEPT ![p] = IF @ = "link" THEN "link" ELSE "plain"]
     \/ /\ phase' = [phase EXCEPT ![p] = "idle"]
        /\ UNCHANGED <<chrome, profile>>
  /\ UNCHANGED <<temp, mine, todo, target, failed, owed>>

(* teardown closes Chrome; the pinned directory stays. *)
Teardown(p) ==
  /\ phase[p] = "session"
  /\ phase' = [phase EXCEPT ![p] = "idle"]
  /\ chrome' = chrome \ {p}
  /\ UNCHANGED <<profile, temp, mine, todo, target, failed, owed>>

----
(* cleanupTemp: first the profiles, then the cookie copies.                 *)

(* One directory of the list: passed over, or about to be removed. *)
CheckProfile(p, q) ==
  /\ phase[p] = "profiles" /\ target[p] = Nobody /\ q \in todo[p] \cap Pids
  /\ todo' = [todo EXCEPT ![p] = @ \ {q}]
  /\ \E alive \in AliveAnswers(q) :
       target' = [target EXCEPT ![p] = IF alive THEN Nobody ELSE q]
  /\ UNCHANGED <<phase, chrome, profile, temp, mine, failed, owed>>

(* removeResidueTree: a directory that vanished is no error, a junction is
   refused, and a RemoveAll that could not finish is counted.               *)
RemoveProfile(p, q) ==
  /\ phase[p] = "profiles" /\ target[p] = q /\ q \in Pids
  /\ \E after \in SweptProfile(q) :
       /\ profile' = [profile EXCEPT ![q] = after]
       /\ failed' = IF after = "absent" THEN failed ELSE failed \cup {p}
  /\ target' = [target EXCEPT ![p] = Nobody]
  /\ UNCHANGED <<phase, chrome, temp, mine, todo, owed>>

(* filepath.Glob lists the copies that exist now, or none if it fails. *)
GlobTemps(p) ==
  /\ phase[p] = "profiles" /\ target[p] = Nobody /\ todo[p] = {}
  /\ phase' = [phase EXCEPT ![p] = "temps"]
  /\ \E listed \in {{t \in Temps : temp[t] # "absent"}} \cup (IF QueryFails THEN {{}} ELSE {}) :
       todo' = [todo EXCEPT ![p] = listed]
  /\ owed' = [owed EXCEPT ![p] = @ \cup {t \in Temps : temp[t] = "old"}]
  /\ UNCHANGED <<chrome, profile, temp, mine, target, failed>>

CheckTemp(p, t) ==
  /\ phase[p] = "temps" /\ target[p] = Nobody /\ t \in todo[p] \cap Temps
  /\ todo' = [todo EXCEPT ![p] = @ \ {t}]
  /\ \E skip \in PassedOver(t) :
       target' = [target EXCEPT ![p] = IF skip THEN Nobody ELSE t]
  /\ UNCHANGED <<phase, chrome, profile, temp, mine, failed, owed>>

RemoveTemp(p, t) ==
  /\ phase[p] = "temps" /\ target[p] = t /\ t \in Temps
  /\ \E after \in {"absent", temp[t]} :
       /\ temp' = [temp EXCEPT ![t] = after]
       /\ failed' = IF after = "absent" THEN failed ELSE failed \cup {p}
  /\ target' = [target EXCEPT ![p] = Nobody]
  /\ UNCHANGED <<phase, chrome, profile, mine, todo, owed>>

CleanupDone(p) ==
  /\ phase[p] = "temps" /\ target[p] = Nobody /\ todo[p] = {}
  /\ phase' = [phase EXCEPT ![p] = "idle"]
  /\ UNCHANGED <<chrome, profile, temp, mine, todo, target, failed, owed>>

----
Cleanup(p) ==
  \/ \E q \in Pids : CheckProfile(p, q) \/ RemoveProfile(p, q)
  \/ \E t \in Temps : CheckTemp(p, t) \/ RemoveTemp(p, t)
  \/ GlobTemps(p) \/ CleanupDone(p)

Session(p) ==
  \/ CopyCookieDB(p) \/ CopyDone(p)
  \/ SweepChromeProfile(p) \/ Launch(p) \/ Teardown(p)

Next ==
  \/ \E p \in Pids : \/ Start(p) \/ End(p) \/ LastHandleClosed(p) \/ OrphanCloses(p)
                     \/ Cleanup(p) \/ Session(p)
  \/ \E t \in Temps : Age(t)

Spec == Init /\ [][Next]_vars

----
(* No sweep, its own instance's or another's, ever deletes files out from
   under the Chrome an instance has open (cdp.go 111-118, daemon.go 727-735). *)
LiveProfileKept == \A p \in Pids : phase[p] = "session" => profile[p] # "torn"

(* The cookie copy an instance is still reading is not taken for a crash
   leftover, even though it carries no process id (daemon.go 708-716).      *)
CopyKept == \A p \in Pids : mine[p] # Nobody => temp[mine[p]] # "absent"

(* A cleanup that reports no error has removed everything that lay abandoned
   when it looked: the profiles of ids that no process has held since, and
   the copies already past residueMinAge (daemon.go 718-746).               *)
SweepComplete ==
  \A p \in Pids : phase[p] \notin Cleaning /\ p \notin failed =>
    /\ \A q \in owed[p] \cap Pids : profile[q] = "absent"
    /\ \A t \in owed[p] \cap Temps : temp[t] = "absent"

====
