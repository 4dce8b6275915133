---- MODULE CleanupProofs ----
(***************************************************************************)
(* Proofs about Cleanup: for any number of process ids and cookie copies,  *)
(* when process queries answer, an id is not handed out again while its    *)
(* directory is being removed, and a copy is in use for less than          *)
(* residueMinAge, no sweep damages what a live instance uses, and a        *)
(* cleanup without errors left nothing behind of what lay abandoned.       *)
(***************************************************************************)
EXTENDS Cleanup, TLAPS

\* What the promises of cleanupTemp rest on and the code cannot enforce.
Hypotheses == ~QueryFails /\ ~ReuseInWindow /\ BriefCopies

\* A directory about to be removed belongs to a process that is gone, or is a
\* copy nobody reads any more.
TargetOK ==
  \A p \in Pids :
    /\ target[p] \in Pids => phase[p] = "profiles" /\ phase[target[p]] \in Gone
    /\ target[p] \in Temps => phase[p] = "temps" /\ temp[target[p]] # "young"

\* A copy in use is young and used by one instance.
MineOK ==
  /\ \A p \in Pids : mine[p] # Nobody => temp[mine[p]] = "young"
  /\ \A p, q \in Pids : mine[p] = mine[q] /\ mine[p] # Nobody => p = q

\* What a cleanup owes is still on its list, in its hands, counted as an error
\* or removed; it owes no copy before it has listed the copies.
OwedOK ==
  \A p \in Pids :
    /\ \A q \in owed[p] \cap Pids :
         /\ phase[q] \in Gone
         /\ (phase[p] = "profiles" /\ q \in todo[p]) \/ target[p] = q
            \/ p \in failed \/ profile[q] = "absent"
    /\ \A t \in owed[p] \cap Temps :
         /\ temp[t] # "young" /\ phase[p] # "profiles"
         /\ (phase[p] = "temps" /\ t \in todo[p]) \/ target[p] = t
            \/ p \in failed \/ temp[t] = "absent"

Inv == TypeOK /\ TargetOK /\ MineOK /\ OwedOK /\ LiveProfileKept

LEMMA InitInv == Init => Inv
BY Names DEF Init, Inv, TypeOK, TargetOK, MineOK, OwedOK, LiveProfileKept, Phases, Gone, Cleaning

\* The invariant says what the three properties say.
LEMMA InvImplies == Inv => LiveProfileKept /\ CopyKept /\ SweepComplete
<1> SUFFICES ASSUME Inv PROVE CopyKept /\ SweepComplete
  BY DEF Inv
<1>1. CopyKept
  BY DEF Inv, MineOK, CopyKept
<1>2. ASSUME NEW p \in Pids, phase[p] \notin Cleaning, p \notin failed,
             NEW d \in owed[p]
      PROVE (d \in Pids => profile[d] = "absent") /\ (d \in Temps => temp[d] = "absent")
  <2>1. target[p] = Nobody
    BY <1>2 DEF Inv, TypeOK, TargetOK, Cleaning
  <2> QED
    BY <1>2, <2>1, Names DEF Inv, OwedOK, Cleaning
<1> QED
  BY <1>1, <1>2 DEF SweepComplete

----
\* One lemma per action.

LEMMA StartInv == ASSUME Hypotheses, Inv, NEW p \in Pids, Start(p) PROVE Inv'
<1>0. PICK to \in {"profiles", "idle", "other"} :
        /\ phase[p] = "none" /\ phase' = [phase EXCEPT ![p] = to]
        /\ UNCHANGED <<chrome, profile, temp, mine, target>>
        /\ failed' \in {failed \ {p}, failed \cup {p}}
        /\ todo' \in [Pids -> SUBSET (Pids \cup Temps)]
        /\ \A c \in Pids : c # p => todo'[c] = todo[c] /\ owed'[c] = owed[c] \ {p}
        /\ owed' \in [Pids -> SUBSET (Pids \cup Temps)]
        /\ owed'[p] \in SUBSET Pids
        /\ \A q \in owed'[p] : q # p /\ ~Running(q) /\ q \in todo'[p] /\ to = "profiles"
  <2> DEFINE left == [c \in Pids |-> owed[c] \ {p}]
             there == {q \in Pids : profile[q] # "absent"}
             dead  == {q \in there \ {p} : ~Running(q)}
  <2>1. PICK to \in {"profiles", "idle", "other"} :
          /\ phase' = [phase EXCEPT ![p] = to]
          /\ \/ /\ to = "profiles"
                /\ todo' = [todo EXCEPT ![p] = there]
                /\ owed' = [left EXCEPT ![p] = dead]
                /\ failed' = failed \ {p}
             \/ /\ todo' = [todo EXCEPT ![p] = {}]
                /\ owed' = [left EXCEPT ![p] = {}]
                /\ failed' \in {failed \ {p}, failed \cup {p}}
    BY DEF Start
  <2>2. /\ left \in [Pids -> SUBSET (Pids \cup Temps)] /\ there \in SUBSET Pids
        /\ dead \in SUBSET there /\ todo \in [Pids -> SUBSET (Pids \cup Temps)]
    BY DEF Inv, TypeOK
  <2>3. \A q \in dead : q # p /\ ~Running(q)
    OBVIOUS
  <2>4. \A c \in Pids : left[c] = owed[c] \ {p}
    OBVIOUS
  <2>5. phase[p] = "none" /\ UNCHANGED <<chrome, profile, temp, mine, target>>
    BY DEF Start
  <2> HIDE DEF left, there, dead
  <2> QED
    BY <2>1, <2>2, <2>3, <2>4, <2>5
<1>1. TypeOK'
  BY <1>0, Names DEF Inv, TypeOK, Phases, Gone, Cleaning
<1>2. TargetOK'
  BY <1>0, Names DEF Hypotheses, Inv, Start, TypeOK, TargetOK, Gone
<1>3. MineOK' /\ LiveProfileKept'
  BY <1>0 DEF Inv, TypeOK, MineOK, LiveProfileKept
<1>4. OwedOK'
  BY <1>0, Names DEF Inv, TypeOK, OwedOK, Gone, Running
<1> QED
  BY <1>1, <1>2, <1>3, <1>4 DEF Inv

LEMMA EndInv == ASSUME Inv, NEW p \in Pids, End(p) PROVE Inv'
<1>1. TypeOK'
  BY Names DEF Inv, End, TypeOK, Phases, Gone
<1>2. TargetOK' /\ LiveProfileKept'
  BY Names DEF Inv, End, TypeOK, TargetOK, LiveProfileKept, Gone
<1>3. MineOK'
  BY DEF Inv, End, TypeOK, MineOK
<1>4. OwedOK'
  BY Names DEF Inv, End, TypeOK, OwedOK, Gone
<1> QED
  BY <1>1, <1>2, <1>3, <1>4 DEF Inv

LEMMA OutsideInv ==
  ASSUME Hypotheses, Inv,
         \/ \E p \in Pids : LastHandleClosed(p) \/ OrphanCloses(p)
         \/ \E t \in Temps : Age(t)
  PROVE  Inv'
<1>1. ASSUME NEW p \in Pids, LastHandleClosed(p) PROVE Inv'
  BY <1>1, Names DEF LastHandleClosed, Inv, TypeOK, TargetOK, MineOK, OwedOK,
    LiveProfileKept, Phases, Gone, Cleaning
<1>2. ASSUME NEW p \in Pids, OrphanCloses(p) PROVE Inv'
  BY <1>2 DEF OrphanCloses, Inv, TypeOK, TargetOK, MineOK, OwedOK, LiveProfileKept
<1>3. ASSUME NEW t \in Temps, Age(t) PROVE Inv'
  BY <1>3, Names DEF Hypotheses, Age, Inv, TypeOK, TargetOK, MineOK, OwedOK, LiveProfileKept
<1> QED
  BY <1>1, <1>2, <1>3

LEMMA CopyInv == ASSUME Inv, NEW p \in Pids, CopyCookieDB(p) \/ CopyDone(p) PROVE Inv'
<1>1. CASE CopyCookieDB(p)
  <2>1. TypeOK' /\ LiveProfileKept'
    BY <1>1, Names DEF CopyCookieDB, Inv, TypeOK, LiveProfileKept, Phases, Gone, Cleaning
  <2>2. TargetOK'
    BY <1>1, Names DEF CopyCookieDB, Inv, TypeOK, TargetOK, Gone
  <2>3. MineOK'
    BY <1>1, Names DEF CopyCookieDB, Inv, TypeOK, MineOK
  <2>4. OwedOK'
    BY <1>1, Names DEF CopyCookieDB, Inv, TypeOK, OwedOK, Gone
  <2> QED
    BY <2>1, <2>2, <2>3, <2>4 DEF Inv
<1>2. CASE CopyDone(p)
  <2>1. TypeOK' /\ LiveProfileKept'
    BY <1>2, Names DEF CopyDone, Inv, TypeOK, LiveProfileKept, Phases, Gone, Cleaning
  <2>2. TargetOK'
    BY <1>2, Names DEF CopyDone, Inv, TypeOK, TargetOK, MineOK, Gone
  <2>3. MineOK'
    BY <1>2, Names DEF CopyDone, Inv, TypeOK, MineOK
  <2>4. OwedOK'
    BY <1>2, Names DEF CopyDone, Inv, TypeOK, MineOK, OwedOK, Gone
  <2> QED
    BY <2>1, <2>2, <2>3, <2>4 DEF Inv
<1> QED
  BY <1>1, <1>2

\* The own sweep runs while no session of that id does, and only makes an
\* abandoned directory vanish.
LEMMA ChromeInv ==
  ASSUME Hypotheses, Inv, NEW p \in Pids, SweepChromeProfile(p) \/ Launch(p) \/ Teardown(p)
  PROVE  Inv'
<1>0. Running(p)
  BY DEF SweepChromeProfile, Launch, Teardown, Running, Gone
<1>1. TypeOK'
  BY <1>0, Names DEF SweepChromeProfile, Launch, Teardown, Hypotheses, SweptProfile,
    RemovedProfile, Inv, TypeOK, Phases, Gone, Cleaning
<1>2. TargetOK' /\ MineOK'
  BY <1>0, Names DEF SweepChromeProfile, Launch, Teardown, Inv, TypeOK, TargetOK, MineOK, Gone
<1>3. LiveProfileKept'
  BY DEF SweepChromeProfile, Launch, Teardown, Inv, TypeOK, LiveProfileKept
<1>4. OwedOK'
  BY <1>0 DEF SweepChromeProfile, Launch, Teardown, Inv, TypeOK, OwedOK, Running, Gone
<1> QED
  BY <1>1, <1>2, <1>3, <1>4 DEF Inv

LEMMA ProfilesInv ==
  ASSUME Hypotheses, Inv, NEW p \in Pids, NEW q \in Pids,
         CheckProfile(p, q) \/ RemoveProfile(p, q)
  PROVE  Inv'
<1>1. CASE CheckProfile(p, q)
  <2>0. target' = [target EXCEPT ![p] = IF Running(q) THEN Nobody ELSE q]
    BY <1>1 DEF CheckProfile, AliveAnswers, Hypotheses
  <2>1. TypeOK' /\ MineOK' /\ LiveProfileKept'
    BY <1>1, <2>0 DEF CheckProfile, Inv, TypeOK, MineOK, LiveProfileKept
  <2>2. TargetOK'
    BY <1>1, <2>0, Names DEF CheckProfile, Inv, TypeOK, TargetOK, Running
  <2>3. OwedOK'
    BY <1>1, <2>0, Names DEF CheckProfile, Inv, TypeOK, OwedOK, Running
  <2> QED
    BY <2>1, <2>2, <2>3 DEF Inv
<1>2. CASE RemoveProfile(p, q)
  <2>0. phase[q] \in Gone
    BY <1>2 DEF RemoveProfile, Inv, TargetOK
  <2>1. TypeOK'
    BY <1>2, Names DEF RemoveProfile, SweptProfile, RemovedProfile, Hypotheses, Inv, TypeOK
  <2>2. TargetOK' /\ MineOK'
    BY <1>2, Names DEF RemoveProfile, Inv, TypeOK, TargetOK, MineOK
  <2>3. LiveProfileKept'
    BY <1>2, <2>0 DEF RemoveProfile, Inv, TypeOK, LiveProfileKept, Gone
  <2>4. OwedOK'
    BY <1>2, <2>0, Names DEF RemoveProfile, SweptProfile, RemovedProfile, Inv, TypeOK, OwedOK
  <2> QED
    BY <2>1, <2>2, <2>3, <2>4 DEF Inv
<1> QED
  BY <1>1, <1>2

LEMMA TempsInv ==
  ASSUME Hypotheses, Inv, NEW p \in Pids, NEW t \in Temps,
         CheckTemp(p, t) \/ RemoveTemp(p, t)
  PROVE  Inv'
<1>1. CASE CheckTemp(p, t)
  <2>0. target' = [target EXCEPT ![p] = IF temp[t] # "old" THEN Nobody ELSE t]
    BY <1>1 DEF CheckTemp, PassedOver, TooYoung, Hypotheses
  <2>1. TypeOK' /\ MineOK' /\ LiveProfileKept'
    BY <1>1, <2>0 DEF CheckTemp, Inv, TypeOK, MineOK, LiveProfileKept
  <2>2. TargetOK'
    BY <1>1, <2>0, Names DEF CheckTemp, Inv, TypeOK, TargetOK
  <2>3. OwedOK'
    BY <1>1, <2>0, Names DEF CheckTemp, Inv, TypeOK, OwedOK
  <2> QED
    BY <2>1, <2>2, <2>3 DEF Inv
<1>2. CASE RemoveTemp(p, t)
  <2>0. temp[t] # "young"
    BY <1>2 DEF RemoveTemp, Inv, TargetOK
  <2>1. TypeOK' /\ LiveProfileKept'
    <3>1. PICK after \in {"absent", temp[t]} :
            /\ temp' = [temp EXCEPT ![t] = after]
            /\ failed' = IF after = "absent" THEN failed ELSE failed \cup {p}
      BY <1>2 DEF RemoveTemp
    <3>2. /\ UNCHANGED <<phase, chrome, profile, mine, todo, owed>>
          /\ target' = [target EXCEPT ![p] = Nobody]
      BY <1>2 DEF RemoveTemp
    <3> QED
      BY <3>1, <3>2 DEF Inv, TypeOK, LiveProfileKept
  <2>2. TargetOK'
    BY <1>2, <2>0, Names DEF RemoveTemp, Inv, TypeOK, TargetOK
  <2>3. MineOK'
    BY <1>2, <2>0, Names DEF RemoveTemp, Inv, TypeOK, MineOK
  <2>4. OwedOK'
    BY <1>2, <2>0, Names DEF RemoveTemp, Inv, TypeOK, OwedOK
  <2> QED
    BY <2>1, <2>2, <2>3, <2>4 DEF Inv
<1> QED
  BY <1>1, <1>2

LEMMA PhaseInv == ASSUME Hypotheses, Inv, NEW p \in Pids, GlobTemps(p) \/ CleanupDone(p) PROVE Inv'
<1>1. TypeOK' /\ MineOK' /\ LiveProfileKept'
  BY Names DEF GlobTemps, CleanupDone, Hypotheses, Inv, TypeOK, MineOK, LiveProfileKept,
    Phases, Gone, Cleaning
<1>2. TargetOK'
  BY Names DEF GlobTemps, CleanupDone, Inv, TypeOK, TargetOK, Gone
<1>3. OwedOK'
  BY Names DEF GlobTemps, CleanupDone, Hypotheses, Inv, TypeOK, OwedOK, Gone
<1> QED
  BY <1>1, <1>2, <1>3 DEF Inv

LEMMA NextInv == ASSUME Hypotheses, Inv, [Next]_vars PROVE Inv'
<1>1. CASE UNCHANGED vars
  BY <1>1 DEF vars, Inv, TypeOK, TargetOK, MineOK, OwedOK, LiveProfileKept, Gone
<1>2. CASE Next
  BY <1>2, StartInv, EndInv, OutsideInv, CopyInv, ChromeInv, ProfilesInv, TempsInv, PhaseInv
    DEF Next, Cleanup, Session
<1> QED
  BY <1>1, <1>2

LEMMA Invariance == ASSUME Hypotheses PROVE Spec => []Inv
<1>1. Init => Inv
  BY InitInv
<1>2. Inv /\ [Next]_vars => Inv'
  BY NextInv
<1> QED
  BY <1>1, <1>2, PTL DEF Spec

----
\* Whatever instances start, end, sweep and clean up together, none loses files
\* of the profile its Chrome has open (cdp.go 111-118, daemon.go 727-735).
THEOREM LiveProfileIsKept == ASSUME Hypotheses PROVE Spec => []LiveProfileKept
BY Invariance, InvImplies, PTL

\* A cleanup never takes the cookie copy another instance is reading for a
\* crash leftover (residueMinAge, daemon.go 708-716).
THEOREM CopyIsKept == ASSUME Hypotheses PROVE Spec => []CopyKept
BY Invariance, InvImplies, PTL

\* A cleanup that counted no error removed all that lay abandoned when it
\* looked (cleanupTemp, daemon.go 765-815).
THEOREM SweepIsComplete == ASSUME Hypotheses PROVE Spec => []SweepComplete
BY Invariance, InvImplies, PTL

----
(* The types need none of the hypotheses.                                   *)

LEMMA RemovedTypes ==
  ASSUME TypeOK, NEW q \in Pids
  PROVE  RemovedProfile(q) \subseteq {"absent", "plain", "torn", "link"}
         /\ SweptProfile(q) \subseteq {"absent", "plain", "torn", "link"}
BY DEF TypeOK, RemovedProfile, SweptProfile

LEMMA StartTypes ==
  ASSUME TypeOK, NEW p \in Pids, Start(p)
  PROVE  TypeOK'
<1>0. PICK to \in {"profiles", "idle", "other"} :
        /\ phase[p] = "none" /\ phase' = [phase EXCEPT ![p] = to]
        /\ UNCHANGED <<chrome, profile, temp, mine, target>>
        /\ failed' \in {failed \ {p}, failed \cup {p}}
        /\ todo' \in [Pids -> SUBSET (Pids \cup Temps)]
        /\ \A c \in Pids : c # p => todo'[c] = todo[c] /\ owed'[c] = owed[c] \ {p}
        /\ owed' \in [Pids -> SUBSET (Pids \cup Temps)]
        /\ owed'[p] \in SUBSET Pids
        /\ \A q \in owed'[p] : q # p /\ ~Running(q) /\ q \in todo'[p] /\ to = "profiles"
  <2> DEFINE left == [c \in Pids |-> owed[c] \ {p}]
             there == {q \in Pids : profile[q] # "absent"}
             dead  == {q \in there \ {p} : ~Running(q)}
  <2>1. PICK to \in {"profiles", "idle", "other"} :
          /\ phase' = [phase EXCEPT ![p] = to]
          /\ \/ /\ to = "profiles"
                /\ todo' = [todo EXCEPT ![p] = there]
                /\ owed' = [left EXCEPT ![p] = dead]
                /\ failed' = failed \ {p}
             \/ /\ todo' = [todo EXCEPT ![p] = {}]
                /\ owed' = [left EXCEPT ![p] = {}]
                /\ failed' \in {failed \ {p}, failed \cup {p}}
    BY DEF Start
  <2>2. /\ left \in [Pids -> SUBSET (Pids \cup Temps)] /\ there \in SUBSET Pids
        /\ dead \in SUBSET there /\ todo \in [Pids -> SUBSET (Pids \cup Temps)]
    BY DEF TypeOK
  <2>3. \A q \in dead : q # p /\ ~Running(q)
    OBVIOUS
  <2>4. \A c \in Pids : left[c] = owed[c] \ {p}
    OBVIOUS
  <2>5. phase[p] = "none" /\ UNCHANGED <<chrome, profile, temp, mine, target>>
    BY DEF Start
  <2> HIDE DEF left, there, dead
  <2> QED
    BY <2>1, <2>2, <2>3, <2>4, <2>5
<1> QED
  BY <1>0, Names DEF TypeOK, Phases, Gone, Cleaning

LEMMA StepTypes == TypeOK /\ [Next]_vars => TypeOK'
<1> SUFFICES ASSUME TypeOK, [Next]_vars PROVE TypeOK'
  OBVIOUS
<1>1. ASSUME NEW p \in Pids, Start(p) PROVE TypeOK'
  BY <1>1, StartTypes
<1>2. ASSUME NEW p \in Pids, End(p) PROVE TypeOK'
  BY <1>2, Names, RemovedTypes DEF End, TypeOK, Phases, Gone, Running
<1>3. ASSUME NEW p \in Pids, LastHandleClosed(p) PROVE TypeOK'
  BY <1>3, Names, RemovedTypes DEF LastHandleClosed, TypeOK, Phases, Gone, Running
<1>4. ASSUME NEW p \in Pids, OrphanCloses(p) PROVE TypeOK'
  BY <1>4, Names, RemovedTypes DEF OrphanCloses, TypeOK, Phases, Gone, Running
<1>5. ASSUME NEW p \in Pids, CopyCookieDB(p) PROVE TypeOK'
  BY <1>5, Names, RemovedTypes DEF CopyCookieDB, TypeOK, Phases, Gone, Running
<1>6. ASSUME NEW p \in Pids, CopyDone(p) PROVE TypeOK'
  BY <1>6, Names, RemovedTypes DEF CopyDone, TypeOK, Phases, Gone, Running
<1>7. ASSUME NEW p \in Pids, SweepChromeProfile(p) PROVE TypeOK'
  BY <1>7, Names, RemovedTypes DEF SweepChromeProfile, TypeOK, Phases, Gone, Running
<1>8. ASSUME NEW p \in Pids, Launch(p) PROVE TypeOK'
  BY <1>8, Names, RemovedTypes DEF Launch, TypeOK, Phases, Gone, Running
<1>9. ASSUME NEW p \in Pids, Teardown(p) PROVE TypeOK'
  BY <1>9, Names, RemovedTypes DEF Teardown, TypeOK, Phases, Gone, Running
<1>10. ASSUME NEW p \in Pids, GlobTemps(p) PROVE TypeOK'
  <2>1. PICK listed \in SUBSET Temps : todo' = [todo EXCEPT ![p] = listed]
    BY <1>10 DEF GlobTemps
  <2>2. owed' \in [Pids -> SUBSET (Pids \cup Temps)] /\ todo' \in [Pids -> SUBSET (Pids \cup Temps)]
    BY <1>10, <2>1 DEF GlobTemps, TypeOK
  <2>3. phase[p] = "profiles" /\ phase' = [phase EXCEPT ![p] = "temps"] /\ "temps" \in Phases
        /\ UNCHANGED <<chrome, profile, temp, mine, target, failed>>
    BY <1>10 DEF GlobTemps, Phases, Cleaning
  <2> QED
    BY <2>2, <2>3 DEF TypeOK
<1>11. ASSUME NEW p \in Pids, CleanupDone(p) PROVE TypeOK'
  BY <1>11, Names, RemovedTypes DEF CleanupDone, TypeOK, Phases, Gone, Running
<1>12. ASSUME NEW p \in Pids, NEW q \in Pids, CheckProfile(p, q) PROVE TypeOK'
  BY <1>12, Names, RemovedTypes DEF CheckProfile, TypeOK, Phases, Gone
<1>13. ASSUME NEW p \in Pids, NEW q \in Pids, RemoveProfile(p, q) PROVE TypeOK'
  BY <1>13, Names, RemovedTypes DEF RemoveProfile, TypeOK, Phases, Gone
<1>14. ASSUME NEW p \in Pids, NEW q \in Temps, CheckTemp(p, q) PROVE TypeOK'
  BY <1>14, Names, RemovedTypes DEF CheckTemp, TypeOK, Phases, Gone
<1>15. ASSUME NEW p \in Pids, NEW q \in Temps, RemoveTemp(p, q) PROVE TypeOK'
  BY <1>15, Names, RemovedTypes DEF RemoveTemp, TypeOK, Phases, Gone
<1>16. ASSUME NEW t \in Temps, Age(t) PROVE TypeOK'
  BY <1>16 DEF Age, TypeOK
<1>17. CASE UNCHANGED vars
  BY <1>17 DEF vars, TypeOK
<1> QED
  BY <1>1, <1>2, <1>3, <1>4, <1>5, <1>6, <1>7, <1>8, <1>9,
     <1>10, <1>11, <1>12, <1>13, <1>14, <1>15, <1>16, <1>17
  DEF Next, Cleanup, Session

\* The variables of Cleanup have their types, whatever queries fail and ids are
\* handed out again.
THEOREM CleanupTypes == Spec => []TypeOK
<1>1. Init => TypeOK
  BY InitInv DEF Inv
<1> QED
  BY <1>1, StepTypes, PTL DEF Spec

====
