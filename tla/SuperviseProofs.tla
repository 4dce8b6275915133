--------------------------- MODULE SuperviseProofs ---------------------------
(***************************************************************************)
(* Proofs about Supervise: for every grace period, every interval and      *)
(* every user, the loop is active exactly while one of the last Grace      *)
(* polls saw Claude Desktop or VS Code, and runs a cycle exactly when one  *)
(* is due.                                                                 *)
(***************************************************************************)
EXTENDS Supervise, TLAPS

\* What the miss count means: while active, the latest sighting is missCount
\* polls old; while idle, there is none in the window.
MissesOK ==
    /\ active => window[missCount + 1] /\ \A i \in 1 .. Grace : i <= missCount => ~window[i]
    /\ ~active => missCount = 0 /\ \A i \in 1 .. Grace : ~window[i]

IInv == TypeOK /\ MissesOK

LEMMA InitInv == Init => IInv
<1> SUFFICES ASSUME Init PROVE IInv
    OBVIOUS
<1>1. TypeOK
    <2>1. /\ opened \in 0 .. MaxOpen /\ missCount \in 0 .. Grace - 1
          /\ since \in 0 .. Interval /\ faults \in 0 .. MaxFaults
        BY GraceAssumption, IntervalAssumption, BoundAssumption DEF Init
    <2>2. window \in [1 .. Grace -> BOOLEAN] /\ pc \in PCs
        BY DEF Init, PCs
    <2>3. /\ desktop \in BOOLEAN /\ vscode \in BOOLEAN /\ dirty \in BOOLEAN
          /\ desktopUp \in BOOLEAN /\ vscodeUp \in BOOLEAN /\ active \in BOOLEAN
        BY Zenon DEF Init
    <2> QED
        BY <2>1, <2>2, <2>3 DEF TypeOK
<1>2. MissesOK
    BY DEF Init, MissesOK
<1> QED
    BY <1>1, <1>2 DEF IInv

\* The decision of a poll moves the window on and keeps the meaning of the count.
LEMMA DecideInv == IInv /\ Decide => IInv'
<1> SUFFICES ASSUME IInv, Decide PROVE IInv'
    OBVIOUS
<1> DEFINE seen == desktopUp \/ vscodeUp
<1>1. /\ active \in BOOLEAN /\ seen \in BOOLEAN /\ missCount \in 0 .. Grace - 1
      /\ window \in [1 .. Grace -> BOOLEAN] /\ Grace \in Nat \ {0}
    BY GraceAssumption DEF IInv, TypeOK
<1>2. /\ active' = NextActive(seen, active, missCount)
      /\ missCount' = NextMisses(seen, active, missCount)
      /\ window' = [i \in 1 .. Grace |-> IF i = 1 THEN seen ELSE window[i - 1]]
    BY DEF Decide
<1>3. UNCHANGED <<desktop, vscode, dirty, opened, desktopUp, vscodeUp, since, faults>>
      /\ pc' \in PCs
    BY DEF Decide, userVars, PCs
<1> HIDE DEF seen
<1>4. window' \in [1 .. Grace -> BOOLEAN]
    <2>1. ASSUME NEW i \in 1 .. Grace PROVE (IF i = 1 THEN seen ELSE window[i - 1]) \in BOOLEAN
        <3>1. CASE i = 1
            BY <1>1, <3>1
        <3>2. CASE i # 1
            <4>1. i - 1 \in 1 .. Grace
                BY <1>1, <3>2
            <4> QED
                BY <1>1, <3>2, <4>1
        <3> QED
            BY <3>1, <3>2
    <2> QED
        BY <1>2, <2>1
<1>5. window'[1] = seen /\ \A i \in 1 .. Grace : i # 1 => window'[i] = window[i - 1]
    BY <1>1, <1>2
<1>6. CASE seen
    <2>1. active' /\ active' \in BOOLEAN /\ missCount' = 0
        BY <1>1, <1>2, <1>6 DEF NextActive, NextMisses
    <2>2. window'[1] /\ missCount' + 1 = 1
        BY <1>5, <1>6, <2>1
    <2>3. \A i \in 1 .. Grace : ~(i <= missCount')
        BY <1>1, <2>1
    <2>4. MissesOK'
        BY <2>1, <2>2, <2>3 DEF MissesOK
    <2> QED
        BY <1>1, <1>3, <1>4, <2>1, <2>4 DEF IInv, TypeOK
<1>7. CASE ~seen /\ active /\ missCount + 1 < Grace
    <2>1. active' /\ active' \in BOOLEAN /\ missCount' = missCount + 1
        BY <1>1, <1>2, <1>7 DEF NextActive, NextMisses
    <2>2. window'[missCount' + 1]
        <3>1. missCount + 2 \in 1 .. Grace /\ missCount + 2 # 1 /\ (missCount + 2) - 1 = missCount + 1
            BY <1>1, <1>7
        <3>2. window[missCount + 1]
            BY <1>7 DEF IInv, MissesOK
        <3> QED
            BY <1>1, <1>5, <2>1, <3>1, <3>2
    <2>3. ASSUME NEW i \in 1 .. Grace, i <= missCount' PROVE ~window'[i]
        <3>1. CASE i = 1
            BY <1>5, <1>7, <3>1
        <3>2. CASE i # 1
            <4>1. i - 1 \in 1 .. Grace /\ i - 1 <= missCount
                BY <1>1, <2>1, <2>3, <3>2
            <4> QED
                BY <1>5, <1>7, <3>2, <4>1 DEF IInv, MissesOK
        <3> QED
            BY <3>1, <3>2
    <2>4. MissesOK'
        BY <2>1, <2>2, <2>3 DEF MissesOK
    <2> QED
        BY <1>1, <1>3, <1>4, <1>7, <2>1, <2>4 DEF IInv, TypeOK
<1>8. CASE ~seen /\ ~(active /\ missCount + 1 < Grace)
    <2>1. ~active' /\ active' \in BOOLEAN /\ missCount' = 0
        BY <1>1, <1>2, <1>8 DEF NextActive, NextMisses
    <2>2. ASSUME NEW i \in 1 .. Grace PROVE ~window'[i]
        <3>1. CASE i = 1
            BY <1>5, <1>8, <3>1
        <3>2. CASE i # 1
            <4>1. i - 1 \in 1 .. Grace /\ i - 1 <= Grace - 1
                BY <1>1, <3>2
            <4>2. active => missCount = Grace - 1
                BY <1>1, <1>8
            <4>3. ~window[i - 1]
                BY <4>1, <4>2 DEF IInv, MissesOK
            <4> QED
                BY <1>5, <3>2, <4>3
        <3> QED
            BY <3>1, <3>2
    <2>3. MissesOK'
        BY <2>1, <2>2 DEF MissesOK
    <2> QED
        BY <1>1, <1>3, <1>4, <2>1, <2>3 DEF IInv, TypeOK
<1> QED
    BY <1>6, <1>7, <1>8

\* A query and its failure keep the fault count in its bounds.
LEMMA QueryTypes ==
    ASSUME TypeOK, NEW running, NEW answer, Query(running, answer)
    PROVE  faults' \in 0 .. MaxFaults
BY BoundAssumption DEF TypeOK, Query

\* No other step touches the decision.
LEMMA OtherSteps ==
    ASSUME IInv, UNCHANGED <<active, missCount, window>>,
           PollDesktop \/ PollVSCode \/ StartCycle \/ Sync \/ Sleep \/ SleepLong \/ User
                \/ UNCHANGED vars
    PROVE  IInv'
<1>1. MissesOK'
    BY DEF IInv, MissesOK
<1>2. TypeOK
    BY DEF IInv
<1>3. ASSUME PollDesktop PROVE TypeOK'
    BY <1>2, <1>3, QueryTypes DEF PollDesktop, PCs, userVars, TypeOK
<1>4. ASSUME PollVSCode PROVE TypeOK'
    BY <1>2, <1>4, QueryTypes DEF PollVSCode, PCs, userVars, TypeOK
<1>5. ASSUME StartCycle PROVE TypeOK'
    <2>1. faults' \in 0 .. MaxFaults /\ pc' \in PCs /\ since' \in 0 .. Interval
        BY <1>2, <1>5, IntervalAssumption, QueryTypes DEF StartCycle, PCs, TypeOK
    <2> QED
        BY <1>2, <1>5, <2>1 DEF StartCycle, userVars, TypeOK
<1>6. ASSUME Sync PROVE TypeOK'
    <2>1. pc' \in PCs /\ since' \in 0 .. Interval /\ faults' \in 0 .. MaxFaults
        BY <1>2, <1>6, IntervalAssumption, BoundAssumption DEF Sync, PCs, TypeOK
    <2>2. dirty' \in BOOLEAN
        BY <1>2, <1>6, Zenon DEF Sync, TypeOK
    <2> QED
        BY <1>2, <1>6, <2>1, <2>2 DEF Sync, TypeOK
<1>7. ASSUME Sleep \/ SleepLong PROVE TypeOK'
    BY <1>2, <1>7, IntervalAssumption DEF Sleep, SleepLong, PCs, userVars, TypeOK
<1>8. ASSUME User PROVE TypeOK'
    <2>1. opened' \in 0 .. MaxOpen
        BY <1>2, <1>8, BoundAssumption
           DEF User, OpenDesktop, CloseDesktop, OpenVSCode, CloseVSCode, TypeOK
    <2>2. desktop' \in BOOLEAN /\ vscode' \in BOOLEAN /\ dirty' \in BOOLEAN
        BY <1>2, <1>8, Zenon
           DEF User, OpenDesktop, CloseDesktop, OpenVSCode, CloseVSCode, TypeOK
    <2>3. UNCHANGED loopVars
        BY <1>8 DEF User, OpenDesktop, CloseDesktop, OpenVSCode, CloseVSCode
    <2> QED
        BY <1>2, <2>1, <2>2, <2>3 DEF loopVars, TypeOK
<1>9. ASSUME UNCHANGED vars PROVE TypeOK'
    BY <1>2, <1>9 DEF vars, TypeOK
<1>10. TypeOK'
    BY <1>3, <1>4, <1>5, <1>6, <1>7, <1>8, <1>9
<1> QED
    BY <1>1, <1>10 DEF IInv

LEMMA NextInv == IInv /\ [Next]_vars => IInv'
<1> SUFFICES ASSUME IInv, [Next]_vars PROVE IInv'
    OBVIOUS
<1>1. CASE Decide
    BY <1>1, DecideInv
<1>2. CASE PollDesktop \/ PollVSCode \/ StartCycle \/ Sync \/ Sleep \/ SleepLong \/ User
              \/ UNCHANGED vars
    <2>1. UNCHANGED <<active, missCount, window>>
        BY <1>2
           DEF PollDesktop, PollVSCode, StartCycle, Sync, Sleep, SleepLong, User, OpenDesktop,
               CloseDesktop, OpenVSCode, CloseVSCode, loopVars, vars
    <2> QED
        BY <1>2, <2>1, OtherSteps
<1> QED
    BY <1>1, <1>2 DEF Next, Loop

\* The variables of Supervise have their types; in particular the miss count stays
\* below Grace.
THEOREM SuperviseTypes == Spec => []TypeOK
BY InitInv, NextInv, PTL DEF Spec, IInv

\* An active loop remembers its latest sighting.
LEMMA ActiveMeansSeen == IInv => ActiveIffSeen
<1> SUFFICES ASSUME IInv PROVE ActiveIffSeen
    OBVIOUS
<1>1. missCount + 1 \in 1 .. Grace
    BY GraceAssumption DEF IInv, TypeOK
<1> QED
    BY <1>1 DEF IInv, MissesOK, ActiveIffSeen

\* For every grace period and interval, whatever the user does and whichever
\* queries fail: the loop is active exactly while one of the last Grace polls saw
\* Claude Desktop or VS Code.
THEOREM ActiveExactlyWhileSeen == Spec => []ActiveIffSeen
BY ActiveMeansSeen, InitInv, NextInv, PTL DEF Spec

-----------------------------------------------------------------------------
(* When cycles are run *)

\* The same as CyclesWhenDue, said of the loop's own flag.
DueOK ==
    /\ pc \in {"cycle", "sync"} => active /\ since = Interval
    /\ pc = "sleep" /\ since = Interval => ~active

LEMMA DueStep == IInv /\ DueOK /\ [Next]_vars => DueOK'
<1> SUFFICES ASSUME IInv, DueOK, [Next]_vars PROVE DueOK'
    OBVIOUS
<1>1. CASE PollDesktop \/ PollVSCode \/ Sleep \/ SleepLong
    BY <1>1 DEF PollDesktop, PollVSCode, Sleep, SleepLong, DueOK
<1>2. CASE Decide
    BY <1>2 DEF Decide, Due, DueOK
<1>3. CASE StartCycle
    <2>1. /\ pc = "cycle" /\ active' = active
          /\ \/ pc' = "sleep" /\ since' = 0
             \/ pc' = "sync" /\ since' = since
        BY <1>3 DEF StartCycle
    <2> QED
        BY <2>1, IntervalAssumption DEF DueOK
<1>4. CASE Sync
    BY <1>4, IntervalAssumption DEF Sync, DueOK
<1>5. CASE User \/ UNCHANGED vars
    BY <1>5
       DEF User, OpenDesktop, CloseDesktop, OpenVSCode, CloseVSCode, loopVars, vars, DueOK
<1> QED
    BY <1>1, <1>2, <1>3, <1>4, <1>5 DEF Next, Loop

\* For every grace period and interval, whatever the user does and whatever fails: no
\* cycle without a sighting or ahead of time, and none put off.
THEOREM CyclesAreRunWhenDue == Spec => []CyclesWhenDue
<1>1. Init => DueOK
    BY DEF Init, DueOK
<1>2. Spec => [](IInv /\ DueOK)
    BY <1>1, InitInv, NextInv, DueStep, PTL DEF Spec
<1>3. IInv /\ DueOK => CyclesWhenDue
    BY ActiveMeansSeen DEF ActiveIffSeen, DueOK, CyclesWhenDue
<1> QED
    BY <1>2, <1>3, PTL

=============================================================================
