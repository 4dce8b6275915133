-------------------------- MODULE SyncEngineProofs --------------------------
(***************************************************************************)
(* Proofs about SyncEngine: type correctness and DecisionsSound for any    *)
(* set of instances, overlapping or not; QuietComplete, CleanExitComplete, *)
(* EveryCycleCounts and the refinement of Mirror for instances that take   *)
(* turns.                                                                  *)
(***************************************************************************)
EXTENDS SyncEngine, TLAPS

-----------------------------------------------------------------------------
(* Type correctness *)

USE DEF Procs, Versions

\* The constant records have their types.
LEMMA ConstantTypes ==
    EmptyState \in State /\ NoFile \in File /\ NoJob \in Job
BY BoundAssumption DEF EmptyState, State, NoFile, File, NoJob, Job

LEMMA InitTypes == Init => TypeOK
<1> SUFFICES ASSUME Init PROVE TypeOK
    OBVIOUS
<1>1. server \in [Convs -> Versions]
    BY DEF Init
<1>2. file \in [Convs -> File] /\ disk \in State
    BY ConstantTypes, BoundAssumption DEF Init
<1>3. pc \in [Procs -> PCs] /\ job \in [Procs -> Job]
    BY ConstantTypes DEF Init, PCs
<1>4. result \in [Harvesters -> {"none", "ok", "failed"}]
    BY DEF Init
<1>5. cookie \in Nat /\ faults \in 0 .. MaxFaults /\ day \in Nat
    BY BoundAssumption DEF Init
<1> QED
    BY <1>1, <1>2, <1>3, <1>4, <1>5 DEF Init, TypeOK

\* An instance that fetches or writes has a conversation in hand.
Fetching == {"fetch", "write", "fill", "hash"}
CurOK == \A p \in Procs : pc[p] \in Fetching => job[p].cur \in Convs

TypeInv == TypeOK /\ CurOK

\* The helpers of the actions keep the variables they assign in their types.
LEMMA HelperTypes ==
    ASSUME TypeOK, NEW p \in Procs
    PROVE  /\ NoFault => faults' \in 0 .. MaxFaults
           /\ \A k : Fault(k) => faults' \in 0 .. MaxFaults
           /\ \A l \in PCs : Goto(p, l) => pc' \in [Procs -> PCs]
           /\ EndJob(p) => job' \in [Procs -> Job]
           /\ LoadState(p) => job' \in [Procs -> Job] /\ faults' \in 0 .. MaxFaults
           /\ \A s \in State : SaveState(s) => disk' \in State /\ faults' \in 0 .. MaxFaults
<1>1. NoFault => faults' \in 0 .. MaxFaults
    BY DEF TypeOK, NoFault
<1>2. \A k : Fault(k) => faults' \in 0 .. MaxFaults
    BY BoundAssumption DEF TypeOK, Fault
<1>3. \A l \in PCs : Goto(p, l) => pc' \in [Procs -> PCs]
    BY DEF TypeOK, Goto
<1>4. EndJob(p) => job' \in [Procs -> Job]
    BY ConstantTypes DEF TypeOK, EndJob
<1>5. [NoJob EXCEPT !.mem = disk] \in Job
    BY ConstantTypes DEF TypeOK, Job
<1>6. LoadState(p) => job' \in [Procs -> Job] /\ faults' \in 0 .. MaxFaults
    BY <1>1, <1>2, <1>5, ConstantTypes DEF TypeOK, LoadState
<1>7. \A s \in State : SaveState(s) => disk' \in State /\ faults' \in 0 .. MaxFaults
    BY <1>1, <1>2 DEF TypeOK, SaveState
<1> QED
    BY <1>1, <1>2, <1>3, <1>4, <1>6, <1>7

\* A counted failure and a hard error keep the types.
LEMMA FailureTypes ==
    ASSUME TypeOK, NEW p \in Procs
    PROVE  /\ ItemFails(p) /\ job[p].cur \in Convs =>
                  job' \in [Procs -> Job] /\ pc' = [pc EXCEPT ![p] = "scan"]
           /\ HardError(p) =>
                  /\ job' \in [Procs -> Job] /\ pc' \in [Procs -> PCs]
                  /\ result' \in [Harvesters -> {"none", "ok", "failed"}]
                  /\ pc' = [pc EXCEPT ![p] = pc'[p]] /\ pc'[p] \in {"idle", "surfaces"}
<1>1. ASSUME ItemFails(p), job[p].cur \in Convs
      PROVE  job' \in [Procs -> Job] /\ pc' = [pc EXCEPT ![p] = "scan"]
    <2>1. [job[p] EXCEPT !.errs = @ \cup {job[p].cur}, !.todo = @ \ {job[p].cur},
                         !.cur = None, !.body = 0] \in Job
        <3>1. job[p] \in Job /\ 0 \in Versions
            BY BoundAssumption DEF TypeOK
        <3>2. job[p].errs \cup {job[p].cur} \in SUBSET Convs
            BY <1>1, <3>1 DEF Job
        <3>3. job[p].todo \ {job[p].cur} \in SUBSET Convs
            BY <3>1 DEF Job
        <3> QED
            BY <3>1, <3>2, <3>3 DEF Job
    <2> QED
        BY <1>1, <2>1 DEF ItemFails, Goto, TypeOK
<1>2. ASSUME HardError(p)
      PROVE  /\ job' \in [Procs -> Job] /\ pc' \in [Procs -> PCs]
             /\ result' \in [Harvesters -> {"none", "ok", "failed"}]
             /\ pc' = [pc EXCEPT ![p] = pc'[p]] /\ pc'[p] \in {"idle", "surfaces"}
    BY <1>2, HelperTypes DEF HardError, Goto, PCs, TypeOK
<1> QED
    BY <1>1, <1>2

\* Only the acting instance's label and locals matter for CurOK.
LEMMA CurStep ==
    ASSUME TypeInv, NEW p \in Procs,
           pc' = [pc EXCEPT ![p] = pc'[p]],
           \A q \in Procs : q # p => job'[q] = job[q],
           pc'[p] \in Fetching => job'[p].cur \in Convs
    PROVE  CurOK'
BY DEF TypeInv, TypeOK, CurOK

\* The state saved at the end of a cycle is a state.
LEMMA WatermarkedTypes ==
    ASSUME NEW j \in Job
    PROVE  Watermarked(j) \in State
<1>1. j.mem \in State /\ j.mod \in Nat
    BY DEF Job
<1>2. ~(Advances(j) \/ j.prog) => j.mem.retries + 1 \in 0 .. MaxRetryCycles - 1
    BY <1>1, BoundAssumption DEF Advances, CapReached, State
<1>3. 0 \in 0 .. MaxRetryCycles - 1
    BY BoundAssumption
<1> QED
    BY <1>1, <1>2, <1>3 DEF Watermarked, State

\* The steps both kinds of instance take keep the types.
LEMMA HarvestStepTypes ==
    ASSUME TypeInv, NEW p \in Procs, HarvestStep(p)
    PROVE  TypeInv'
<1> USE DEF TypeInv
<1>0. job[p] \in Job /\ 0 \in Versions /\ pc \in [Procs -> PCs]
    BY BoundAssumption DEF TypeOK
<1>1. CASE OpenSession(p)
    <2>1. pc' \in [Procs -> PCs] /\ faults' \in 0 .. MaxFaults /\ pc' = [pc EXCEPT ![p] = pc'[p]]
          /\ job' \in [Procs -> Job] /\ result' \in [Harvesters -> {"none", "ok", "failed"}]
          /\ pc'[p] \notin Fetching
        BY <1>1, <1>0, HelperTypes, FailureTypes DEF OpenSession, Goto, PCs, TypeOK, Fetching
    <2>2. \A q \in Procs : q # p => job'[q] = job[q]
        BY <1>1 DEF OpenSession, HardError, EndJob, TypeOK
    <2> QED
        BY <1>1, <2>1, <2>2, CurStep DEF OpenSession, envVars, TypeOK
<1>2. CASE List(p)
    <2>1. pc' \in [Procs -> PCs] /\ faults' \in 0 .. MaxFaults /\ pc' = [pc EXCEPT ![p] = pc'[p]]
          /\ result' \in [Harvesters -> {"none", "ok", "failed"}] /\ pc'[p] \notin Fetching
        BY <1>2, <1>0, HelperTypes, FailureTypes DEF List, Goto, PCs, TypeOK, Fetching
    <2>2. \A q \in Procs : q # p => job'[q] = job[q]
        BY <1>2 DEF List, HardError, EndJob, TypeOK
    <2>3. job' \in [Procs -> Job]
        <3>0. SUFFICES ASSUME ~HardError(p) PROVE job' \in [Procs -> Job]
            BY FailureTypes
        <3> PICK missed \in SUBSET Convs :
               LET seen == [c \in Convs |-> IF c \in gone \cup missed THEN 0 ELSE server[c]]
               IN  job' = [job EXCEPT ![p].listed = seen,
                                      ![p].todo = {c \in Convs : seen[c] # 0}]
            BY <1>2, <3>0 DEF List
        <3> DEFINE seen == [c \in Convs |-> IF c \in gone \cup missed THEN 0 ELSE server[c]]
        <3>1. seen \in [Convs -> Versions] /\ {c \in Convs : seen[c] # 0} \in SUBSET Convs
            BY <1>0 DEF TypeOK
        <3>3. job' = [job EXCEPT ![p].listed = seen, ![p].todo = {c \in Convs : seen[c] # 0}]
            OBVIOUS
        <3> HIDE DEF seen
        <3>2. [job[p] EXCEPT !.listed = seen, !.todo = {c \in Convs : seen[c] # 0}] \in Job
            BY <1>0, <3>1 DEF Job
        <3> QED
            BY <3>2, <3>3 DEF TypeOK
    <2> QED
        BY <1>2, <2>1, <2>2, <2>3, CurStep DEF List, envVars, TypeOK
<1>3. CASE Skip(p)
    <2>1. PICK c \in job[p].todo : job' = [job EXCEPT ![p].todo = @ \ {c}]
        BY <1>3 DEF Skip
    <2>2. [job[p] EXCEPT !.todo = @ \ {c}] \in Job
        BY <1>0 DEF Job
    <2>3. job' \in [Procs -> Job]
        BY <2>1, <2>2 DEF TypeOK
    <2>4. CurOK'
        BY <1>3, <1>0, <2>1 DEF Skip, CurOK, Fetching, TypeOK
    <2> QED
        BY <1>3, <2>3, <2>4 DEF Skip, envVars, TypeOK
<1>4. CASE PickFetch(p)
    <2>1. PICK c \in job[p].todo : job' = [job EXCEPT ![p].cur = c]
        BY <1>4 DEF PickFetch
    <2>2. [job[p] EXCEPT !.cur = c] \in Job /\ c \in Convs
        BY <1>0 DEF Job
    <2>3. job' \in [Procs -> Job] /\ job'[p].cur = c
        BY <2>1, <2>2 DEF TypeOK
    <2>4. pc' \in [Procs -> PCs] /\ pc' = [pc EXCEPT ![p] = pc'[p]]
        BY <1>4, <1>0 DEF PickFetch, Goto, PCs
    <2>5. CurOK'
        BY <2>1, <2>2, <2>3, <2>4, CurStep DEF TypeOK
    <2> QED
        BY <1>4, <2>3, <2>4, <2>5 DEF PickFetch, envVars, TypeOK
<1>5. CASE Fetch(p)
    <2>1. job[p].cur \in Convs
        BY <1>5 DEF Fetch, CurOK, Fetching
    <2>2. [job[p] EXCEPT !.body = server[job[p].cur]] \in Job
        BY <1>0, <2>1 DEF Job, TypeOK
    <2>3. job' = [job EXCEPT ![p].body = server[job[p].cur]]
        BY <1>5 DEF Fetch
    <2>4. job' \in [Procs -> Job] /\ job'[p].cur \in Convs
        BY <2>1, <2>2, <2>3 DEF TypeOK
    <2>5. pc' \in [Procs -> PCs] /\ pc' = [pc EXCEPT ![p] = pc'[p]]
        BY <1>5, <1>0 DEF Fetch, Goto, PCs
    <2>6. CurOK'
        BY <2>3, <2>4, <2>5, CurStep DEF TypeOK
    <2> QED
        BY <1>5, <2>4, <2>5, <2>6 DEF Fetch, envVars, TypeOK
<1>6. ASSUME ItemFails(p), pc[p] \in Fetching
      PROVE  job' \in [Procs -> Job] /\ pc' \in [Procs -> PCs] /\ CurOK'
    <2>1. job' \in [Procs -> Job] /\ pc' = [pc EXCEPT ![p] = "scan"]
        BY <1>6, FailureTypes DEF CurOK
    <2>2. \A q \in Procs : q # p => job'[q] = job[q]
        BY <1>6 DEF ItemFails, TypeOK
    <2> QED
        BY <1>0, <2>1, <2>2, CurStep DEF PCs, Fetching
<1>7. CASE FetchFails(p)
    <2>1. faults' \in 0 .. MaxFaults
        BY <1>7, HelperTypes DEF FetchFails
    <2> QED
        BY <1>7, <1>6, <2>1 DEF FetchFails, Fetching, envVars, TypeOK
<1>8. CASE FetchTimesOut(p)
    <2>1. faults' \in 0 .. MaxFaults
        BY <1>8, HelperTypes DEF FetchTimesOut
    <2>2. \A q \in Procs : q # p => job'[q] = job[q]
        BY <1>8 DEF FetchTimesOut, HardError, EndJob, TypeOK
    <2>3. CurOK'
        BY <1>8, <2>2, FailureTypes, CurStep DEF FetchTimesOut, Fetching
    <2> QED
        BY <1>8, <2>1, <2>3, FailureTypes DEF FetchTimesOut, envVars, TypeOK
<1>9. CASE Truncate(p)
    <2>1. faults' \in 0 .. MaxFaults /\ file' \in [Convs -> File]
        BY <1>9, HelperTypes, ConstantTypes DEF Truncate, TypeOK
    <2>2. CASE Goto(p, "fill") /\ UNCHANGED job
        BY <1>9, <1>0, <2>1, <2>2 DEF Truncate, Goto, PCs, CurOK, Fetching, envVars, TypeOK
    <2> QED
        BY <1>9, <1>6, <2>1, <2>2 DEF Truncate, Fetching, envVars, TypeOK
<1>10. CASE Fill(p)
    <2>1. Whole(job[p].body) \in File /\ Torn(job[p].body) \in File
        BY <1>0 DEF Whole, Torn, File, Job
    <2>2. faults' \in 0 .. MaxFaults /\ file' \in [Convs -> File]
        BY <1>10, <2>1, HelperTypes, ConstantTypes DEF Fill, TypeOK
    <2>3. CASE Goto(p, "hash") /\ UNCHANGED job
        BY <1>10, <1>0, <2>2, <2>3 DEF Fill, Goto, PCs, CurOK, Fetching, envVars, TypeOK
    <2> QED
        BY <1>10, <1>6, <2>2, <2>3 DEF Fill, Fetching, envVars, TypeOK
<1>11. CASE Record(p)
    <2> DEFINE j == job[p]
               done == [j EXCEPT !.todo = @ \ {j.cur}, !.cur = None, !.body = 0]
               noted == [done EXCEPT !.prog = @ \/ MovesState(j),
                                     !.mem.known[j.cur] = j.listed[j.cur]]
    <2>3. j \in Job /\ j.cur \in Convs
        BY <1>11, <1>0 DEF Record, CurOK, Fetching
    <2> HIDE DEF j
    <2>4. done \in Job
        BY <2>3, <1>0 DEF Job
    <2>5. noted \in Job
        <3>1. [done.mem EXCEPT !.known[j.cur] = j.listed[j.cur]] \in State
            BY <2>3, <2>4 DEF Job, State
        <3>2. (done.prog \/ MovesState(j)) \in BOOLEAN
            BY <2>4 DEF Job, MovesState
        <3> HIDE DEF done
        <3> QED
            BY <2>4, <3>1, <3>2 DEF Job
    <2>6. job' = [job EXCEPT ![p] = IF p \in Daemons THEN noted ELSE done]
        BY <1>11 DEF Record, j
    <2> HIDE DEF done, noted
    <2>7. job' \in [Procs -> Job] /\ \A q \in Procs : q # p => job'[q] = job[q]
        BY <2>4, <2>5, <2>6 DEF TypeOK
    <2>8. pc' \in [Procs -> PCs] /\ pc' = [pc EXCEPT ![p] = pc'[p]] /\ pc'[p] \notin Fetching
        BY <1>11, <1>0 DEF Record, Goto, PCs, Fetching
    <2>9. CurOK'
        BY <2>7, <2>8, CurStep
    <2> QED
        BY <1>11, <2>7, <2>8, <2>9 DEF Record, envVars, TypeOK
<1> QED
    BY <1>1, <1>2, <1>3, <1>4, <1>5, <1>7, <1>8, <1>9, <1>10, <1>11 DEF HarvestStep

\* An instance that leaves no conversation in hand and replaces only its locals.
LEMMA QuietStepTypes ==
    ASSUME TypeInv, NEW p \in Procs, NEW l \in PCs \ Fetching,
           Goto(p, l), job' \in [Procs -> Job],
           \A q \in Procs : q # p => job'[q] = job[q]
    PROVE  pc' \in [Procs -> PCs] /\ CurOK'
<1>1. pc' \in [Procs -> PCs] /\ pc' = [pc EXCEPT ![p] = pc'[p]] /\ pc'[p] \notin Fetching
    BY DEF Goto, TypeInv, TypeOK
<1> QED
    BY <1>1, CurStep

\* The daemon's own steps keep the types.
LEMMA DaemonStepTypes ==
    ASSUME TypeInv, NEW d \in Daemons, DaemonStep(d)
    PROVE  TypeInv'
<1> USE DEF TypeInv
<1>0. job[d] \in Job /\ pc \in [Procs -> PCs] /\ d \in Procs
    BY DEF TypeOK
<1>1. LoadState(d) \/ EndJob(d) => \A q \in Procs : q # d => job'[q] = job[q]
    BY DEF LoadState, EndJob, TypeOK
<1>2. CASE StartCycle(d)
    BY <1>2, <1>0, <1>1, HelperTypes, QuietStepTypes
       DEF StartCycle, PCs, Fetching, envVars, TypeOK
<1>3. CASE Trigger(d)
    <2>1. [job[d] EXCEPT !.mod = cookie] \in Job
        BY <1>0 DEF Job, TypeOK
    <2>2. job' \in [Procs -> Job] /\ \A q \in Procs : q # d => job'[q] = job[q]
        BY <1>3, <2>1 DEF Trigger, TypeOK
    <2>3. Goto(d, "open") \/ Goto(d, "surfaces")
        BY <1>3 DEF Trigger
    <2> QED
        BY <1>3, <1>0, <2>2, <2>3, QuietStepTypes DEF Trigger, PCs, Fetching, envVars, TypeOK
<1>4. CASE HarvestStep(d)
    BY <1>4, <1>0, HarvestStepTypes
<1>5. CASE Seed(d)
    <2>1. PICK c \in job[d].todo :
             job' = [job EXCEPT ![d].todo = @ \ {c}, ![d].mem.known[c] = job[d].listed[c]]
        BY <1>5 DEF Seed
    <2>2. [job[d].mem EXCEPT !.known[c] = job[d].listed[c]] \in State
        BY <1>0 DEF Job, State
    <2>3. [job[d] EXCEPT !.todo = @ \ {c}, !.mem.known[c] = job[d].listed[c]] \in Job
        BY <1>0, <2>2 DEF Job
    <2>4. job' \in [Procs -> Job] /\ \A q \in Procs : job'[q].cur = job[q].cur
        BY <2>1, <2>3, <1>0 DEF TypeOK
    <2>5. CurOK'
        BY <1>5, <2>4 DEF Seed, CurOK
    <2> QED
        BY <1>5, <2>4, <2>5 DEF Seed, envVars, TypeOK
<1>6. CASE Save(d)
    <2>1. disk' \in State /\ faults' \in 0 .. MaxFaults
        BY <1>6, <1>0, WatermarkedTypes, HelperTypes DEF Save
    <2>2. dropped' \in SUBSET Convs
        BY <1>6, <1>0 DEF Save, Job, TypeOK
    <2>3. job' \in [Procs -> Job] /\ pc' \in [Procs -> PCs] /\ CurOK'
        BY <1>6, <1>0, <1>1, HelperTypes, QuietStepTypes DEF Save, PCs, Fetching
    <2> QED
        BY <1>6, <2>1, <2>2, <2>3 DEF Save, envVars, TypeOK
<1>7. CASE CheckSurfaces(d)
    <2>1. Goto(d, "refresh") \/ Goto(d, "idle")
        BY <1>7 DEF CheckSurfaces
    <2> QED
        BY <1>7, <1>0, <1>1, <2>1, HelperTypes, QuietStepTypes
           DEF CheckSurfaces, PCs, Fetching, envVars, TypeOK
<1>8. CASE Refresh(d)
    <2>1. disk' \in State /\ faults' \in 0 .. MaxFaults
        <3>1. CASE SaveState([job[d].mem EXCEPT !.lastSurf = day])
            <4>1. [job[d].mem EXCEPT !.lastSurf = day] \in State
                BY <1>0 DEF Job, State, TypeOK
            <4> QED
                BY <3>1, <4>1, <1>0, HelperTypes
        <3> QED
            BY <1>8, <1>0, <3>1, HelperTypes DEF Refresh, TypeOK
    <2>2. job' \in [Procs -> Job] /\ pc' \in [Procs -> PCs] /\ CurOK'
        BY <1>8, <1>0, <1>1, HelperTypes, QuietStepTypes DEF Refresh, PCs, Fetching
    <2> QED
        BY <1>8, <2>1, <2>2 DEF Refresh, envVars, TypeOK
<1> QED
    BY <1>2, <1>3, <1>4, <1>5, <1>6, <1>7, <1>8 DEF DaemonStep

\* The one-shot harvest's own steps keep the types.
LEMMA OneShotStepTypes ==
    ASSUME TypeInv, NEW h \in Harvesters, OneShotStep(h)
    PROVE  TypeInv'
<1> USE DEF TypeInv
<1>0. h \in Procs /\ job[h] \in Job
    BY DEF TypeOK
<1>1. CASE StartHarvest(h)
    <2>1. [job[h] EXCEPT !.mod = cookie] \in Job
        BY <1>0 DEF Job, TypeOK
    <2>2. job' \in [Procs -> Job] /\ \A q \in Procs : q # h => job'[q] = job[q]
        BY <1>1, <2>1 DEF StartHarvest, TypeOK
    <2>3. result' \in [Harvesters -> {"none", "ok", "failed"}]
        BY <1>1 DEF StartHarvest, TypeOK
    <2>4. pc' \in [Procs -> PCs] /\ CurOK'
        BY <1>1, <1>0, <2>2, QuietStepTypes DEF StartHarvest, PCs, Fetching
    <2> QED
        BY <1>1, <2>2, <2>3, <2>4 DEF StartHarvest, PCs, Fetching, envVars, TypeOK
<1>2. CASE HarvestStep(h)
    BY <1>2, <1>0, HarvestStepTypes
<1>3. CASE FinishHarvest(h)
    <2>1. job' \in [Procs -> Job] /\ \A q \in Procs : q # h => job'[q] = job[q]
        BY <1>3, <1>0, HelperTypes DEF FinishHarvest, EndJob, TypeOK
    <2>2. pc' \in [Procs -> PCs] /\ CurOK'
        BY <1>3, <1>0, <2>1, QuietStepTypes DEF FinishHarvest, PCs, Fetching
    <2>3. faults' \in 0 .. MaxFaults
        BY <1>3, <1>0, HelperTypes DEF FinishHarvest
    <2> QED
        BY <1>3, <2>1, <2>2, <2>3 DEF FinishHarvest, envVars, TypeOK
<1> QED
    BY <1>1, <1>2, <1>3 DEF OneShotStep

\* Crashes and the environment keep the types.
LEMMA OutsideStepTypes ==
    ASSUME TypeInv, Environment \/ \E p \in Procs : Crash(p)
    PROVE  TypeInv'
<1> USE DEF TypeInv
<1>1. ASSUME NEW p \in Procs, Crash(p) PROVE TypeInv'
    <2>1. job' \in [Procs -> Job] /\ \A q \in Procs : q # p => job'[q] = job[q]
        BY <1>1, HelperTypes DEF Crash, EndJob, TypeOK
    <2>2. pc' \in [Procs -> PCs] /\ CurOK'
        BY <1>1, <2>1, QuietStepTypes DEF Crash, PCs, Fetching
    <2>3. faults' \in 0 .. MaxFaults
        BY <1>1, HelperTypes DEF Crash
    <2> QED
        BY <1>1, <2>1, <2>2, <2>3 DEF Crash, envVars, TypeOK
<1>2. CASE OpenDesktop
    BY <1>2 DEF OpenDesktop, TypeOK, CurOK
<1>3. CASE CloseDesktop
    <2>1. cookie' \in Nat
        BY <1>3 DEF CloseDesktop, TypeOK
    <2>2. desktop' \in BOOLEAN
        BY <1>3 DEF CloseDesktop
    <2> QED
        BY <1>3, <2>1, <2>2 DEF CloseDesktop, TypeOK, CurOK
<1>4. CASE FlushCookies
    BY <1>4, BoundAssumption DEF FlushCookies, TypeOK, CurOK
<1>5. CASE NextDay
    BY <1>5, BoundAssumption DEF NextDay, TypeOK, CurOK
<1>6. ASSUME NEW c \in Convs, Edit(c) PROVE TypeInv'
    BY <1>6, BoundAssumption DEF Edit, TypeOK, CurOK
<1>7. ASSUME NEW c \in Convs, Delete(c) PROVE TypeInv'
    BY <1>7 DEF Delete, TypeOK, CurOK
<1> QED
    BY <1>1, <1>2, <1>3, <1>4, <1>5, <1>6, <1>7 DEF Environment

LEMMA StepTypes == TypeInv /\ [Next]_vars => TypeInv'
<1> SUFFICES ASSUME TypeInv, [Next]_vars PROVE TypeInv'
    OBVIOUS
<1>1. CASE UNCHANGED vars
    BY <1>1 DEF TypeInv, TypeOK, CurOK, vars
<1>2. CASE Next
    BY <1>2, DaemonStepTypes, OneShotStepTypes, OutsideStepTypes DEF Next
<1> QED
    BY <1>1, <1>2

LEMMA TypeInvHolds == Spec => []TypeInv
<1>1. Init => TypeInv
    BY InitTypes DEF Init, TypeInv, CurOK, Fetching
<1> QED
    BY <1>1, StepTypes, PTL DEF Spec

\* Every variable keeps its type, for any set of daemons and harvesters,
\* overlapping or not, and any faults (the stall counter stays below its cap).
THEOREM TypeCorrect == Spec => []TypeOK
<1>1. TypeInv => TypeOK
    BY DEF TypeInv
<1> QED
    BY <1>1, TypeInvHolds, PTL

-----------------------------------------------------------------------------
(* QuietComplete, for instances that do not overlap *)

\* At most one instance is at work.
Solo == \A p, q \in Procs : pc[p] # "idle" /\ pc[q] # "idle" => p = q

\* The saved watermark is a cookie time of the past.
DiskOK == disk.lastCookie <= cookie /\ (~disk.synced => disk.lastCookie = 0)

\* A file is absent or a complete export of a version the account has had.
FilesOK == \A c \in Convs : file[c].ver <= server[c] /\ (file[c].whole <=> file[c].ver # 0)

Looping == {"scan"} \cup Fetching

\* A working daemon's copy of the state agrees with the disk on the watermark.
MemOK(p) ==
    p \in Daemons /\ pc[p] \notin {"idle", "surfaces"} =>
        job[p].mem.lastCookie = disk.lastCookie /\ job[p].mem.synced = disk.synced

\* A daemon harvests only for a cookie time newer than the saved watermark; a
\* harvest older than the present cookie time means the daemon has work to do.
WokenOK(p) ==
    pc[p] \in {"open", "list"} \cup Looping =>
        /\ job[p].mod <= cookie
        /\ p \in Daemons => (disk.synced => disk.lastCookie < job[p].mod)
        /\ p \in Harvesters /\ Quiet => job[p].mod = cookie

\* The listing may be old only if Desktop has been used since.
Unused(p) == ~desktop /\ job[p].mod = cookie
ListingOK(p) ==
    pc[p] \in Looping =>
        /\ \A c \in Convs : job[p].listed[c] <= server[c]
        /\ \A c \in job[p].todo : job[p].listed[c] # 0
        /\ Unused(p) => \A c \in Convs \ gone : job[p].listed[c] = server[c]

\* What the loop has dealt with without an error is exported.
DoneOK(p) ==
    pc[p] \in Looping =>
        \A c \in Convs \ (job[p].todo \cup job[p].errs) :
            job[p].listed[c] # 0 => file[c].ver >= job[p].listed[c]

\* What the loop is dealing with.
CurrentOK(p) ==
    /\ pc[p] \in {"list"} \cup Looping => cookie # 0
    /\ pc[p] \in Fetching =>
          /\ job[p].cur \in job[p].todo
          /\ p \in Harvesters /\ Quiet => job[p].cur \in dropped \cup gone \cup Tiny
    /\ pc[p] \in {"write", "fill", "hash"} =>
          job[p].listed[job[p].cur] <= job[p].body /\ job[p].body <= server[job[p].cur]
    /\ pc[p] = "fill" => file[job[p].cur] = NoFile
    /\ pc[p] = "hash" => file[job[p].cur] = Whole(job[p].body)

JobOK(p) == MemOK(p) /\ WokenOK(p) /\ ListingOK(p) /\ DoneOK(p) /\ CurrentOK(p)

Safe == Solo /\ DiskOK /\ FilesOK /\ (\A p \in Procs : JobOK(p)) /\ QuietComplete
Inv == TypeInv /\ Safe

\* What the theorem assumes of the constants: instances take turns, a failed
\* write leaves no readable header behind, the state file can be read, and two
\* edits of a conversation never fall into the same second.
Hypotheses ==
    /\ ~Overlap /\ "torn" \notin FaultKinds /\ "load" \notin FaultKinds
    /\ \A v, w \in Versions : Second[v] = Second[w] => v = w

\* While one instance takes a step the others rest.
LEMMA OthersRest ==
    ASSUME TypeInv, Solo, NEW p \in Procs,
           pc[p] # "idle" \/ \A q \in Procs : pc[q] = "idle",
           pc' = [pc EXCEPT ![p] = pc'[p]]
    PROVE  Solo' /\ \A q \in Procs : q # p => JobOK(q)'
<1>1. \A q \in Procs : q # p => pc'[q] = "idle"
    BY DEF TypeInv, TypeOK, Solo
<1>2. Solo'
    BY <1>1 DEF Solo
<1>3. ASSUME NEW q \in Procs, q # p PROVE JobOK(q)'
    BY <1>1, <1>3
       DEF JobOK, MemOK, WokenOK, Quiet, ListingOK, DoneOK, CurrentOK, Looping, Fetching
<1> QED
    BY <1>2, <1>3

\* Nothing is claimed of an instance between its harvests.
LEMMA RestOK ==
    ASSUME NEW p \in Procs, pc'[p] \in {"idle", "surfaces"}
    PROVE  JobOK(p)'
BY DEF JobOK, MemOK, WokenOK, Quiet, ListingOK, DoneOK, CurrentOK, Looping, Fetching

\* A step that touches neither the account nor the directory.
LEMMA FrameStep ==
    ASSUME Inv, UNCHANGED <<server, gone, desktop, cookie, file, disk, dropped>>
    PROVE  DiskOK' /\ FilesOK' /\ QuietComplete' /\ (Quiet' <=> Quiet)
BY DEF Inv, Safe, DiskOK, FilesOK, QuietComplete, Quiet

\* A daemon at work is never quiet.
LEMMA WokenNotQuiet ==
    ASSUME Inv, NEW p \in Daemons, pc[p] \in {"open", "list"} \cup Looping
    PROVE  ~Quiet
<1>1. p \in Procs /\ job[p] \in Job /\ disk \in State /\ cookie \in Nat
    BY DEF Inv, TypeInv, TypeOK
<1>2. job[p].mod <= cookie /\ (disk.synced => disk.lastCookie < job[p].mod)
    BY <1>1 DEF Inv, Safe, JobOK, WokenOK, Quiet
<1> QED
    BY <1>1, <1>2 DEF Quiet, State, Job

\* Leaving the harvest without touching account or directory is safe.
LEMMA LeaveSafe ==
    ASSUME Inv, NEW p \in Procs,
           pc[p] # "idle" \/ \A q \in Procs : pc[q] = "idle",
           pc' = [pc EXCEPT ![p] = pc'[p]], pc'[p] \in {"idle", "surfaces"},
           DiskOK', FilesOK', QuietComplete'
    PROVE  Safe'
BY OthersRest, RestOK DEF Inv, Safe

\* A step of one instance that touches neither the account nor the directory.
LEMMA LocalSafe ==
    ASSUME Inv, NEW p \in Procs,
           pc[p] # "idle" \/ \A q \in Procs : pc[q] = "idle",
           pc' = [pc EXCEPT ![p] = pc'[p]],
           UNCHANGED <<server, gone, desktop, cookie, file, disk, dropped>>,
           JobOK(p)'
    PROVE  Safe'
BY OthersRest, FrameStep DEF Inv, Safe

LEMMA HardErrorSafe ==
    ASSUME Inv, NEW p \in Procs, pc[p] # "idle", HardError(p),
           UNCHANGED <<server, gone, desktop, cookie, file, disk, dropped>>
    PROVE  Safe'
<1>1. pc' = [pc EXCEPT ![p] = pc'[p]] /\ pc'[p] \in {"idle", "surfaces"}
    BY FailureTypes DEF Inv, TypeInv
<1> QED
    BY <1>1, LocalSafe, RestOK

\* A counted failure: the conversation joins the errors.
LEMMA ItemFailsSafe ==
    ASSUME Inv, NEW p \in Procs, pc[p] \in Fetching, ItemFails(p),
           UNCHANGED <<server, gone, desktop, cookie, disk, dropped>>,
           \A c \in Convs : c # job[p].cur => file'[c] = file[c]
    PROVE  JobOK(p)' /\ pc' = [pc EXCEPT ![p] = pc'[p]]
<1> DEFINE j == job[p]
<1>1. j \in Job /\ pc \in [Procs -> PCs] /\ j.cur \in Convs /\ job \in [Procs -> Job]
    BY DEF Inv, TypeInv, TypeOK, CurOK
<1>2. pc' = [pc EXCEPT ![p] = "scan"] /\ pc'[p] = "scan"
    BY <1>1 DEF ItemFails, Goto
<1>3. /\ job'[p].mem = j.mem /\ job'[p].mod = j.mod /\ job'[p].listed = j.listed
      /\ job'[p].todo = j.todo \ {j.cur} /\ job'[p].errs = j.errs \cup {j.cur}
    BY <1>1 DEF ItemFails, Job
<1>4. pc[p] \in Looping /\ JobOK(p)
    BY DEF Looping, Inv, Safe
<1> HIDE DEF j
<1>5. MemOK(p)' /\ WokenOK(p)'
    BY <1>2, <1>3, <1>4 DEF JobOK, MemOK, WokenOK, Quiet, Looping, Fetching, j
<1>6. ListingOK(p)'
    BY <1>2, <1>3, <1>4 DEF JobOK, ListingOK, Unused, Quiet, j
<1>7. DoneOK(p)'
    BY <1>1, <1>2, <1>3, <1>4 DEF JobOK, DoneOK, j
<1>8. CurrentOK(p)'
    BY <1>2, <1>4 DEF JobOK, CurrentOK, Looping, Fetching
<1> QED
    BY <1>2, <1>5, <1>6, <1>7, <1>8 DEF JobOK

LEMMA OpenSessionSafe ==
    ASSUME Inv, NEW p \in Procs, OpenSession(p)
    PROVE  Safe'
<1>1. pc[p] = "open" /\ UNCHANGED <<server, gone, desktop, cookie, file, disk, dropped>>
    BY DEF OpenSession, envVars
<1>2. CASE HardError(p)
    BY <1>1, <1>2, HardErrorSafe
<1>3. CASE SessionPossible /\ Goto(p, "list") /\ UNCHANGED job
    <2>1. pc' = [pc EXCEPT ![p] = pc'[p]] /\ pc'[p] = "list"
        BY <1>3 DEF Goto, Inv, TypeInv, TypeOK
    <2>2. JobOK(p)'
        BY <1>1, <1>3, <2>1
           DEF Inv, Safe, JobOK, MemOK, WokenOK, Quiet, ListingOK, DoneOK, CurrentOK, Looping,
               Fetching, SessionPossible
    <2> QED
        BY <1>1, <2>1, <2>2, LocalSafe
<1> QED
    BY <1>2, <1>3 DEF OpenSession

LEMMA ListSafe ==
    ASSUME Inv, NEW p \in Procs, List(p)
    PROVE  Safe'
<1>1. pc[p] = "list" /\ UNCHANGED <<server, gone, desktop, cookie, file, disk, dropped>>
    BY DEF List, envVars
<1>2. CASE HardError(p)
    BY <1>1, <1>2, HardErrorSafe
<1>3. ASSUME NEW missed \in SUBSET Convs, NEW seen,
             seen = [c \in Convs |-> IF c \in gone \cup missed THEN 0 ELSE server[c]],
             desktop \/ cookie # job[p].mod \/ missed = {},
             job' = [job EXCEPT ![p].listed = seen, ![p].todo = {c \in Convs : seen[c] # 0}],
             Goto(p, "scan")
      PROVE  Safe'
    <2>1. pc' = [pc EXCEPT ![p] = pc'[p]] /\ pc'[p] = "scan"
        BY <1>3 DEF Goto, Inv, TypeInv, TypeOK
    <2>2. job[p] \in Job /\ job \in [Procs -> Job] /\ server \in [Convs -> Versions]
        BY DEF Inv, TypeInv, TypeOK
    <2>3. /\ job'[p].mem = job[p].mem /\ job'[p].mod = job[p].mod
          /\ job'[p].listed = seen /\ job'[p].todo = {c \in Convs : seen[c] # 0}
        BY <1>3, <2>2 DEF Job
    <2>4. JobOK(p)
        BY DEF Inv, Safe
    <2>5. MemOK(p)' /\ WokenOK(p)'
        BY <1>1, <2>1, <2>3, <2>4 DEF JobOK, MemOK, WokenOK, Quiet, Looping, Fetching
    <2>6. ListingOK(p)'
        BY <1>1, <1>3, <2>1, <2>2, <2>3, BoundAssumption DEF ListingOK, Unused
    <2>7. DoneOK(p)'
        BY <1>3, <2>1, <2>3 DEF DoneOK
    <2>8. CurrentOK(p)'
        BY <1>1, <2>1, <2>4 DEF JobOK, CurrentOK, Looping, Fetching
    <2> QED
        BY <1>1, <2>1, <2>5, <2>6, <2>7, <2>8, LocalSafe DEF JobOK
<1> QED
    BY <1>2, <1>3 DEF List

\* With distinct seconds a matching header means a complete export of the listed version.
LEMMA HeaderMeansExported ==
    ASSUME Inv, Hypotheses, NEW p \in Procs, NEW c \in Convs,
           HeaderMatches(c, job[p].listed[c])
    PROVE  file[c].ver = job[p].listed[c] /\ file[c].whole
<1>1. file[c] \in File /\ job[p] \in Job
    BY DEF Inv, TypeInv, TypeOK
<1>2. file[c].ver \in Versions /\ job[p].listed[c] \in Versions
    BY <1>1 DEF File, Job
<1> QED
    BY <1>2 DEF HeaderMatches, Hypotheses, Inv, Safe, FilesOK

\* Skipping and seeding: one conversation leaves the list, its file matching.
LEMMA PassOverSafe ==
    ASSUME Inv, Hypotheses, NEW p \in Procs, pc[p] = "scan", UNCHANGED pc,
           UNCHANGED <<server, gone, desktop, cookie, file, disk, dropped>>,
           NEW c \in job[p].todo, HeaderMatches(c, job[p].listed[c]),
           \A q \in Procs : q # p => job'[q] = job[q],
           job'[p].todo = job[p].todo \ {c}, job'[p].listed = job[p].listed,
           job'[p].errs = job[p].errs, job'[p].mod = job[p].mod,
           job'[p].mem.lastCookie = job[p].mem.lastCookie,
           job'[p].mem.synced = job[p].mem.synced
    PROVE  Safe'
<1>1. job[p] \in Job /\ pc \in [Procs -> PCs] /\ c \in Convs
    BY DEF Inv, TypeInv, TypeOK, Job
<1>2. pc' = [pc EXCEPT ![p] = pc'[p]] /\ pc'[p] = "scan"
    BY <1>1
<1>3. JobOK(p)
    BY DEF Inv, Safe
<1>4. MemOK(p)' /\ WokenOK(p)'
    BY <1>3 DEF JobOK, MemOK, WokenOK, Quiet
<1>5. ListingOK(p)'
    BY <1>3 DEF JobOK, ListingOK, Unused, Quiet
<1>6. file[c].ver >= job[p].listed[c]
    BY <1>1, HeaderMeansExported DEF Job
<1>7. DoneOK(p)'
    BY <1>2, <1>3, <1>6 DEF JobOK, DoneOK, Looping
<1>8. CurrentOK(p)'
    BY <1>2, <1>3 DEF JobOK, CurrentOK, Looping, Fetching
<1> QED
    BY <1>2, <1>4, <1>5, <1>7, <1>8, LocalSafe DEF JobOK

LEMMA SkipSafe ==
    ASSUME Inv, Hypotheses, NEW p \in Procs, Skip(p)
    PROVE  Safe'
<1>1. PICK c \in job[p].todo : SkipsAt(p, c) /\ job' = [job EXCEPT ![p].todo = @ \ {c}]
    BY DEF Skip
<1>2. job[p] \in Job /\ job \in [Procs -> Job]
    BY DEF Inv, TypeInv, TypeOK
<1>3. /\ job'[p].todo = job[p].todo \ {c} /\ job'[p].listed = job[p].listed
      /\ job'[p].errs = job[p].errs /\ job'[p].mod = job[p].mod
      /\ job'[p].mem = job[p].mem /\ \A q \in Procs : q # p => job'[q] = job[q]
    BY <1>1, <1>2 DEF Job
<1> QED
    BY <1>1, <1>3, PassOverSafe DEF Skip, SkipsAt, envVars

LEMMA SeedSafe ==
    ASSUME Inv, Hypotheses, NEW d \in Daemons, Seed(d)
    PROVE  Safe'
<1>1. PICK c \in job[d].todo :
         /\ SeedsAt(d, c)
         /\ job' = [job EXCEPT ![d].todo = @ \ {c}, ![d].mem.known[c] = job[d].listed[c]]
    BY DEF Seed
<1>2. job[d] \in Job /\ job \in [Procs -> Job] /\ job[d].mem \in State /\ d \in Procs
    BY DEF Inv, TypeInv, TypeOK, Job
<1>3. /\ job'[d].todo = job[d].todo \ {c} /\ job'[d].listed = job[d].listed
      /\ job'[d].errs = job[d].errs /\ job'[d].mod = job[d].mod
      /\ job'[d].mem.lastCookie = job[d].mem.lastCookie
      /\ job'[d].mem.synced = job[d].mem.synced
      /\ \A q \in Procs : q # d => job'[q] = job[q]
    BY <1>1, <1>2 DEF Job, State
<1> QED
    BY <1>1, <1>2, <1>3, PassOverSafe DEF Seed, SeedsAt, envVars

\* A download is chosen; a quiet directory has nothing for a one-shot to download.
LEMMA PickFetchSafe ==
    ASSUME Inv, Hypotheses, NEW p \in Procs, PickFetch(p)
    PROVE  Safe'
<1>1. PICK c \in job[p].todo : ~SkipsAt(p, c) /\ job' = [job EXCEPT ![p].cur = c]
    BY DEF PickFetch
<1>2. job[p] \in Job /\ job \in [Procs -> Job] /\ pc \in [Procs -> PCs] /\ c \in Convs
    BY DEF Inv, TypeInv, TypeOK, Job
<1>3. /\ pc[p] = "scan" /\ pc' = [pc EXCEPT ![p] = pc'[p]] /\ pc'[p] = "fetch"
      /\ UNCHANGED <<server, gone, desktop, cookie, file, disk, dropped>>
    BY <1>2 DEF PickFetch, Goto, envVars
<1>4. /\ job'[p].mem = job[p].mem /\ job'[p].mod = job[p].mod
      /\ job'[p].listed = job[p].listed /\ job'[p].todo = job[p].todo
      /\ job'[p].errs = job[p].errs /\ job'[p].cur = c
    BY <1>1, <1>2 DEF Job
<1>5. JobOK(p)
    BY DEF Inv, Safe
<1>6. ASSUME p \in Harvesters, Quiet PROVE c \in dropped \cup gone \cup Tiny
    <2> SUFFICES ASSUME c \notin dropped \cup gone \cup Tiny PROVE FALSE
        OBVIOUS
    <2>1. p \notin Daemons
        BY <1>6, ProcAssumption
    <2>2. job[p].listed[c] = server[c] /\ job[p].listed[c] # 0
        BY <1>2, <1>3, <1>5, <1>6 DEF JobOK, WokenOK, ListingOK, Looping, Unused, Quiet
    <2>3. file[c] = Whole(server[c])
        BY <1>2, <1>6, <2>2 DEF Inv, Safe, QuietComplete
    <2>4. SkipsAt(p, c)
        BY <2>1, <2>2, <2>3 DEF SkipsAt, HeaderMatches, Whole
    <2> QED
        BY <1>1, <2>4
<1>7. MemOK(p)' /\ WokenOK(p)'
    BY <1>3, <1>4, <1>5 DEF JobOK, MemOK, WokenOK, Quiet, Looping, Fetching
<1>8. ListingOK(p)' /\ DoneOK(p)'
    BY <1>3, <1>4, <1>5 DEF JobOK, ListingOK, DoneOK, Unused, Quiet, Looping, Fetching
<1>9. CurrentOK(p)'
    BY <1>3, <1>4, <1>5, <1>6 DEF JobOK, CurrentOK, Quiet, Looping, Fetching
<1> QED
    BY <1>3, <1>7, <1>8, <1>9, LocalSafe DEF JobOK

LEMMA FetchSafe ==
    ASSUME Inv, NEW p \in Procs, Fetch(p)
    PROVE  Safe'
<1> DEFINE c == job[p].cur
<1>1. /\ job[p] \in Job /\ job \in [Procs -> Job] /\ pc \in [Procs -> PCs]
      /\ c \in Convs /\ server \in [Convs -> Versions]
    BY DEF Inv, TypeInv, TypeOK, CurOK, Fetch, Fetching
<1>2. /\ pc[p] = "fetch" /\ pc' = [pc EXCEPT ![p] = pc'[p]] /\ pc'[p] = "write"
      /\ UNCHANGED <<server, gone, desktop, cookie, file, disk, dropped>>
    BY <1>1 DEF Fetch, Goto, envVars
<1>3. /\ job'[p].mem = job[p].mem /\ job'[p].mod = job[p].mod
      /\ job'[p].listed = job[p].listed /\ job'[p].todo = job[p].todo
      /\ job'[p].errs = job[p].errs /\ job'[p].cur = c /\ job'[p].body = server[c]
    BY <1>1 DEF Fetch, Job
<1>4. JobOK(p)
    BY DEF Inv, Safe
<1>5. MemOK(p)' /\ WokenOK(p)'
    BY <1>2, <1>3, <1>4 DEF JobOK, MemOK, WokenOK, Quiet, Looping, Fetching
<1>6. ListingOK(p)' /\ DoneOK(p)'
    BY <1>2, <1>3, <1>4 DEF JobOK, ListingOK, DoneOK, Unused, Quiet, Looping, Fetching
<1>7. CurrentOK(p)'
    BY <1>1, <1>2, <1>3, <1>4 DEF JobOK, ListingOK, CurrentOK, Quiet, Looping, Fetching
<1> QED
    BY <1>2, <1>5, <1>6, <1>7, LocalSafe DEF JobOK

LEMMA FetchFailsSafe ==
    ASSUME Inv, NEW p \in Procs, FetchFails(p)
    PROVE  Safe'
<1>1. /\ pc[p] \in Fetching /\ pc[p] # "idle" /\ ItemFails(p)
      /\ UNCHANGED <<server, gone, desktop, cookie, file, disk, dropped>>
    BY DEF FetchFails, Fetching, envVars
<1> QED
    BY <1>1, ItemFailsSafe, LocalSafe

LEMMA FetchTimesOutSafe ==
    ASSUME Inv, NEW p \in Procs, FetchTimesOut(p)
    PROVE  Safe'
BY HardErrorSafe DEF FetchTimesOut, envVars

\* Replacing the file in hand: no daemon does it while quiet, and a one-shot
\* harvest only to a conversation QuietComplete says nothing of.
LEMMA FileStep ==
    ASSUME Inv, NEW p \in Procs, pc[p] \in {"write", "fill"},
           UNCHANGED <<server, gone, desktop, cookie, disk, dropped>>,
           NEW f, f = NoFile \/ f = Whole(job[p].body),
           file' = [file EXCEPT ![job[p].cur] = f]
    PROVE  DiskOK' /\ FilesOK' /\ QuietComplete'
<1> DEFINE c == job[p].cur
           v == job[p].body
<1>1. /\ job[p] \in Job /\ c \in Convs /\ file \in [Convs -> File]
      /\ server \in [Convs -> Versions]
    BY DEF Inv, TypeInv, TypeOK, CurOK, Fetching
<1>2. v \in Versions /\ job[p].listed[c] \in Versions
    BY <1>1 DEF Job
<1>3. v <= server[c] /\ v # 0
    BY <1>1, <1>2 DEF Inv, Safe, JobOK, CurrentOK, ListingOK, Looping, Fetching
<1>4. DiskOK'
    BY DEF Inv, Safe, DiskOK
<1>5. FilesOK'
    BY <1>1, <1>2, <1>3 DEF Inv, Safe, FilesOK, NoFile, Whole
<1>6. QuietComplete'
    <2>1. CASE p \in Daemons
        BY <2>1, WokenNotQuiet DEF Looping, Fetching, QuietComplete, Quiet
    <2>2. CASE p \in Harvesters
        <3>1. Quiet => c \in dropped \cup gone \cup Tiny
            BY <2>2 DEF Inv, Safe, JobOK, CurrentOK, Fetching
        <3> QED
            BY <1>1, <3>1 DEF Inv, Safe, QuietComplete, Quiet
    <2> QED
        BY <2>1, <2>2
<1> QED
    BY <1>4, <1>5, <1>6

\* JobOK of the writer between truncation and the end of the write.
LEMMA WriterStep ==
    ASSUME Inv, NEW p \in Procs, pc[p] \in {"write", "fill"}, UNCHANGED job,
           UNCHANGED <<server, gone, desktop, cookie, disk, dropped>>,
           NEW f, file' = [file EXCEPT ![job[p].cur] = f],
           pc' = [pc EXCEPT ![p] = pc'[p]], pc'[p] \in {"fill", "hash"},
           pc'[p] = "fill" => f = NoFile, pc'[p] = "hash" => f = Whole(job[p].body)
    PROVE  JobOK(p)'
<1>1. /\ job[p] \in Job /\ job[p].cur \in Convs /\ file \in [Convs -> File]
      /\ job[p].cur \in job[p].todo
    BY DEF Inv, Safe, JobOK, CurrentOK, TypeInv, TypeOK, CurOK, Fetching
<1>2. JobOK(p)
    BY DEF Inv, Safe
<1>3. MemOK(p)' /\ WokenOK(p)'
    BY <1>2 DEF JobOK, MemOK, WokenOK, Quiet, Looping, Fetching
<1>4. ListingOK(p)'
    BY <1>2 DEF JobOK, ListingOK, Unused, Quiet, Looping, Fetching
<1>5. DoneOK(p)'
    BY <1>1, <1>2 DEF JobOK, DoneOK, Looping, Fetching
<1>6. CurrentOK(p)'
    BY <1>1, <1>2 DEF JobOK, CurrentOK, Quiet, Looping, Fetching
<1> QED
    BY <1>3, <1>4, <1>5, <1>6 DEF JobOK

LEMMA TruncateSafe ==
    ASSUME Inv, NEW p \in Procs, Truncate(p)
    PROVE  Safe'
<1>1. /\ pc[p] = "write" /\ pc \in [Procs -> PCs]
      /\ UNCHANGED <<server, gone, desktop, cookie, disk, dropped>>
    BY DEF Truncate, envVars, Inv, TypeInv, TypeOK
<1>2. CASE ItemFails(p) /\ UNCHANGED file
    BY <1>1, <1>2, ItemFailsSafe, LocalSafe DEF Fetching
<1>3. CASE /\ file' = [file EXCEPT ![job[p].cur] = NoFile]
           /\ Goto(p, "fill") /\ UNCHANGED job
    <2>1. pc' = [pc EXCEPT ![p] = pc'[p]] /\ pc'[p] = "fill"
        BY <1>1, <1>3 DEF Goto
    <2>2. DiskOK' /\ FilesOK' /\ QuietComplete'
        BY <1>1, <1>3, FileStep
    <2>3. JobOK(p)'
        BY <1>1, <1>3, <2>1, WriterStep
    <2> QED
        BY <1>1, <2>1, <2>2, <2>3, OthersRest DEF Inv, Safe
<1> QED
    BY <1>2, <1>3 DEF Truncate

LEMMA FillSafe ==
    ASSUME Inv, Hypotheses, NEW p \in Procs, Fill(p)
    PROVE  Safe'
<1>1. /\ pc[p] = "fill" /\ pc \in [Procs -> PCs]
      /\ UNCHANGED <<server, gone, desktop, cookie, disk, dropped>>
    BY DEF Fill, envVars, Inv, TypeInv, TypeOK
<1>2. CASE /\ file' = [file EXCEPT ![job[p].cur] = NoFile]
           /\ ItemFails(p)
    <2>1. JobOK(p)' /\ pc' = [pc EXCEPT ![p] = pc'[p]]
        BY <1>1, <1>2, ItemFailsSafe DEF Fetching, Inv, TypeInv, TypeOK
    <2>2. DiskOK' /\ FilesOK' /\ QuietComplete'
        BY <1>1, <1>2, FileStep
    <2> QED
        BY <1>1, <2>1, <2>2, OthersRest DEF Inv, Safe
<1>3. CASE /\ file' = [file EXCEPT ![job[p].cur] = Whole(job[p].body)]
           /\ Goto(p, "hash") /\ UNCHANGED job
    <2>1. pc' = [pc EXCEPT ![p] = pc'[p]] /\ pc'[p] = "hash"
        BY <1>1, <1>3 DEF Goto
    <2>2. DiskOK' /\ FilesOK' /\ QuietComplete'
        BY <1>1, <1>3, FileStep
    <2>3. JobOK(p)'
        BY <1>1, <1>3, <2>1, WriterStep
    <2> QED
        BY <1>1, <2>1, <2>2, <2>3, OthersRest DEF Inv, Safe
<1>4. ~Fault("torn")
    BY DEF Fault, Hypotheses
<1>5. file[job[p].cur].ver = 0
    BY <1>1 DEF Inv, Safe, JobOK, CurrentOK, NoFile
<1> QED
    BY <1>2, <1>3, <1>4, <1>5 DEF Fill

\* The conversation in hand is done: its file is the body that was fetched.
LEMMA RecordSafe ==
    ASSUME Inv, NEW p \in Procs, Record(p)
    PROVE  Safe'
<1> DEFINE j == job[p]
           done == [j EXCEPT !.todo = @ \ {j.cur}, !.cur = None, !.body = 0]
           noted == [done EXCEPT !.prog = @ \/ MovesState(j),
                                 !.mem.known[j.cur] = j.listed[j.cur]]
<1>1. /\ j \in Job /\ j.mem \in State /\ job \in [Procs -> Job] /\ pc \in [Procs -> PCs]
      /\ file \in [Convs -> File] /\ j.cur \in Convs
    BY DEF Inv, TypeInv, TypeOK, CurOK, Record, Fetching, Job
<1>2. /\ pc[p] = "hash" /\ pc' = [pc EXCEPT ![p] = pc'[p]] /\ pc'[p] = "scan"
      /\ UNCHANGED <<server, gone, desktop, cookie, file, disk, dropped>>
    BY <1>1 DEF Record, Goto, envVars
<1>3. job'[p] = IF p \in Daemons THEN noted ELSE done
    BY <1>1 DEF Record
<1>4. JobOK(p)
    BY DEF Inv, Safe
<1> HIDE DEF j
<1>5. /\ done.todo = j.todo \ {j.cur} /\ done.listed = j.listed /\ done.errs = j.errs
      /\ done.mod = j.mod /\ done.mem = j.mem
    BY <1>1 DEF Job
<1>6. /\ noted.todo = done.todo /\ noted.listed = done.listed /\ noted.errs = done.errs
      /\ noted.mod = done.mod /\ noted.mem.lastCookie = done.mem.lastCookie
      /\ noted.mem.synced = done.mem.synced
    BY <1>1 DEF Job, State
<1> HIDE DEF done, noted
<1>7. /\ job'[p].todo = j.todo \ {j.cur} /\ job'[p].listed = j.listed /\ job'[p].errs = j.errs
      /\ job'[p].mod = j.mod /\ job'[p].mem.lastCookie = j.mem.lastCookie
      /\ job'[p].mem.synced = j.mem.synced
    BY <1>3, <1>5, <1>6
<1>8. MemOK(p)' /\ WokenOK(p)'
    BY <1>2, <1>4, <1>7 DEF JobOK, MemOK, WokenOK, Quiet, Looping, Fetching, j
<1>9. ListingOK(p)'
    BY <1>2, <1>4, <1>7 DEF JobOK, ListingOK, Unused, Quiet, Looping, Fetching, j
<1>10. file[j.cur].ver >= j.listed[j.cur]
    <2>1. j.body \in Versions /\ j.listed[j.cur] \in Versions
        BY <1>1 DEF Job
    <2> QED
        BY <1>2, <1>4, <2>1 DEF JobOK, CurrentOK, Whole, j
<1>11. DoneOK(p)'
    BY <1>2, <1>4, <1>7, <1>10 DEF JobOK, DoneOK, Looping, Fetching, j
<1>12. CurrentOK(p)'
    BY <1>2, <1>4 DEF JobOK, CurrentOK, Looping, Fetching
<1> QED
    BY <1>2, <1>8, <1>9, <1>11, <1>12, LocalSafe DEF JobOK

LEMMA HarvestStepSafe ==
    ASSUME Inv, Hypotheses, NEW p \in Procs, HarvestStep(p)
    PROVE  Safe'
BY OpenSessionSafe, ListSafe, SkipSafe, PickFetchSafe, FetchSafe, FetchFailsSafe,
   FetchTimesOutSafe, TruncateSafe, FillSafe, RecordSafe DEF HarvestStep

LEMMA StartCycleSafe ==
    ASSUME Inv, Hypotheses, NEW d \in Daemons, StartCycle(d)
    PROVE  Safe'
<1>1. /\ d \in Procs /\ disk \in State /\ job \in [Procs -> Job] /\ NoJob \in Job
      /\ pc \in [Procs -> PCs]
    BY ConstantTypes DEF Inv, TypeInv, TypeOK
<1>2. /\ \A q \in Procs : pc[q] = "idle"
      /\ pc' = [pc EXCEPT ![d] = pc'[d]] /\ pc'[d] = "loaded"
      /\ UNCHANGED <<server, gone, desktop, cookie, file, disk, dropped>>
    BY <1>1 DEF StartCycle, MayStart, Hypotheses, Goto, envVars
<1>3. job'[d].mem = disk
    BY <1>1 DEF StartCycle, LoadState, Fault, Hypotheses, Job
<1>4. JobOK(d)'
    BY <1>2, <1>3
       DEF JobOK, MemOK, WokenOK, Quiet, ListingOK, DoneOK, CurrentOK, Looping, Fetching
<1> QED
    BY <1>1, <1>2, <1>4, LocalSafe

\* The harvest goes ahead for a cookie time later than the watermark, or at first.
LEMMA TriggerSafe ==
    ASSUME Inv, NEW d \in Daemons, Trigger(d)
    PROVE  Safe'
<1>1. /\ d \in Procs /\ disk \in State /\ job \in [Procs -> Job] /\ job[d] \in Job
      /\ pc \in [Procs -> PCs] /\ cookie \in Nat
    BY DEF Inv, TypeInv, TypeOK
<1>2. /\ pc[d] = "loaded" /\ pc' = [pc EXCEPT ![d] = pc'[d]]
      /\ UNCHANGED <<server, gone, desktop, cookie, file, disk, dropped>>
    BY <1>1 DEF Trigger, Goto, envVars
<1>3. job'[d].mod = cookie /\ job'[d].mem = job[d].mem
    BY <1>1 DEF Trigger, Job
<1>4. job[d].mem.lastCookie = disk.lastCookie /\ job[d].mem.synced = disk.synced
    BY <1>1, <1>2 DEF Inv, Safe, JobOK, MemOK
<1>5. CASE pc'[d] = "surfaces"
    BY <1>1, <1>2, <1>5, RestOK, LocalSafe
<1>6. CASE pc'[d] = "open"
    <2>1. disk.synced => cookie # disk.lastCookie
        BY <1>1, <1>4, <1>6 DEF Trigger, Goto
    <2>2. disk.lastCookie <= cookie /\ disk.lastCookie \in Nat
        BY <1>1 DEF Inv, Safe, DiskOK, State
    <2>3. JobOK(d)'
        BY <1>1, <1>2, <1>3, <1>4, <1>6, <2>1, <2>2
           DEF JobOK, MemOK, WokenOK, Quiet, ListingOK, DoneOK, CurrentOK, Looping, Fetching
    <2> QED
        BY <1>1, <1>2, <2>3, LocalSafe
<1> QED
    BY <1>1, <1>5, <1>6 DEF Trigger, Goto

\* The heart of the matter: the watermark reaches the present cookie time only
\* when the listing was the present one and the loop has exported all of it.
LEMMA SaveSafe ==
    ASSUME Inv, NEW d \in Daemons, Save(d)
    PROVE  Safe'
<1> DEFINE j == job[d]
<1>1. /\ d \in Procs /\ disk \in State /\ job \in [Procs -> Job] /\ j \in Job
      /\ j.mem \in State /\ pc \in [Procs -> PCs] /\ cookie \in Nat
      /\ file \in [Convs -> File] /\ server \in [Convs -> Versions]
    BY DEF Inv, TypeInv, TypeOK, Job
<1>2. /\ pc[d] = "scan" /\ j.todo = {} /\ pc' = [pc EXCEPT ![d] = pc'[d]]
      /\ pc'[d] = "surfaces" /\ UNCHANGED <<server, gone, desktop, cookie, file>>
    BY <1>1 DEF Save, Goto, envVars
<1>3. FilesOK'
    BY <1>2 DEF Inv, Safe, FilesOK
<1>4. JobOK(d)
    BY <1>1 DEF Inv, Safe
<1> HIDE DEF j
<1>5. CASE disk' = disk
    <2>1. ~Quiet'
        BY <1>1, <1>2, <1>5, WokenNotQuiet DEF Looping, Quiet
    <2>2. DiskOK'
        BY <1>2, <1>5 DEF Inv, Safe, DiskOK
    <2> QED
        BY <1>1, <1>2, <1>3, <2>1, <2>2, LeaveSafe DEF QuietComplete
<1>6. CASE disk' = Watermarked(j)
    <2>1. /\ disk'.synced = TRUE
          /\ disk'.lastCookie = IF Advances(j) THEN j.mod ELSE j.mem.lastCookie
        BY <1>1, <1>6 DEF Watermarked, State
    <2>2. j.mem.lastCookie = disk.lastCookie /\ j.mod <= cookie /\ cookie # 0
        BY <1>2, <1>4 DEF JobOK, MemOK, WokenOK, Quiet, CurrentOK, Looping, j
    <2>3. DiskOK'
        BY <1>2, <2>1, <2>2 DEF Inv, Safe, DiskOK
    <2>4. CASE ~Advances(j)
        <3>1. disk.lastCookie # cookie
            BY <1>1, <1>2, <1>4, <2>2
               DEF JobOK, WokenOK, Quiet, Looping, Inv, Safe, DiskOK, State, j, Job
        <3> QED
            BY <1>1, <1>2, <1>3, <2>1, <2>2, <2>3, <2>4, <3>1, LeaveSafe
               DEF QuietComplete, Quiet
    <2>5. CASE Advances(j)
        <3>1. dropped' = j.errs
            BY <2>5 DEF Save, Advances, j
        <3>2. QuietComplete'
            <4> SUFFICES ASSUME Quiet', NEW c \in Convs, c \notin j.errs, c \notin gone,
                                server[c] # 0
                         PROVE  file[c] = Whole(server[c])
                BY <1>2, <3>1 DEF QuietComplete
            <4>1. j.listed[c] = server[c]
                BY <1>1, <1>2, <1>4, <2>1, <2>5 DEF JobOK, ListingOK, Unused, Looping, Quiet, j
            <4>2. file[c].ver >= server[c]
                BY <1>2, <1>4, <4>1 DEF JobOK, DoneOK, Looping, j
            <4>3. file[c] \in File /\ file[c].ver \in Versions /\ server[c] \in Versions
                BY <1>1 DEF File
            <4>4. file[c].ver = server[c] /\ file[c].whole = TRUE
                BY <4>2, <4>3 DEF Inv, Safe, FilesOK, File
            <4> QED
                BY <4>3, <4>4 DEF File, Whole
        <3> QED
            BY <1>1, <1>2, <1>3, <2>3, <3>2, LeaveSafe
    <2> QED
        BY <2>4, <2>5
<1> QED
    BY <1>5, <1>6 DEF Save, SaveState, j

LEMMA CheckSurfacesSafe ==
    ASSUME Inv, Hypotheses, NEW d \in Daemons, CheckSurfaces(d)
    PROVE  Safe'
<1>1. /\ d \in Procs /\ disk \in State /\ job \in [Procs -> Job] /\ NoJob \in Job
      /\ pc \in [Procs -> PCs]
    BY ConstantTypes DEF Inv, TypeInv, TypeOK
<1>2. /\ pc[d] = "surfaces" /\ pc' = [pc EXCEPT ![d] = pc'[d]] /\ pc'[d] \in {"idle", "refresh"}
      /\ UNCHANGED <<server, gone, desktop, cookie, file, disk, dropped>>
    BY <1>1 DEF CheckSurfaces, Goto, envVars
<1>3. job'[d].mem = disk
    BY <1>1 DEF CheckSurfaces, LoadState, Fault, Hypotheses, Job
<1>4. JobOK(d)'
    BY <1>2, <1>3
       DEF JobOK, MemOK, WokenOK, Quiet, ListingOK, DoneOK, CurrentOK, Looping, Fetching
<1> QED
    BY <1>1, <1>2, <1>4, LocalSafe

LEMMA RefreshSafe ==
    ASSUME Inv, NEW d \in Daemons, Refresh(d)
    PROVE  Safe'
<1>1. /\ d \in Procs /\ job[d] \in Job /\ job[d].mem \in State /\ pc \in [Procs -> PCs]
    BY DEF Inv, TypeInv, TypeOK, Job
<1>2. /\ pc[d] = "refresh" /\ pc' = [pc EXCEPT ![d] = pc'[d]] /\ pc'[d] = "idle"
      /\ UNCHANGED <<server, gone, desktop, cookie, file, dropped>>
    BY <1>1 DEF Refresh, Goto, envVars
<1>3. job[d].mem.lastCookie = disk.lastCookie /\ job[d].mem.synced = disk.synced
    BY <1>1, <1>2 DEF Inv, Safe, JobOK, MemOK
<1>4. disk'.lastCookie = disk.lastCookie /\ disk'.synced = disk.synced
    BY <1>1, <1>3 DEF Refresh, SaveState, State
<1>5. DiskOK' /\ FilesOK' /\ QuietComplete'
    BY <1>2, <1>4 DEF Inv, Safe, DiskOK, FilesOK, QuietComplete, Quiet
<1> QED
    BY <1>1, <1>2, <1>5, LeaveSafe

LEMMA OneShotStepSafe ==
    ASSUME Inv, Hypotheses, NEW h \in Harvesters, OneShotStep(h)
    PROVE  Safe'
<1>0. h \in Procs /\ h \notin Daemons /\ pc \in [Procs -> PCs]
    BY ProcAssumption DEF Inv, TypeInv, TypeOK
<1>1. CASE StartHarvest(h)
    <2>1. /\ \A q \in Procs : pc[q] = "idle"
          /\ pc' = [pc EXCEPT ![h] = pc'[h]] /\ pc'[h] = "open"
          /\ UNCHANGED <<server, gone, desktop, cookie, file, disk, dropped>>
        BY <1>0, <1>1 DEF StartHarvest, MayStart, Hypotheses, Goto, envVars
    <2>2. job'[h].mod = cookie /\ cookie \in Nat
        BY <1>0, <1>1 DEF StartHarvest, Inv, TypeInv, TypeOK, Job
    <2>3. JobOK(h)'
        BY <1>0, <2>1, <2>2
           DEF JobOK, MemOK, WokenOK, Quiet, ListingOK, DoneOK, CurrentOK, Looping, Fetching
    <2> QED
        BY <1>0, <2>1, <2>3, LocalSafe
<1>2. CASE HarvestStep(h)
    BY <1>0, <1>2, HarvestStepSafe
<1>3. CASE FinishHarvest(h)
    <2>1. /\ pc[h] = "scan" /\ pc' = [pc EXCEPT ![h] = pc'[h]] /\ pc'[h] = "idle"
          /\ UNCHANGED <<server, gone, desktop, cookie, file, disk, dropped>>
        BY <1>0, <1>3 DEF FinishHarvest, Goto, envVars
    <2> QED
        BY <1>0, <2>1, RestOK, LocalSafe
<1> QED
    BY <1>1, <1>2, <1>3 DEF OneShotStep

LEMMA CrashSafe ==
    ASSUME Inv, NEW p \in Procs, Crash(p)
    PROVE  Safe'
<1>1. /\ pc[p] # "idle" /\ pc' = [pc EXCEPT ![p] = pc'[p]] /\ pc'[p] = "idle"
      /\ UNCHANGED <<server, gone, desktop, cookie, file, disk, dropped>>
    BY DEF Crash, Goto, envVars, Inv, TypeInv, TypeOK
<1> QED
    BY <1>1, RestOK, LocalSafe

\* What happens around the program can end the quiet but not begin it, and
\* makes a listing old only by way of a running Desktop.
LEMMA EnvironmentSafe ==
    ASSUME Inv, Environment
    PROVE  Safe'
<1>1. /\ disk \in State /\ cookie \in Nat /\ server \in [Convs -> Versions]
      /\ file \in [Convs -> File] /\ \A p \in Procs : job[p] \in Job
      /\ gone \subseteq Convs /\ \A p \in Procs : pc[p] \in Fetching => job[p].cur \in Convs
    BY DEF Inv, TypeInv, TypeOK, CurOK
<1>2. UNCHANGED <<file, disk, pc, job, dropped>>
    BY DEF Environment, OpenDesktop, CloseDesktop, FlushCookies, NextDay, Edit, Delete
<1>3. /\ cookie' \in Nat /\ cookie' >= cookie /\ server' \in [Convs -> Versions]
      /\ gone \subseteq gone' /\ \A c \in Convs : server'[c] >= server[c]
    BY <1>1, BoundAssumption
       DEF Environment, OpenDesktop, CloseDesktop, FlushCookies, NextDay, Edit, Delete
<1>4. ~desktop' => cookie' > cookie \/ (~desktop /\ UNCHANGED <<server, cookie>>)
    BY <1>1 DEF Environment, OpenDesktop, CloseDesktop, FlushCookies, NextDay, Edit, Delete
<1>5. Solo'
    BY <1>2 DEF Inv, Safe, Solo
<1>6. DiskOK'
    BY <1>1, <1>2, <1>3 DEF Inv, Safe, DiskOK, State
<1>7. FilesOK'
    <2> SUFFICES ASSUME NEW c \in Convs
                 PROVE  file[c].ver <= server'[c] /\ (file[c].whole <=> file[c].ver # 0)
        BY <1>2 DEF FilesOK
    <2>1. file[c].ver \in Nat /\ server[c] \in Nat /\ server'[c] \in Nat
        BY <1>1, <1>3, BoundAssumption DEF File
    <2> QED
        BY <1>3, <2>1 DEF Inv, Safe, FilesOK
<1>8. Quiet' => Quiet /\ UNCHANGED <<server, cookie>>
    BY <1>1, <1>2, <1>4 DEF Quiet, Inv, Safe, DiskOK, State
<1>9. QuietComplete'
    BY <1>2, <1>3, <1>8 DEF Inv, Safe, QuietComplete
<1>10. ASSUME NEW p \in Procs PROVE JobOK(p)'
    <2>1. JobOK(p)
        BY DEF Inv, Safe
    <2>2. MemOK(p)'
        BY <1>2, <2>1 DEF JobOK, MemOK
    <2>3. WokenOK(p)'
        BY <1>1, <1>2, <1>3, <1>8, <2>1 DEF JobOK, WokenOK, Quiet, Job
    <2>4. Unused(p)' /\ pc[p] \in Looping => Unused(p) /\ UNCHANGED <<server, cookie>>
        BY <1>1, <1>2, <1>4, <2>1 DEF JobOK, WokenOK, Quiet, Unused, Job
    <2>5. ASSUME NEW c \in Convs
          PROVE  /\ job[p].listed[c] <= server[c] => job[p].listed[c] <= server'[c]
                 /\ job[p].body <= server[c] => job[p].body <= server'[c]
        <3>1. /\ job[p].listed[c] \in Nat /\ job[p].body \in Nat
              /\ server[c] \in Nat /\ server'[c] \in Nat
            BY <1>1, <1>3, BoundAssumption DEF Job
        <3> QED
            BY <1>3, <3>1
    <2>6. ListingOK(p)'
        BY <1>2, <1>3, <2>1, <2>4, <2>5 DEF JobOK, ListingOK
    <2>7. DoneOK(p)'
        BY <1>2, <2>1 DEF JobOK, DoneOK
    <2>8. CurrentOK(p)'
        BY <1>1, <1>2, <1>3, <1>8, <2>1, <2>5 DEF JobOK, CurrentOK, Looping, Fetching
    <2> QED
        BY <2>2, <2>3, <2>6, <2>7, <2>8 DEF JobOK
<1> QED
    BY <1>5, <1>6, <1>7, <1>9, <1>10 DEF Safe

LEMMA StepSafe == Hypotheses /\ Inv /\ [Next]_vars => Safe'
<1> SUFFICES ASSUME Hypotheses, Inv, [Next]_vars PROVE Safe'
    OBVIOUS
<1>1. CASE UNCHANGED vars
    BY <1>1
       DEF vars, Inv, Safe, Solo, DiskOK, FilesOK, JobOK, MemOK, WokenOK, ListingOK, Unused,
           DoneOK, CurrentOK, QuietComplete, Quiet
<1>2. ASSUME NEW d \in Daemons, DaemonStep(d) PROVE Safe'
    BY <1>2, StartCycleSafe, TriggerSafe, HarvestStepSafe, SeedSafe, SaveSafe,
       CheckSurfacesSafe, RefreshSafe DEF DaemonStep
<1> QED
    BY <1>1, <1>2, OneShotStepSafe, CrashSafe, EnvironmentSafe DEF Next

LEMMA InitSafe == Init => Safe
<1> SUFFICES ASSUME Init PROVE Safe
    OBVIOUS
<1>1. \A p \in Procs : pc[p] = "idle" /\ JobOK(p)
    BY DEF Init, JobOK, MemOK, WokenOK, Quiet, ListingOK, DoneOK, CurrentOK, Looping, Fetching
<1>2. DiskOK /\ ~Quiet
    BY DEF Init, EmptyState, DiskOK, Quiet
<1>3. FilesOK
    BY DEF Init, NoFile, FilesOK
<1> QED
    BY <1>1, <1>2, <1>3 DEF Safe, Solo, QuietComplete

LEMMA InvHolds ==
    ASSUME Hypotheses
    PROVE  Spec => []Inv
<1>1. Init => Inv
    BY InitSafe, InitTypes DEF Inv, Init, TypeInv, CurOK, Fetching
<1>2. Inv /\ [Next]_vars => Inv'
    BY StepSafe, StepTypes DEF Inv
<1> QED
    BY <1>1, <1>2, PTL DEF Spec

\* For any number of daemons and one-shot harvests that take turns, any items
\* that fail or hang for ever and any crashes: when the daemon stops looking at the
\* account, what it owes is on disk.
THEOREM QuietIsComplete ==
    ASSUME Hypotheses
    PROVE  Spec => []QuietComplete
<1>1. Inv => QuietComplete
    BY DEF Inv, Safe
<1> QED
    BY <1>1, InvHolds, PTL

-----------------------------------------------------------------------------
(* What the loop promises, for instances that do not overlap *)

\* An export that exists and is not older than the listing is whole.
LEMMA NotOlderIsWhole ==
    ASSUME Inv, NEW p \in Procs, NEW c \in Convs, job[p].listed[c] # 0,
           file[c].ver >= job[p].listed[c]
    PROVE  file[c].whole
<1>1. file[c].ver \in Nat /\ job[p].listed[c] \in Nat
    BY BoundAssumption DEF Inv, TypeInv, TypeOK, File, Job
<1> QED
    BY <1>1 DEF Inv, Safe, FilesOK

\* One step of a one-shot harvest to the good exit status.
CleanExit ==
    \A h \in Harvesters : result[h] # "ok" /\ result'[h] = "ok" =>
        \A c \in Convs : job[h].listed[c] # 0 =>
            file[c].whole /\ file[c].ver >= job[h].listed[c]

LEMMA CleanExitStep == Inv /\ Next => CleanExit
<1> SUFFICES ASSUME Inv, Next, NEW h \in Harvesters, result[h] # "ok", result'[h] = "ok",
                    NEW c \in Convs, job[h].listed[c] # 0
             PROVE  file[c].whole /\ file[c].ver >= job[h].listed[c]
    BY DEF CleanExit
<1>1. /\ h \in Procs /\ h \notin Daemons /\ JobOK(h)
      /\ result \in [Harvesters -> {"none", "ok", "failed"}]
    BY ProcAssumption DEF Inv, TypeInv, TypeOK, Safe
<1>2. ASSUME NEW p \in Procs, HardError(p) PROVE FALSE
    BY <1>1, <1>2 DEF HardError
<1>3. ASSUME NEW p \in Procs, HarvestStep(p) PROVE FALSE
    BY <1>2, <1>3
       DEF HarvestStep, OpenSession, List, Skip, PickFetch, Fetch, FetchFails, FetchTimesOut,
           Truncate, Fill, Record
<1>4. ASSUME NEW d \in Daemons, DaemonStep(d) PROVE FALSE
    BY <1>3, <1>4 DEF DaemonStep, StartCycle, Trigger, Seed, Save, CheckSurfaces, Refresh
<1>5. ASSUME NEW p \in Procs, Crash(p) PROVE FALSE
    BY <1>1, <1>5 DEF Crash
<1>6. ~Environment
    BY DEF Environment, OpenDesktop, CloseDesktop, FlushCookies, NextDay, Edit, Delete
<1>7. PICK g \in Harvesters : OneShotStep(g)
    BY <1>4, <1>5, <1>6 DEF Next
<1>8. FinishHarvest(g)
    BY <1>1, <1>3, <1>7 DEF OneShotStep, StartHarvest
<1>9. g = h /\ pc[h] = "scan" /\ job[h].todo = {} /\ job[h].errs = {}
    BY <1>1, <1>8 DEF FinishHarvest
<1>10. file[c].ver >= job[h].listed[c]
    BY <1>1, <1>9 DEF JobOK, DoneOK, Looping
<1> QED
    BY <1>1, <1>10, NotOlderIsWhole

\* A one-shot harvest that reports success has exported every listed conversation
\* in full and at least as new as it was listed, for any number of instances that
\* take turns.
THEOREM CleanExitIsComplete ==
    ASSUME Hypotheses
    PROVE  Spec => CleanExitComplete
<1>1. Inv /\ [Next]_vars => [CleanExit]_vars
    BY CleanExitStep
<1>2. Spec => [][CleanExit]_vars
    BY <1>1, InvHolds, PTL DEF Spec
<1> QED
    BY <1>2 DEF CleanExitComplete, CleanExit

-----------------------------------------------------------------------------
(* What may be passed over, for instances that overlap or not *)

\* No instance leaves a file behind that has a header and not all of its content.
WholeFiles == \A c \in Convs : file[c].ver # 0 => file[c].whole

\* The hypotheses that overlapping instances leave.
NoTornFiles ==
    /\ "torn" \notin FaultKinds /\ "mixed" \notin FaultKinds
    /\ \A v, w \in Versions : Second[v] = Second[w] => v = w

LEMMA WholeFilesStep == NoTornFiles /\ TypeInv /\ WholeFiles /\ [Next]_vars => WholeFiles'
<1> SUFFICES ASSUME NoTornFiles, TypeInv, WholeFiles, [Next]_vars PROVE WholeFiles'
    OBVIOUS
<1>1. CASE UNCHANGED file
    BY <1>1 DEF WholeFiles
<1>2. ASSUME NEW p \in Procs, NEW f \in {NoFile, Whole(job[p].body)}, job[p].cur \in Convs,
             file' = [file EXCEPT ![job[p].cur] = f]
      PROVE  WholeFiles'
    BY <1>2 DEF WholeFiles, NoFile, Whole, TypeInv, TypeOK
<1>3. ASSUME NEW p \in Procs, Truncate(p) PROVE WholeFiles'
    <2>1. job[p].cur \in Convs
        BY <1>3 DEF Truncate, TypeInv, CurOK, Fetching
    <2>2. (file' = [file EXCEPT ![job[p].cur] = NoFile]) \/ UNCHANGED file
        BY <1>3 DEF Truncate
    <2> QED
        BY <1>1, <1>2, <2>1, <2>2
<1>4. ASSUME NEW p \in Procs, Fill(p) PROVE WholeFiles'
    <2>1. job[p].cur \in Convs
        BY <1>4 DEF Fill, TypeInv, CurOK, Fetching
    <2>2. ~Fault("torn") /\ ~Fault("mixed")
        BY DEF Fault, NoTornFiles
    <2>3. \/ file' = [file EXCEPT ![job[p].cur] = NoFile]
          \/ file' = [file EXCEPT ![job[p].cur] = Whole(job[p].body)]
        BY <1>4, <2>2 DEF Fill
    <2> QED
        BY <1>2, <2>1, <2>3
<1>5. ASSUME NEW p \in Procs, HarvestStep(p) PROVE WholeFiles'
    BY <1>1, <1>3, <1>4, <1>5
       DEF HarvestStep, OpenSession, List, Skip, PickFetch, Fetch, FetchFails, FetchTimesOut, Record
<1>6. ASSUME NEW d \in Daemons, DaemonStep(d) PROVE WholeFiles'
    BY <1>1, <1>5, <1>6 DEF DaemonStep, StartCycle, Trigger, Seed, Save, CheckSurfaces, Refresh
<1>7. ASSUME NEW h \in Harvesters, OneShotStep(h) PROVE WholeFiles'
    BY <1>1, <1>5, <1>7 DEF OneShotStep, StartHarvest, FinishHarvest
<1>8. ASSUME Environment \/ \E p \in Procs : Crash(p) PROVE WholeFiles'
    BY <1>1, <1>8
       DEF Environment, Crash, OpenDesktop, CloseDesktop, FlushCookies, NextDay, Edit, Delete
<1> QED
    BY <1>1, <1>6, <1>7, <1>8 DEF Next, vars

\* One decision of one loop.
Decision ==
    \A p \in Procs : pc[p] = "scan" /\ pc'[p] = "scan" =>
        \A c \in job[p].todo \ job'[p].todo :
            file[c].whole /\ file[c].ver >= job[p].listed[c]

\* A loop that stays a loop has passed over or adopted what it no longer has to
\* do, and then the file's header named the listed second.
LEMMA DecisionStep == NoTornFiles /\ TypeInv /\ WholeFiles /\ Next => Decision
<1> SUFFICES ASSUME NoTornFiles, TypeInv, WholeFiles, Next,
                    NEW p \in Procs, pc[p] = "scan", pc'[p] = "scan",
                    NEW c \in job[p].todo \ job'[p].todo
             PROVE  file[c].whole /\ file[c].ver >= job[p].listed[c]
    BY DEF Decision
<1>1. /\ job \in [Procs -> Job] /\ pc \in [Procs -> PCs] /\ job[p] \in Job
      /\ c \in Convs /\ file[c] \in File
    BY DEF TypeInv, TypeOK, Job
<1>2. HeaderMatches(c, job[p].listed[c]) => file[c].whole /\ file[c].ver >= job[p].listed[c]
    <2>1. file[c].ver \in Versions /\ job[p].listed[c] \in Versions
        BY <1>1 DEF File, Job
    <2> QED
        BY <1>1, <2>1 DEF HeaderMatches, NoTornFiles, WholeFiles
<1>3. ASSUME NEW q \in Procs, q # p, \A r \in Procs : r # q => job'[r] = job[r] PROVE FALSE
    BY <1>3
<1>4. ASSUME NEW q \in Procs, ItemFails(q) \/ HardError(q) \/ EndJob(q)
      PROVE  \A r \in Procs : r # q => job'[r] = job[r]
    BY <1>1, <1>4 DEF ItemFails, HardError, EndJob
<1>5. ASSUME NEW q \in Procs, HarvestStep(q) PROVE Skip(p)
    <2>1. \A r \in Procs : r # q => job'[r] = job[r]
        BY <1>1, <1>4, <1>5
           DEF HarvestStep, OpenSession, List, Skip, PickFetch, Fetch, FetchFails, FetchTimesOut,
               Truncate, Fill, Record
    <2>2. q = p
        BY <1>3, <2>1
    <2> QED
        BY <1>1, <1>5, <2>2
           DEF HarvestStep, OpenSession, List, PickFetch, Fetch, FetchFails, FetchTimesOut,
               Truncate, Fill, Record, Goto
<1>6. CASE Skip(p)
    <2>1. PICK e \in job[p].todo : SkipsAt(p, e) /\ job' = [job EXCEPT ![p].todo = @ \ {e}]
        BY <1>6 DEF Skip
    <2>2. job'[p].todo = job[p].todo \ {e}
        BY <1>1, <2>1 DEF Job
    <2> QED
        BY <1>2, <2>1, <2>2 DEF SkipsAt
<1>7. ASSUME NEW d \in Daemons, Seed(d)
      PROVE  file[c].whole /\ file[c].ver >= job[p].listed[c]
    <2>1. PICK e \in job[d].todo :
             /\ SeedsAt(d, e)
             /\ job' = [job EXCEPT ![d].todo = @ \ {e}, ![d].mem.known[e] = job[d].listed[e]]
        BY <1>7 DEF Seed
    <2>2. d = p
        BY <1>1, <1>3, <2>1
    <2>3. job'[p].todo = job[p].todo \ {e}
        BY <1>1, <2>1, <2>2 DEF Job
    <2> QED
        BY <1>2, <2>1, <2>2, <2>3 DEF SeedsAt
<1>8. ASSUME NEW d \in Daemons, DaemonStep(d)
      PROVE  file[c].whole /\ file[c].ver >= job[p].listed[c]
    <2>1. CASE HarvestStep(d) \/ Seed(d)
        BY <1>5, <1>6, <1>7, <2>1
    <2>2. CASE StartCycle(d) \/ Trigger(d) \/ Save(d) \/ CheckSurfaces(d) \/ Refresh(d)
        <3>1. \A r \in Procs : r # d => job'[r] = job[r]
            BY <1>1, <1>4, <2>2
               DEF StartCycle, Trigger, Save, CheckSurfaces, Refresh, LoadState
        <3>2. d = p
            BY <1>3, <3>1
        <3> QED
            BY <1>1, <2>2, <3>2 DEF StartCycle, MayStart, Trigger, Save, CheckSurfaces, Refresh, Goto
    <2> QED
        BY <1>8, <2>1, <2>2 DEF DaemonStep
<1>9. ASSUME NEW h \in Harvesters, OneShotStep(h)
      PROVE  file[c].whole /\ file[c].ver >= job[p].listed[c]
    <2>1. CASE HarvestStep(h)
        BY <1>5, <1>6, <2>1
    <2>2. CASE StartHarvest(h) \/ FinishHarvest(h)
        <3>1. \A r \in Procs : r # h => job'[r] = job[r]
            BY <1>1, <1>4, <2>2 DEF StartHarvest, FinishHarvest
        <3>2. h = p
            BY <1>3, <3>1
        <3> QED
            BY <1>1, <2>2, <3>2 DEF StartHarvest, MayStart, FinishHarvest, Goto
    <2> QED
        BY <1>9, <2>1, <2>2 DEF OneShotStep
<1>10. ASSUME NEW q \in Procs, Crash(q) PROVE FALSE
    <2>1. q = p
        BY <1>3, <1>4, <1>10 DEF Crash
    <2> QED
        BY <1>1, <1>10, <2>1 DEF Crash, Goto
<1>11. ~Environment
    BY DEF Environment, OpenDesktop, CloseDesktop, FlushCookies, NextDay, Edit, Delete
<1> QED
    BY <1>8, <1>9, <1>10, <1>11 DEF Next

\* For any number of daemons and one-shot harvests at work at the same time: what
\* a loop passes over or adopts without a download is a complete export, at least
\* as new as it was listed.
THEOREM DecisionsAreSound ==
    ASSUME NoTornFiles
    PROVE  Spec => DecisionsSound
<1>1. Init => TypeInv /\ WholeFiles
    BY InitTypes DEF Init, TypeInv, CurOK, Fetching, WholeFiles, NoFile
<1>2. TypeInv /\ WholeFiles /\ [Next]_vars => (TypeInv /\ WholeFiles)'
    BY StepTypes, WholeFilesStep
<1>3. TypeInv /\ WholeFiles /\ [Next]_vars => [Decision]_vars
    BY DecisionStep
<1>4. Spec => [][Decision]_vars
    BY <1>1, <1>2, <1>3, PTL DEF Spec
<1> QED
    BY <1>4 DEF DecisionsSound, Decision

-----------------------------------------------------------------------------
(* The engine implements the mirror, for instances that take turns *)

\* Every initial state of the engine is one of the mirror.
LEMMA MirrorInit == Init => M!Init
<1> SUFFICES ASSUME Init PROVE M!Init
    OBVIOUS
<1>1. server \in [Convs -> Nat] /\ gone \subseteq Convs /\ dropped \subseteq Convs
    BY BoundAssumption DEF Init
<1>2. CompleteCopy = [c \in Convs |-> 0] /\ Quiet = FALSE
    BY DEF Init, CompleteCopy, NoFile, EmptyState, Quiet
<1> QED
    BY <1>1, <1>2 DEF M!Init, Excused

\* A step that leaves the account and the files alone can only make, keep or
\* withdraw the claim, and makes it of a complete copy.
LEMMA MirrorSettle ==
    ASSUME UNCHANGED <<server, file>>, QuietComplete', TypeInv'
    PROVE  M!Settle
<1>1. CompleteCopy' = CompleteCopy /\ server' = server
    BY DEF CompleteCopy
<1>2. Quiet' \in BOOLEAN
    BY DEF Quiet, TypeInv, TypeOK, State
<1>3. ASSUME Quiet', NEW c \in Convs, c \notin Excused', server[c] # 0
      PROVE  CompleteCopy[c] = server[c]
    <2>1. c \notin dropped' \cup gone' \cup Tiny
        BY <1>3 DEF Excused
    <2>2. file[c] = Whole(server[c])
        BY <1>3, <2>1 DEF QuietComplete
    <2> QED
        BY <1>3, <2>2 DEF CompleteCopy, Whole
<1> QED
    BY <1>1, <1>2, <1>3 DEF M!Settle, M!Complete, Excused, TypeInv, TypeOK

\* Writing the conversation in hand replaces its copy, which the claim does not cover.
LEMMA MirrorReplace ==
    ASSUME Inv, NEW p \in Procs, pc[p] \in {"write", "fill"},
           UNCHANGED <<server, gone, desktop, cookie, disk, dropped>>,
           NEW f \in {NoFile, Whole(job[p].body)},
           file' = [file EXCEPT ![job[p].cur] = f]
    PROVE  M!Next
<1> DEFINE c == job[p].cur
<1>1. /\ job[p] \in Job /\ c \in Convs /\ file \in [Convs -> File]
      /\ server \in [Convs -> Versions]
    BY DEF Inv, TypeInv, TypeOK, CurOK, Fetching
<1>2. job[p].body \in 0 .. server[c]
    BY <1>1, BoundAssumption DEF Inv, Safe, JobOK, CurrentOK, Job
<1>3. Quiet' = Quiet /\ Excused' = Excused
    BY DEF Quiet, Excused
<1>4. Quiet => c \in Excused
    BY <1>1, WokenNotQuiet DEF Inv, Safe, JobOK, CurrentOK, Looping, Fetching, Excused
<1>5. CompleteCopy'[c] \in 0 .. server[c]
    BY <1>1, <1>2 DEF CompleteCopy, NoFile, Whole
<1>6. CompleteCopy' = [CompleteCopy EXCEPT ![c] = CompleteCopy'[c]]
    BY <1>1 DEF CompleteCopy
<1>7. M!Replace(c)
    BY <1>3, <1>4, <1>5, <1>6 DEF M!Replace
<1> QED
    BY <1>1, <1>7 DEF M!Next

\* An edit happens while Desktop runs, and then nothing is claimed.
LEMMA MirrorEdit ==
    ASSUME TypeInv, NEW c \in Convs, Edit(c)
    PROVE  M!Next
<1>1. server \in [Convs -> Versions] /\ server[c] \in Nat
    BY BoundAssumption DEF TypeInv, TypeOK
<1>2. /\ server'[c] = server[c] + 1 /\ server' = [server EXCEPT ![c] = server'[c]]
      /\ Quiet = FALSE /\ Quiet' = Quiet
    BY <1>1 DEF Edit, Quiet
<1>3. CompleteCopy' = CompleteCopy /\ Excused' = Excused
    BY DEF Edit, CompleteCopy, Excused
<1>4. M!Edit(c)
    BY <1>1, <1>2, <1>3 DEF M!Edit
<1> QED
    BY <1>4 DEF M!Next

\* Every step of the engine is a step of the mirror.
LEMMA MirrorStep == Hypotheses /\ Inv /\ Inv' /\ Next => M!Next
<1> SUFFICES ASSUME Hypotheses, Inv, Inv', Next PROVE M!Next
    OBVIOUS
<1>1. CASE UNCHANGED <<server, file>>
    BY <1>1, MirrorSettle DEF M!Next, Inv, Safe
<1>2. ASSUME NEW p \in Procs, Truncate(p), ~UNCHANGED <<server, file>> PROVE M!Next
    BY <1>2, MirrorReplace DEF Truncate, envVars
<1>3. ASSUME NEW p \in Procs, Fill(p), ~UNCHANGED <<server, file>> PROVE M!Next
    <2>1. ~Fault("torn")
        BY DEF Fault, Hypotheses
    <2>2. file[job[p].cur].ver = 0
        BY <1>3 DEF Fill, Inv, Safe, JobOK, CurrentOK, NoFile
    <2> QED
        BY <1>3, <2>1, <2>2, MirrorReplace DEF Fill, envVars
<1>4. ASSUME NEW p \in Procs, HarvestStep(p), ~UNCHANGED <<server, file>> PROVE M!Next
    BY <1>2, <1>3, <1>4
       DEF HarvestStep, OpenSession, List, Skip, PickFetch, Fetch, FetchFails, FetchTimesOut,
           Record, envVars
<1>5. ASSUME NEW d \in Daemons, DaemonStep(d), ~UNCHANGED <<server, file>> PROVE M!Next
    BY <1>4, <1>5
       DEF DaemonStep, StartCycle, Trigger, Seed, Save, CheckSurfaces, Refresh, envVars
<1>6. ASSUME NEW h \in Harvesters, OneShotStep(h), ~UNCHANGED <<server, file>> PROVE M!Next
    BY <1>4, <1>6 DEF OneShotStep, StartHarvest, FinishHarvest, envVars
<1>7. ASSUME NEW p \in Procs, Crash(p) PROVE UNCHANGED <<server, file>>
    BY <1>7 DEF Crash, envVars
<1>8. CASE Environment
    <2>1. CASE \E c \in Convs : Edit(c)
        BY <2>1, MirrorEdit DEF Inv
    <2>2. CASE ~\E c \in Convs : Edit(c)
        BY <1>1, <1>8, <2>2
           DEF Environment, OpenDesktop, CloseDesktop, FlushCookies, NextDay, Delete
    <2> QED
        BY <2>1, <2>2
<1> QED
    BY <1>1, <1>5, <1>6, <1>7, <1>8 DEF Next

\* For any number of daemons and one-shot harvests that take turns, any faults and
\* crashes: what the engine does to the directory and claims of it is what the
\* mirror allows.
THEOREM EngineIsMirror ==
    ASSUME Hypotheses
    PROVE  Spec => ImplementsMirror
<1>1. Inv /\ Inv' /\ [Next]_vars => [M!Next]_(M!mirrorVars)
    <2>1. UNCHANGED vars => UNCHANGED M!mirrorVars
        BY DEF vars, M!mirrorVars, CompleteCopy, Excused, Quiet
    <2> QED
        BY <2>1, MirrorStep
<1> QED
    BY <1>1, InvHolds, MirrorInit, PTL DEF Spec, ImplementsMirror, M!Spec

-----------------------------------------------------------------------------
(* EveryCycleCounts, for instances that do not overlap *)

\* The hypotheses of this part: instances take turns, and the state can be read.
Turns == ~Overlap /\ "load" \notin FaultKinds

\* What is saved is of the past.
Past == DiskOK /\ \A c \in Convs : disk.known[c] <= server[c]

Working == {"loaded", "open", "list", "refresh"} \cup Looping

\* A working daemon's copy of the state is the saved one, and may know more.
CopyOK(d) ==
    /\ pc[d] \in Working =>
          /\ job[d].mem = [disk EXCEPT !.known = job[d].mem.known]
          /\ \A c \in Convs : /\ disk.known[c] <= job[d].mem.known[c]
                              /\ job[d].mem.known[c] <= server[c]
    /\ pc[d] = "refresh" => job[d].mem = disk

\* It harvests for a cookie time newer than the saved one.
DueOK(d) ==
    pc[d] \in {"open", "list"} \cup Looping =>
        job[d].mod <= cookie /\ (disk.synced => disk.lastCookie < job[d].mod)

\* What it knows is no newer than the listing, and progress is something it has learnt.
NewsOK(d) ==
    /\ pc[d] \in Looping =>
          /\ \A c \in Convs : job[d].listed[c] <= server[c]
          /\ \A c \in Convs : job[d].listed[c] # 0 => job[d].mem.known[c] <= job[d].listed[c]
          /\ \A c \in job[d].todo : job[d].listed[c] # 0
          /\ pc[d] \in Fetching => job[d].cur \in job[d].todo
    /\ pc[d] \in Working /\ job[d].prog => \E c \in Convs : disk.known[c] < job[d].mem.known[c]

LedgerOK(d) == CopyOK(d) /\ DueOK(d) /\ NewsOK(d)
Ledger == TypeInv /\ Solo /\ Past /\ \A d \in Daemons : LedgerOK(d)

\* The types the steps below need of a daemon.
LEMMA DaemonTypes ==
    ASSUME TypeInv, NEW d \in Daemons
    PROVE  /\ d \in Procs /\ job \in [Procs -> Job] /\ pc \in [Procs -> PCs]
           /\ job[d] \in Job /\ job[d].mem \in State /\ disk \in State
           /\ cookie \in Nat /\ day \in Nat /\ server \in [Convs -> Versions]
           /\ job[d].mem.known \in [Convs -> Versions] /\ job[d].listed \in [Convs -> Versions]
           /\ disk.known \in [Convs -> Versions] /\ job[d].mod \in Nat
           /\ disk.lastCookie \in Nat /\ disk.retries \in Nat
           /\ job[d].todo \in SUBSET Convs /\ job[d].prog \in BOOLEAN
           /\ Versions \subseteq Nat
<1>1. d \in Procs /\ job[d] \in Job /\ disk \in State
    BY DEF TypeInv, TypeOK
<1> QED
    BY <1>1 DEF TypeInv, TypeOK, Job, State

\* A step of one instance; the others rest.
LEMMA OneMoves ==
    ASSUME TypeInv, Solo, NEW p \in Procs,
           pc[p] # "idle" \/ \A q \in Procs : pc[q] = "idle",
           pc' = [pc EXCEPT ![p] = pc'[p]]
    PROVE  Solo' /\ \A d \in Daemons : d # p => LedgerOK(d)'
<1>1. \A q \in Procs : q # p => pc'[q] = "idle"
    BY DEF TypeInv, TypeOK, Solo
<1>2. Solo'
    BY <1>1 DEF Solo
<1>3. ASSUME NEW d \in Daemons, d # p PROVE LedgerOK(d)'
    <2>1. pc'[d] = "idle"
        BY <1>1, <1>3
    <2> QED
        BY <2>1 DEF LedgerOK, CopyOK, DueOK, NewsOK, Working, Looping, Fetching
<1> QED
    BY <1>2, <1>3

\* Between its harvests nothing is claimed of a daemon.
LEMMA RestLedger ==
    ASSUME NEW d \in Daemons, pc'[d] \in {"idle", "surfaces"}
    PROVE  LedgerOK(d)'
BY DEF LedgerOK, CopyOK, DueOK, NewsOK, Working, Looping, Fetching

\* In the loop, the list of what is left gets shorter.
LEMMA LoopLedger ==
    ASSUME Ledger, NEW d \in Daemons, pc[d] \in Looping, pc'[d] \in Looping,
           UNCHANGED <<server, cookie, disk>>,
           job'[d].mem = job[d].mem, job'[d].mod = job[d].mod,
           job'[d].listed = job[d].listed, job'[d].prog = job[d].prog,
           job'[d].todo \subseteq job[d].todo,
           pc'[d] \in Fetching => job'[d].cur \in job'[d].todo
    PROVE  LedgerOK(d)'
<1>1. LedgerOK(d)
    BY DEF Ledger
<1>2. pc[d] # "refresh" /\ pc'[d] # "refresh" /\ pc[d] \in Working
    BY DEF Looping, Fetching, Working
<1>3. CopyOK(d)'
    BY <1>1, <1>2 DEF LedgerOK, CopyOK
<1>4. DueOK(d)'
    BY <1>1 DEF LedgerOK, DueOK
<1>5. NewsOK(d)'
    BY <1>1, <1>2 DEF LedgerOK, NewsOK
<1> QED
    BY <1>3, <1>4, <1>5 DEF LedgerOK

\* The version of a conversation on the list becomes a known one.
LEMMA LearnLedger ==
    ASSUME Ledger, NEW d \in Daemons, pc[d] \in Looping, pc'[d] = "scan",
           UNCHANGED <<server, cookie, disk>>,
           NEW c \in job[d].todo,
           job'[d].mem = [job[d].mem EXCEPT !.known[c] = job[d].listed[c]],
           job'[d].mod = job[d].mod, job'[d].listed = job[d].listed,
           job'[d].todo \subseteq job[d].todo,
           job'[d].prog => job[d].prog \/ job[d].mem.known[c] # job[d].listed[c]
    PROVE  LedgerOK(d)'
<1> DEFINE old == job[d].mem.known
           new == job'[d].mem.known
           seen == job[d].listed
<1>1. LedgerOK(d) /\ pc[d] \in Working /\ pc'[d] # "refresh" /\ pc'[d] \notin Fetching
    BY DEF Ledger, Looping, Fetching, Working
<1>2. /\ old \in [Convs -> Versions] /\ seen \in [Convs -> Versions]
      /\ disk.known \in [Convs -> Versions] /\ server \in [Convs -> Versions]
      /\ Versions \subseteq Nat /\ c \in Convs /\ job[d].mem \in State
    BY DaemonTypes DEF Ledger
<1>3. new = [old EXCEPT ![c] = seen[c]] /\ job'[d].mem = [job[d].mem EXCEPT !.known = new]
    BY <1>2 DEF State
<1>4. job'[d].mem = [disk EXCEPT !.known = new]
    BY <1>1, <1>2, <1>3 DEF LedgerOK, CopyOK, State
<1>5. old[c] <= seen[c] /\ seen[c] <= server[c]
    BY <1>1, <1>2 DEF LedgerOK, NewsOK
<1>6. \A e \in Convs : /\ disk.known[e] <= old[e] /\ old[e] <= server[e]
    BY <1>1 DEF LedgerOK, CopyOK
<1>7. \A e \in Convs : seen[e] <= server[e] /\ (seen[e] # 0 => old[e] <= seen[e])
    BY <1>1 DEF LedgerOK, NewsOK
<1>8. job[d].prog => \E e \in Convs : disk.known[e] < old[e]
    BY <1>1 DEF LedgerOK, NewsOK
<1>9. DueOK(d)'
    BY <1>1 DEF LedgerOK, DueOK, Looping
<1>10. \A e \in job'[d].todo : seen[e] # 0
    BY <1>1 DEF LedgerOK, NewsOK
<1> HIDE DEF old, new, seen
<1>11. \A e \in Convs : old[e] <= new[e] /\ disk.known[e] <= new[e] /\ new[e] <= server[e]
    BY <1>2, <1>3, <1>5, <1>6
<1>12. CopyOK(d)'
    BY <1>1, <1>4, <1>11 DEF CopyOK, new
<1>13. \A e \in Convs : seen[e] # 0 => new[e] <= seen[e]
    BY <1>2, <1>3, <1>7
<1>14. job'[d].prog => \E e \in Convs : disk.known[e] < new[e]
    <2>1. CASE job[d].prog
        <3>1. PICK e \in Convs : disk.known[e] < old[e]
            BY <1>8, <2>1
        <3>2. old[e] <= new[e] /\ new[e] \in Nat /\ old[e] \in Nat /\ disk.known[e] \in Nat
            BY <1>2, <1>3, <1>11
        <3> QED
            BY <3>1, <3>2
    <2>2. CASE old[c] # seen[c]
        <3>1. disk.known[c] < new[c]
            BY <1>2, <1>3, <1>5, <1>6, <2>2
        <3> QED
            BY <1>2, <3>1
    <2> QED
        BY <2>1, <2>2 DEF old, seen
<1>15. NewsOK(d)'
    BY <1>1, <1>7, <1>10, <1>13, <1>14 DEF NewsOK, new, seen
<1> QED
    BY <1>9, <1>12, <1>15 DEF LedgerOK

\* The steps of the loop that learn nothing.
LEMMA LoopSteps ==
    ASSUME Ledger, NEW d \in Daemons,
           Skip(d) \/ PickFetch(d) \/ Fetch(d) \/ FetchFails(d) \/ Truncate(d) \/ Fill(d)
    PROVE  LedgerOK(d)'
<1> DEFINE j == job[d]
           k == job'[d]
<1>1. /\ d \in Procs /\ job \in [Procs -> Job] /\ pc \in [Procs -> PCs] /\ j \in Job
      /\ j.todo \in SUBSET Convs /\ (pc[d] \in Fetching => j.cur \in Convs)
    BY DaemonTypes DEF Ledger, TypeInv, CurOK
<1>2. UNCHANGED <<server, cookie, disk>>
    BY DEF Skip, PickFetch, Fetch, FetchFails, Truncate, Fill, envVars
<1>3. pc[d] \in Fetching => j.cur \in j.todo
    BY DEF Ledger, LedgerOK, NewsOK, Looping
<1>4. ASSUME ItemFails(d), pc[d] \in Fetching PROVE LedgerOK(d)'
    <2>1. k = [j EXCEPT !.errs = @ \cup {j.cur}, !.todo = @ \ {j.cur}, !.cur = None, !.body = 0]
        BY <1>1, <1>4 DEF ItemFails
    <2>2. pc'[d] = "scan"
        BY <1>1, <1>4 DEF ItemFails, Goto
    <2>3. k.mem = j.mem /\ k.mod = j.mod /\ k.listed = j.listed /\ k.prog = j.prog
          /\ k.todo \subseteq j.todo
        BY <1>1, <2>1 DEF Job
    <2> QED
        BY <1>2, <1>4, <2>2, <2>3, LoopLedger DEF Looping, Fetching
<1>5. CASE Skip(d)
    <2>1. PICK c \in j.todo : job' = [job EXCEPT ![d].todo = @ \ {c}]
        BY <1>5 DEF Skip
    <2>2. k = [j EXCEPT !.todo = @ \ {c}] /\ pc'[d] = "scan" /\ pc[d] = "scan"
        BY <1>1, <1>5, <2>1 DEF Skip
    <2>3. k.mem = j.mem /\ k.mod = j.mod /\ k.listed = j.listed /\ k.prog = j.prog
          /\ k.todo \subseteq j.todo
        BY <1>1, <2>2 DEF Job
    <2> QED
        BY <1>2, <2>2, <2>3, LoopLedger DEF Looping, Fetching
<1>6. CASE PickFetch(d)
    <2>1. PICK c \in j.todo : job' = [job EXCEPT ![d].cur = c]
        BY <1>6 DEF PickFetch
    <2>2. k = [j EXCEPT !.cur = c] /\ pc'[d] = "fetch" /\ pc[d] = "scan"
        BY <1>1, <1>6, <2>1 DEF PickFetch, Goto
    <2>3. k.mem = j.mem /\ k.mod = j.mod /\ k.listed = j.listed /\ k.prog = j.prog
          /\ k.todo = j.todo /\ k.cur = c
        BY <1>1, <2>2 DEF Job
    <2> QED
        BY <1>2, <2>1, <2>2, <2>3, LoopLedger DEF Looping, Fetching
<1>7. CASE Fetch(d)
    <2>1. k = [j EXCEPT !.body = server[j.cur]] /\ pc'[d] = "write" /\ pc[d] = "fetch"
        BY <1>1, <1>7 DEF Fetch, Goto
    <2>2. k.mem = j.mem /\ k.mod = j.mod /\ k.listed = j.listed /\ k.prog = j.prog
          /\ k.todo = j.todo /\ k.cur = j.cur
        BY <1>1, <2>1 DEF Job
    <2> QED
        BY <1>2, <1>3, <2>1, <2>2, LoopLedger DEF Looping, Fetching
<1>8. CASE FetchFails(d)
    BY <1>4, <1>8 DEF FetchFails, Fetching
<1>9. CASE (Truncate(d) \/ Fill(d)) /\ UNCHANGED job /\ pc'[d] \in {"fill", "hash"}
    <2>1. pc[d] \in Fetching /\ pc'[d] \in Fetching
        BY <1>9 DEF Truncate, Fill, Fetching
    <2> QED
        BY <1>2, <1>3, <1>9, <2>1, LoopLedger DEF Looping
<1>10. CASE (Truncate(d) \/ Fill(d)) /\ ItemFails(d)
    BY <1>4, <1>10 DEF Truncate, Fill, Fetching
<1> QED
    BY <1>1, <1>5, <1>6, <1>7, <1>8, <1>9, <1>10 DEF Truncate, Fill, Goto

\* Seeding and downloading tell the daemon a version.
LEMMA LearnSteps ==
    ASSUME Ledger, NEW d \in Daemons, Seed(d) \/ Record(d)
    PROVE  LedgerOK(d)'
<1> DEFINE j == job[d]
           k == job'[d]
<1>1. /\ d \in Procs /\ job \in [Procs -> Job] /\ pc \in [Procs -> PCs] /\ j \in Job
      /\ j.todo \in SUBSET Convs /\ (pc[d] \in Fetching => j.cur \in Convs) /\ j.mem \in State
    BY DaemonTypes DEF Ledger, TypeInv, CurOK
<1>2. UNCHANGED <<server, cookie, disk>>
    BY DEF Seed, Record, envVars
<1>3. CASE Seed(d)
    <2>1. PICK c \in j.todo :
              job' = [job EXCEPT ![d].todo = @ \ {c}, ![d].mem.known[c] = j.listed[c]]
        BY <1>3 DEF Seed
    <2>2. k = [j EXCEPT !.todo = @ \ {c}, !.mem.known[c] = j.listed[c]]
        BY <1>1, <2>1
    <2>3. k.mem = [j.mem EXCEPT !.known[c] = j.listed[c]] /\ k.mod = j.mod
          /\ k.listed = j.listed /\ k.prog = j.prog /\ k.todo \subseteq j.todo
        BY <1>1, <2>2 DEF Job
    <2>4. pc[d] = "scan" /\ pc'[d] = "scan"
        BY <1>3 DEF Seed
    <2> QED
        BY <1>2, <2>1, <2>3, <2>4, LearnLedger DEF Looping
<1>4. CASE Record(d)
    <2>1. pc[d] = "hash" /\ pc'[d] = "scan"
        BY <1>1, <1>4 DEF Record, Goto
    <2>2. j.cur \in j.todo
        BY <2>1 DEF Ledger, LedgerOK, NewsOK, Looping, Fetching
    <2> DEFINE done == [j EXCEPT !.todo = @ \ {j.cur}, !.cur = None, !.body = 0]
    <2>3. k = [done EXCEPT !.prog = @ \/ MovesState(j), !.mem.known[j.cur] = j.listed[j.cur]]
        BY <1>1, <1>4 DEF Record
    <2>4. /\ done.mem = j.mem /\ done.mod = j.mod /\ done.listed = j.listed
          /\ done.prog = j.prog /\ done.todo = j.todo \ {j.cur}
        BY <1>1 DEF Job
    <2>5. k.mem = [j.mem EXCEPT !.known[j.cur] = j.listed[j.cur]] /\ k.mod = j.mod
          /\ k.listed = j.listed /\ k.prog = (j.prog \/ MovesState(j)) /\ k.todo \subseteq j.todo
        BY <1>1, <2>3 DEF Job
    <2>6. k.prog => j.prog \/ j.mem.known[j.cur] # j.listed[j.cur]
        BY <2>5 DEF MovesState
    <2> QED
        BY <1>2, <2>1, <2>2, <2>5, <2>6, LearnLedger DEF Looping, Fetching
<1> QED
    BY <1>3, <1>4

\* A cycle begins with what is saved.
LEMMA BeginSteps ==
    ASSUME Ledger, Turns, NEW d \in Daemons,
           StartCycle(d) \/ CheckSurfaces(d) \/ Trigger(d) \/ OpenSession(d) \/ List(d) \/ FetchTimesOut(d)
    PROVE  LedgerOK(d)'
<1> DEFINE j == job[d]
           k == job'[d]
<1>1. /\ d \in Procs /\ job \in [Procs -> Job] /\ pc \in [Procs -> PCs] /\ j \in Job /\ j.mem \in State
      /\ disk \in State /\ disk.known \in [Convs -> Versions] /\ Versions \subseteq Nat
      /\ NoJob \in Job /\ NoJob.prog = FALSE
    BY DaemonTypes, ConstantTypes DEF Ledger, NoJob
<1>2. UNCHANGED <<server, cookie, disk>>
    BY DEF StartCycle, CheckSurfaces, Trigger, OpenSession, List, FetchTimesOut, envVars
<1>3. LedgerOK(d) /\ Past
    BY DEF Ledger
<1>4. ASSUME HardError(d) PROVE LedgerOK(d)'
    <2>1. pc'[d] = "surfaces"
        BY <1>1, <1>4 DEF HardError, Goto
    <2> QED
        BY <2>1, RestLedger
<1>5. CASE StartCycle(d) \/ CheckSurfaces(d)
    <2>1. job' = [job EXCEPT ![d] = [NoJob EXCEPT !.mem = disk]]
        BY <1>5 DEF StartCycle, CheckSurfaces, LoadState, Turns, Fault
    <2>2. k.mem = disk /\ k.prog = FALSE
        BY <1>1, <2>1 DEF Job
    <2>3. pc'[d] \in {"loaded", "refresh", "idle"}
        BY <1>1, <1>5 DEF StartCycle, CheckSurfaces, Goto
    <2>4. k.mem = [disk EXCEPT !.known = k.mem.known]
        BY <1>1, <2>2 DEF State
    <2>5. \A c \in Convs : disk.known[c] <= disk.known[c] /\ disk.known[c] <= server[c]
        BY <1>1, <1>3 DEF Past
    <2>6. CopyOK(d)'
        BY <1>2, <2>2, <2>4, <2>5 DEF CopyOK
    <2>7. DueOK(d)' /\ NewsOK(d)'
        BY <2>2, <2>3 DEF DueOK, NewsOK, Looping, Fetching
    <2> QED
        BY <2>6, <2>7 DEF LedgerOK
<1>6. CASE Trigger(d)
    <2>1. pc[d] = "loaded" /\ k.mod = cookie /\ k.mem = j.mem /\ k.prog = j.prog
          /\ pc'[d] \in {"open", "surfaces"} /\ pc[d] \in Working
        BY <1>1, <1>6 DEF Trigger, Goto, Job, Working
    <2>2. CASE pc'[d] = "surfaces"
        BY <2>2, RestLedger
    <2>3. CASE pc'[d] = "open"
        <3>1. disk.synced = j.mem.synced /\ disk.lastCookie = j.mem.lastCookie
            BY <1>1, <1>3, <2>1 DEF LedgerOK, CopyOK, State
        <3>2. j.mem.synced => cookie # j.mem.lastCookie
            BY <1>1, <1>6, <2>3 DEF Trigger, Goto
        <3>3. disk.lastCookie <= cookie /\ disk.lastCookie \in Nat /\ cookie \in Nat
            BY <1>3, DaemonTypes DEF Past, DiskOK, Ledger
        <3>4. DueOK(d)'
            BY <1>2, <2>1, <3>1, <3>2, <3>3 DEF DueOK
        <3>5. CopyOK(d)' /\ NewsOK(d)'
            BY <1>2, <1>3, <2>1, <2>3 DEF LedgerOK, CopyOK, NewsOK, Looping, Fetching
        <3> QED
            BY <3>4, <3>5 DEF LedgerOK
    <2> QED
        BY <2>1, <2>2, <2>3
<1>7. CASE OpenSession(d) /\ UNCHANGED job /\ Goto(d, "list")
    <2>1. pc[d] = "open" /\ pc'[d] = "list"
        BY <1>1, <1>7 DEF OpenSession, Goto
    <2> QED
        BY <1>2, <1>3, <1>7, <2>1 DEF LedgerOK, CopyOK, DueOK, NewsOK, Working, Looping, Fetching
<1>8. CASE List(d) /\ ~HardError(d)
    <2>1. PICK missed \in SUBSET Convs :
              LET seen == [c \in Convs |-> IF c \in gone \cup missed THEN 0 ELSE server[c]]
              IN  job' = [job EXCEPT ![d].listed = seen, ![d].todo = {c \in Convs : seen[c] # 0}]
        BY <1>8 DEF List
    <2> DEFINE seen == [c \in Convs |-> IF c \in gone \cup missed THEN 0 ELSE server[c]]
    <2>2. k.listed = seen /\ k.todo = {c \in Convs : seen[c] # 0} /\ k.mem = j.mem
          /\ k.mod = j.mod /\ k.prog = j.prog
        BY <1>1, <2>1 DEF Job
    <2>3. pc[d] = "list" /\ pc'[d] = "scan" /\ pc[d] \in Working
        BY <1>1, <1>8 DEF List, Goto, Working
    <2>4. server \in [Convs -> Versions]
        BY DaemonTypes DEF Ledger
    <2>5. \A c \in Convs : seen[c] <= server[c] /\ (seen[c] # 0 => seen[c] = server[c])
        BY <1>1, <2>4
    <2>6. \A c \in Convs : disk.known[c] <= j.mem.known[c] /\ j.mem.known[c] <= server[c]
        BY <1>3, <2>3 DEF LedgerOK, CopyOK
    <2> HIDE DEF seen
    <2>7. NewsOK(d)'
        BY <1>2, <1>3, <2>2, <2>3, <2>5, <2>6 DEF LedgerOK, NewsOK, Looping, Fetching
    <2>8. CopyOK(d)' /\ DueOK(d)'
        BY <1>2, <1>3, <2>2, <2>3 DEF LedgerOK, CopyOK, DueOK, Working, Looping, Fetching
    <2> QED
        BY <2>7, <2>8 DEF LedgerOK
<1> QED
    BY <1>4, <1>5, <1>6, <1>7, <1>8 DEF OpenSession, FetchTimesOut

\* The heart of the matter: why the state saved after a harvest has moved on.
LEMMA SaveMovesOn ==
    ASSUME Ledger, NEW d \in Daemons, pc[d] = "scan", disk' = Watermarked(job[d])
    PROVE  /\ MovesOn
           /\ disk'.lastCookie <= cookie /\ disk'.synced
           /\ \A c \in Convs : disk'.known[c] <= server[c]
<1> DEFINE j == job[d]
<1>1. /\ j \in Job /\ j.mem \in State /\ disk \in State /\ j.mem.known \in [Convs -> Versions]
      /\ disk.known \in [Convs -> Versions] /\ j.mod \in Nat /\ cookie \in Nat
      /\ disk.lastCookie \in Nat /\ disk.retries \in Nat /\ Versions \subseteq Nat
    BY DaemonTypes DEF Ledger
<1>2. LedgerOK(d) /\ pc[d] \in Looping /\ pc[d] \in Working /\ Past
    BY DEF Ledger, Looping, Working
<1>3. /\ j.mem.synced = disk.synced /\ j.mem.lastCookie = disk.lastCookie
      /\ j.mem.lastSurf = disk.lastSurf /\ j.mem.retries = disk.retries
    BY <1>1, <1>2 DEF LedgerOK, CopyOK, State
<1>4. \A c \in Convs : disk.known[c] <= j.mem.known[c] /\ j.mem.known[c] <= server[c]
    BY <1>2 DEF LedgerOK, CopyOK
<1>5. j.mod <= cookie /\ (disk.synced => disk.lastCookie < j.mod)
    BY <1>2 DEF LedgerOK, DueOK
<1>6. j.prog => \E c \in Convs : disk.known[c] < j.mem.known[c]
    BY <1>2 DEF LedgerOK, NewsOK
<1>7. disk.lastCookie <= cookie /\ (~disk.synced => disk.lastCookie = 0)
    BY <1>2 DEF Past, DiskOK
<1> HIDE DEF j
<1>8. /\ disk'.known = j.mem.known /\ disk'.synced = TRUE /\ disk'.lastSurf = j.mem.lastSurf
      /\ disk'.lastCookie = IF Advances(j) THEN j.mod ELSE j.mem.lastCookie
      /\ disk'.retries = IF Advances(j) \/ j.prog THEN 0 ELSE j.mem.retries + 1
    BY <1>1 DEF Watermarked, State, j
<1>9. disk.lastCookie <= disk'.lastCookie /\ disk'.lastCookie <= cookie
    BY <1>1, <1>3, <1>5, <1>7, <1>8
<1>10. CASE Advances(j)
    <2>1. ~disk.synced \/ disk.lastCookie < disk'.lastCookie
        BY <1>5, <1>8, <1>10
    <2> QED
        BY <1>3, <1>4, <1>8, <1>9, <2>1 DEF MovesOn
<1>11. CASE ~Advances(j) /\ j.prog
    BY <1>3, <1>4, <1>6, <1>8, <1>9, <1>11 DEF MovesOn
<1>12. CASE ~Advances(j) /\ ~j.prog
    <2>1. disk.retries < disk'.retries
        BY <1>1, <1>3, <1>8, <1>12
    <2> QED
        BY <1>3, <1>4, <1>8, <1>9, <2>1 DEF MovesOn
<1> QED
    BY <1>10, <1>11, <1>12

\* What the step of a daemon does to the saved state.
DiskStep(d) ==
    \/ disk' = disk
    \/ SavesChats(d) /\ disk' = Watermarked(job[d])
    \/ disk' = [disk EXCEPT !.lastSurf = day]

LEMMA RefreshLedger ==
    ASSUME Ledger, NEW d \in Daemons, Refresh(d)
    PROVE  DiskStep(d)
<1>1. job[d].mem = disk
    BY DEF Refresh, Ledger, LedgerOK, CopyOK
<1> QED
    BY <1>1 DEF Refresh, SaveState, DiskStep

LEMMA PastStep ==
    ASSUME Ledger, NEW d \in Daemons, DiskStep(d), UNCHANGED <<server, cookie>>
    PROVE  Past'
<1>1. disk \in State
    BY DaemonTypes DEF Ledger
<1>2. CASE disk' = disk
    BY <1>2 DEF Ledger, Past, DiskOK
<1>3. CASE SavesChats(d) /\ disk' = Watermarked(job[d])
    BY <1>3, SaveMovesOn DEF SavesChats, Past, DiskOK
<1>4. CASE disk' = [disk EXCEPT !.lastSurf = day]
    <2>1. disk'.known = disk.known /\ disk'.lastCookie = disk.lastCookie /\ disk'.synced = disk.synced
        BY <1>1, <1>4 DEF State
    <2> QED
        BY <2>1 DEF Ledger, Past, DiskOK
<1> QED
    BY <1>2, <1>3, <1>4 DEF DiskStep

LEMMA DaemonLedger ==
    ASSUME Ledger, Turns, NEW d \in Daemons, DaemonStep(d)
    PROVE  Solo' /\ Past' /\ (\A e \in Daemons : LedgerOK(e)') /\ DiskStep(d)
<1>1. d \in Procs /\ pc \in [Procs -> PCs] /\ job \in [Procs -> Job] /\ TypeInv /\ Solo
    BY DaemonTypes DEF Ledger
<1>2. UNCHANGED <<server, cookie>>
    BY DEF DaemonStep, StartCycle, Trigger, HarvestStep, OpenSession, List, Skip, PickFetch, Fetch,
           FetchFails, FetchTimesOut, Truncate, Fill, Record, Seed, Save, CheckSurfaces, Refresh, envVars
<1>3. pc[d] # "idle" \/ \A q \in Procs : pc[q] = "idle"
    BY DEF DaemonStep, StartCycle, MayStart, Turns, Trigger, HarvestStep, OpenSession, List, Skip,
           PickFetch, Fetch, FetchFails, FetchTimesOut, Truncate, Fill, Record, Seed, Save,
           CheckSurfaces, Refresh
<1>4. pc' = [pc EXCEPT ![d] = pc'[d]]
    BY <1>1 DEF DaemonStep, StartCycle, Trigger, HarvestStep, OpenSession, List, Skip, PickFetch, Fetch,
           FetchFails, FetchTimesOut, Truncate, Fill, Record, Seed, Save, CheckSurfaces, Refresh,
           Goto, HardError, ItemFails
<1>5. DiskStep(d)
    <2>1. CASE Save(d)
        <3>1. SaveState(Watermarked(job[d])) /\ pc[d] = "scan" /\ pc'[d] = "surfaces"
            BY <1>1, <2>1 DEF Save, Goto
        <3> QED
            BY <3>1 DEF SaveState, DiskStep, SavesChats, NoFault
    <2>2. CASE Refresh(d)
        BY <2>2, RefreshLedger
    <2>3. CASE ~Save(d) /\ ~Refresh(d)
        BY <2>3
           DEF DaemonStep, StartCycle, Trigger, HarvestStep, OpenSession, List, Skip, PickFetch, Fetch,
               FetchFails, FetchTimesOut, Truncate, Fill, Record, Seed, CheckSurfaces, DiskStep
    <2> QED
        BY <2>1, <2>2, <2>3
<1>6. LedgerOK(d)'
    <2>1. CASE Save(d) \/ Refresh(d)
        <3>1. pc'[d] \in {"idle", "surfaces"}
            BY <1>1, <2>1 DEF Save, Refresh, Goto
        <3> QED
            BY <3>1, RestLedger
    <2> QED
        BY <2>1, LoopSteps, LearnSteps, BeginSteps DEF DaemonStep, HarvestStep
<1> QED
    BY <1>1, <1>2, <1>3, <1>4, <1>5, <1>6, OneMoves, PastStep

\* One-shot harvests and crashes do not touch the saved state.
LEMMA OtherLedger ==
    ASSUME Ledger, Turns, NEW p \in Procs, (p \in Harvesters /\ OneShotStep(p)) \/ Crash(p)
    PROVE  Solo' /\ Past' /\ (\A e \in Daemons : LedgerOK(e)') /\ disk' = disk
<1>1. pc \in [Procs -> PCs] /\ job \in [Procs -> Job] /\ TypeInv /\ Solo
    BY DEF Ledger, TypeInv, TypeOK
<1>2. UNCHANGED <<server, cookie, disk>>
    BY DEF OneShotStep, StartHarvest, HarvestStep, OpenSession, List, Skip, PickFetch, Fetch,
           FetchFails, FetchTimesOut, Truncate, Fill, Record, FinishHarvest, Crash, envVars
<1>3. pc[p] # "idle" \/ \A q \in Procs : pc[q] = "idle"
    BY DEF OneShotStep, StartHarvest, MayStart, Turns, HarvestStep, OpenSession, List, Skip,
           PickFetch, Fetch, FetchFails, FetchTimesOut, Truncate, Fill, Record, FinishHarvest, Crash
<1>4. pc' = [pc EXCEPT ![p] = pc'[p]]
    BY <1>1 DEF OneShotStep, StartHarvest, HarvestStep, OpenSession, List, Skip, PickFetch, Fetch,
           FetchFails, FetchTimesOut, Truncate, Fill, Record, FinishHarvest, Crash,
           Goto, HardError, ItemFails
<1>5. Past'
    BY <1>2 DEF Ledger, Past, DiskOK
<1>6. ASSUME p \in Daemons PROVE LedgerOK(p)'
    <2>1. pc'[p] = "idle"
        BY <1>1, <1>6, ProcAssumption DEF Crash, Goto
    <2> QED
        BY <1>6, <2>1, RestLedger
<1> QED
    BY <1>1, <1>2, <1>3, <1>4, <1>5, <1>6, OneMoves

\* Around the program versions and cookie times only rise.
LEMMA EnvironmentLedger ==
    ASSUME Ledger, Environment \/ UNCHANGED vars
    PROVE  Solo' /\ Past' /\ (\A e \in Daemons : LedgerOK(e)') /\ disk' = disk
<1>1. UNCHANGED <<pc, job, disk>>
    BY DEF Environment, OpenDesktop, CloseDesktop, FlushCookies, NextDay, Edit, Delete, vars
<1>2. server \in [Convs -> Versions] /\ cookie \in Nat /\ Versions \subseteq Nat /\ disk \in State
    BY DEF Ledger, TypeInv, TypeOK
<1>3. cookie' \in Nat /\ cookie <= cookie'
    BY <1>2 DEF Environment, OpenDesktop, CloseDesktop, FlushCookies, NextDay, Edit, Delete, vars
<1>4. \A c \in Convs : server'[c] \in Nat /\ server[c] <= server'[c]
    <2>1. CASE UNCHANGED server
        BY <1>2, <2>1
    <2>2. ASSUME NEW c \in Convs, Edit(c)
          PROVE  \A e \in Convs : server'[e] \in Nat /\ server[e] <= server'[e]
        BY <1>2, <2>2 DEF Edit
    <2> QED
        BY <2>1, <2>2 DEF Environment, OpenDesktop, CloseDesktop, FlushCookies, NextDay, Delete, vars
<1>5. Past'
    <2>1. disk.lastCookie \in Nat /\ disk.known \in [Convs -> Versions]
        BY <1>2 DEF State
    <2> QED
        BY <1>1, <1>2, <1>3, <1>4, <2>1 DEF Ledger, Past, DiskOK
<1>6. Solo'
    BY <1>1 DEF Ledger, Solo
<1>7. ASSUME NEW d \in Daemons PROVE LedgerOK(d)'
    <2>1. /\ job[d].mem.known \in [Convs -> Versions] /\ job[d].listed \in [Convs -> Versions]
          /\ job[d].mod \in Nat /\ LedgerOK(d)
        BY DaemonTypes DEF Ledger
    <2>2. CopyOK(d)'
        BY <1>1, <1>2, <1>4, <2>1 DEF LedgerOK, CopyOK
    <2>3. DueOK(d)'
        BY <1>1, <1>2, <1>3, <2>1 DEF LedgerOK, DueOK
    <2>4. NewsOK(d)'
        BY <1>1, <1>2, <1>4, <2>1 DEF LedgerOK, NewsOK
    <2> QED
        BY <2>2, <2>3, <2>4 DEF LedgerOK
<1> QED
    BY <1>1, <1>5, <1>6, <1>7

\* One step of EveryCycleCounts.
CycleCounts ==
    IF \E d \in Daemons : SavesChats(d) THEN MovesOn
    ELSE disk' \in {disk, [disk EXCEPT !.lastSurf = day]}

LEMMA LedgerStep == Turns /\ Ledger /\ [Next]_vars => Ledger'
<1> SUFFICES ASSUME Turns, Ledger, [Next]_vars PROVE Ledger'
    OBVIOUS
<1>1. TypeInv'
    BY StepTypes DEF Ledger
<1>2. Solo' /\ Past' /\ \A d \in Daemons : LedgerOK(d)'
    BY DaemonLedger, OtherLedger, EnvironmentLedger DEF Next
<1> QED
    BY <1>1, <1>2 DEF Ledger

\* Only a successful Save is a step from the loop to the surfaces without a fault.
LEMMA SavesAreSaves ==
    ASSUME Ledger, Turns, Next, NEW d \in Daemons, SavesChats(d)
    PROVE  disk' = Watermarked(job[d])
<1>1. pc \in [Procs -> PCs] /\ faults \in Nat /\ d \in Procs
    BY BoundAssumption DEF Ledger, TypeInv, TypeOK
<1>2. pc[d] = "scan" /\ pc'[d] = "surfaces" /\ faults' = faults
    BY DEF SavesChats
<1>3. \A k : ~Fault(k)
    BY <1>1, <1>2 DEF Fault
<1>4. ASSUME NEW p \in Procs, HarvestStep(p) PROVE FALSE
    BY <1>1, <1>2, <1>4
       DEF HarvestStep, OpenSession, List, Skip, PickFetch, Fetch, FetchFails, FetchTimesOut,
           Truncate, Fill, Record, Goto, HardError, ItemFails
<1>5. PICK e \in Daemons : DaemonStep(e)
    BY <1>1, <1>2, <1>4
       DEF Next, OneShotStep, StartHarvest, FinishHarvest, Crash, Environment, OpenDesktop,
           CloseDesktop, FlushCookies, NextDay, Edit, Delete, Goto
<1>6. e = d /\ Save(d)
    BY <1>1, <1>2, <1>4, <1>5
       DEF DaemonStep, StartCycle, MayStart, Trigger, Seed, Save, CheckSurfaces, Refresh, Goto
<1> QED
    BY <1>3, <1>6 DEF Save, SaveState

LEMMA CycleCountsStep == Turns /\ Ledger /\ Next => CycleCounts
<1> SUFFICES ASSUME Turns, Ledger, Next PROVE CycleCounts
    OBVIOUS
<1>1. CASE \E d \in Daemons : SavesChats(d)
    <2>1. PICK d \in Daemons : SavesChats(d)
        BY <1>1
    <2>2. MovesOn
        BY <2>1, SavesAreSaves, SaveMovesOn DEF SavesChats
    <2> QED
        BY <1>1, <2>2 DEF CycleCounts
<1>2. CASE ~\E d \in Daemons : SavesChats(d)
    <2>1. disk' = disk \/ \E d \in Daemons : DiskStep(d)
        BY DaemonLedger, OtherLedger, EnvironmentLedger DEF Next
    <2> QED
        BY <1>2, <2>1 DEF CycleCounts, DiskStep
<1> QED
    BY <1>1, <1>2

\* For any number of daemons and one-shot harvests that take turns, whatever items
\* and sessions fail and whoever is killed: every harvest whose state is saved has
\* moved the state on, and no other step takes anything in it back.
THEOREM CyclesCount ==
    ASSUME Turns
    PROVE  Spec => EveryCycleCounts
<1>1. Init => Ledger
    <2> SUFFICES ASSUME Init PROVE Ledger
        OBVIOUS
    <2>1. TypeInv
        BY InitTypes DEF Init, TypeInv, CurOK, Fetching
    <2>2. \A p \in Procs : pc[p] = "idle"
        BY DEF Init
    <2>3. Solo /\ \A d \in Daemons : LedgerOK(d)
        BY <2>2 DEF Solo, LedgerOK, CopyOK, DueOK, NewsOK, Working, Looping, Fetching
    <2>4. Past
        <3>1. disk.lastCookie = 0 /\ cookie = 0 /\ disk.known = [c \in Convs |-> 0]
              /\ \A c \in Convs : server[c] \in Nat
            BY DEF Init, EmptyState
        <3> QED
            BY <3>1 DEF Past, DiskOK
    <2> QED
        BY <2>1, <2>3, <2>4 DEF Ledger
<1>2. Spec => []Ledger
    BY <1>1, LedgerStep, PTL DEF Spec
<1>3. Ledger /\ [Next]_vars => [CycleCounts]_vars
    BY CycleCountsStep
<1>4. Spec => [][CycleCounts]_vars
    BY <1>2, <1>3, PTL DEF Spec
<1> QED
    BY <1>4 DEF EveryCycleCounts, CycleCounts

=============================================================================
