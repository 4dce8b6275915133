---------------------------- MODULE ManifestProofs ----------------------------
(***************************************************************************)
(* Proofs about Manifest: for any number of processes, files, versions and *)
(* faults, .content-hashes.json is never torn, no temporary file is lost   *)
(* sight of by a process that lives, and the manifest agrees with the      *)
(* exports it vouches for.                                                 *)
(***************************************************************************)
EXTENDS Manifest, TLAPS

-----------------------------------------------------------------------------
(* The inductive invariant *)

\* A process in writeMarkdown has a file.
JobOK == \A w \in Writers : pc[w] # "idle" => job[w].cur \in Files

\* Every save has a temporary file of its own, and what is left is not taken again.
TempsOK ==
    /\ \A w \in Writers : pc[w] \in {"temp", "rename"} =>
           /\ job[w].tmp \in Names \ left
           /\ temps[job[w].tmp] # None
    /\ \A v, w \in Writers :
           /\ pc[v] \in {"temp", "rename"} /\ pc[w] \in {"temp", "rename"}
           /\ job[v].tmp = job[w].tmp
           => v = w
    /\ \A n \in left : temps[n] # None

\* What is renamed is complete.
WholeOK ==
    /\ manifest.whole
    /\ \A w \in Writers : pc[w] = "rename" =>
           temps[job[w].tmp] = Whole(Entered(job[w]))

\* Where a process is up to date, what it loaded is what the manifest has.
SnapOK ==
    \A w \in Writers : pc[w] \in Saving /\ ~job[w].blind =>
        \A f \in Files \ (raced[w] \cup {job[w].cur}) : job[w].snap[f] = manifest.data[f]

\* What a process is recording is on disk, unless it was mixed or overtaken.
BodyOK ==
    \A w \in Writers : pc[w] \in Recording /\ job[w].cur \notin raced[w] =>
        content[job[w].cur] \in {0, job[w].body}

\* HashesMatch as it is inductive: a process that has only truncated a file
\* has nothing to say about what others write there.
HashOK ==
    \A f \in Files \ doubt :
        content[f] # 0 /\ (\A w \in Writers : pc[w] \in Recording => job[w].cur # f) =>
            manifest.data[f] = content[f]

IInv ==
    /\ TypeOK /\ JobOK /\ TempsOK /\ TempsAccountedFor
    /\ WholeOK /\ SnapOK /\ BodyOK /\ HashOK

-----------------------------------------------------------------------------
(* Operators *)

\* The empty manifest is a map, and so is one with a file entered.
LEMMA EmptyIsMap == Empty \in Map
BY BoundAssumption DEF Empty, Map, Versions

LEMMA EnteredIsMap ==
    ASSUME NEW j \in Job
    PROVE  /\ Entered(j) \in Map
           /\ \A f \in Files : f # j.cur => Entered(j)[f] = j.snap[f]
           /\ j.cur \in Files => Entered(j)[j.cur] = j.body
BY DEF Entered, Map, Job

\* A file of JSON is a file.
LEMMA PresentIsNotNone ==
    ASSUME NEW m \in Map
    PROVE  /\ Whole(m) \in JSON /\ Part(m) \in JSON
           /\ Whole(m) # None /\ Part(m) # None
           /\ Whole(m).whole /\ Whole(m).data = m
<1>1. Whole(m) \in JSON /\ Part(m) \in JSON
    BY DEF Whole, Part, JSON
<1>2. Whole(m).whole /\ Whole(m).data = m
    BY DEF Whole
<1> QED
    BY <1>1, <1>2, NoneAssumption

LEMMA NoJobIsJob == NoJob \in Job
BY EmptyIsMap, BoundAssumption DEF NoJob, Job, Versions

-----------------------------------------------------------------------------
(* The initial states *)

LEMMA InitInvariant == Init => IInv
<1> SUFFICES ASSUME Init PROVE IInv
    OBVIOUS
<1>1. TypeOK
    <2>1. content \in [Files -> Versions] /\ faults \in 0 .. MaxFaults
        BY EmptyIsMap, BoundAssumption DEF Init, Map
    <2>2. manifest \in JSON /\ temps \in [Names -> JSON \cup {None}]
        BY EmptyIsMap, PresentIsNotNone DEF Init
    <2>3. job \in [Writers -> Job] /\ pc \in [Writers -> PCs]
        BY NoJobIsJob DEF Init, PCs
    <2>4. left \subseteq Names /\ raced \in [Writers -> SUBSET Files] /\ doubt \subseteq Files
        BY DEF Init
    <2> QED
        BY <2>1, <2>2, <2>3, <2>4 DEF TypeOK
<1>2. JobOK /\ TempsOK /\ TempsAccountedFor /\ SnapOK /\ BodyOK
    BY DEF Init, JobOK, TempsOK, TempsAccountedFor, SnapOK, BodyOK, Saving, Recording
<1>3. WholeOK /\ HashOK
    BY EmptyIsMap, PresentIsNotNone DEF Init, WholeOK, HashOK, Empty
<1> QED
    BY <1>1, <1>2, <1>3 DEF IInv

-----------------------------------------------------------------------------
(* The steps: one lemma for each action *)

LEMMA BeginStep ==
    ASSUME IInv, NEW w \in Writers, Begin(w)
    PROVE  IInv'
<1> USE DEF IInv, Begin, Goto, Overtake
<1>0. job[w] \in Job
    BY DEF TypeOK
<1>1. TypeOK'
    <2>1. (content \in [Files -> Versions])'
        BY BoundAssumption DEF TypeOK, JobOK, Job, Versions
    <2>2. (job \in [Writers -> Job])'
        <3>1. PICK f \in Files, v \in Versions :
                  job' = [job EXCEPT ![w] = [job[w] EXCEPT !.cur = f, !.body = v]]
            BY DEF TypeOK
        <3>2. [job[w] EXCEPT !.cur = f, !.body = v] \in Job
            BY <1>0 DEF Job
        <3> QED
            BY <3>1, <3>2 DEF TypeOK
    <2>3. (manifest \in JSON /\ temps \in [Names -> JSON \cup {None}])'
        BY <1>0, EmptyIsMap, PresentIsNotNone, EnteredIsMap DEF TypeOK, TempsOK
    <2>4. (pc \in [Writers -> PCs] /\ faults \in 0 .. MaxFaults)'
        BY BoundAssumption DEF TypeOK, PCs
    <2>5. (left \subseteq Names /\ raced \in [Writers -> SUBSET Files] /\ doubt \subseteq Files)'
        BY DEF TypeOK, JobOK, TempsOK, Recording, Saving
    <2> QED
        BY <2>1, <2>2, <2>3, <2>4, <2>5 DEF TypeOK
<1>2. JobOK'
    BY NoneAssumption DEF JobOK, TypeOK, Job, NoJob
<1>3. TempsOK'
    BY <1>0, EmptyIsMap, PresentIsNotNone, EnteredIsMap DEF TempsOK, TypeOK, Job, NoJob
<1>4. TempsAccountedFor'
    BY NoneAssumption DEF TempsAccountedFor, TempsOK, TypeOK, Job, NoJob
<1>5. WholeOK'
    BY <1>0, EmptyIsMap, PresentIsNotNone, EnteredIsMap DEF WholeOK, TempsOK, TypeOK
<1>6. SnapOK'
    BY NoneAssumption DEF SnapOK, JobOK, TypeOK, Job, NoJob, Saving
<1>7. BodyOK'
    BY NoneAssumption DEF BodyOK, JobOK, TypeOK, Job, NoJob, Recording, Saving
<1>8. HashOK'
    BY NoneAssumption DEF HashOK, BodyOK, JobOK, TypeOK, Job, NoJob, Recording, Saving
<1> QED
    BY <1>1, <1>2, <1>3, <1>4, <1>5, <1>6, <1>7, <1>8

LEMMA FillStep ==
    ASSUME IInv, NEW w \in Writers, Fill(w)
    PROVE  IInv'
<1> USE DEF IInv, Fill, Goto, Overtake
<1>0. job[w] \in Job
    BY DEF TypeOK
<1>1. TypeOK'
    <2>1. (content \in [Files -> Versions])'
        BY BoundAssumption DEF TypeOK, JobOK, Job, Versions
    <2>2. (job \in [Writers -> Job])'
        BY <1>0, NoJobIsJob DEF TypeOK, Job
    <2>3. (manifest \in JSON /\ temps \in [Names -> JSON \cup {None}])'
        BY <1>0, EmptyIsMap, PresentIsNotNone, EnteredIsMap DEF TypeOK, TempsOK
    <2>4. (pc \in [Writers -> PCs] /\ faults \in 0 .. MaxFaults)'
        BY BoundAssumption DEF TypeOK, PCs
    <2>5. (left \subseteq Names /\ raced \in [Writers -> SUBSET Files] /\ doubt \subseteq Files)'
        BY DEF TypeOK, JobOK, TempsOK, Recording, Saving
    <2> QED
        BY <2>1, <2>2, <2>3, <2>4, <2>5 DEF TypeOK
<1>2. JobOK'
    BY NoneAssumption DEF JobOK, TypeOK, Job, NoJob
<1>3. TempsOK'
    BY <1>0, EmptyIsMap, PresentIsNotNone, EnteredIsMap DEF TempsOK, TypeOK, Job, NoJob
<1>4. TempsAccountedFor'
    BY NoneAssumption DEF TempsAccountedFor, TempsOK, TypeOK, Job, NoJob
<1>5. WholeOK'
    BY <1>0, EmptyIsMap, PresentIsNotNone, EnteredIsMap DEF WholeOK, TempsOK, TypeOK
<1>6. SnapOK'
    BY NoneAssumption DEF SnapOK, JobOK, TypeOK, Job, NoJob, Saving
<1>7. BodyOK'
    BY NoneAssumption DEF BodyOK, JobOK, TypeOK, Job, NoJob, Recording, Saving
<1>8. HashOK'
    BY NoneAssumption DEF HashOK, BodyOK, JobOK, TypeOK, Job, NoJob, Recording, Saving
<1> QED
    BY <1>1, <1>2, <1>3, <1>4, <1>5, <1>6, <1>7, <1>8

LEMMA FillFailsStep ==
    ASSUME IInv, NEW w \in Writers, FillFails(w)
    PROVE  IInv'
<1> USE DEF IInv, FillFails, Goto, Overtake, Fault
<1>0. job[w] \in Job
    BY DEF TypeOK
<1>1. TypeOK'
    <2>1. (content \in [Files -> Versions])'
        BY BoundAssumption DEF TypeOK, JobOK, Job, Versions
    <2>2. (job \in [Writers -> Job])'
        BY <1>0, NoJobIsJob DEF TypeOK, Job
    <2>3. (manifest \in JSON /\ temps \in [Names -> JSON \cup {None}])'
        BY <1>0, EmptyIsMap, PresentIsNotNone, EnteredIsMap DEF TypeOK, TempsOK
    <2>4. (pc \in [Writers -> PCs] /\ faults \in 0 .. MaxFaults)'
        BY BoundAssumption DEF TypeOK, PCs
    <2>5. (left \subseteq Names /\ raced \in [Writers -> SUBSET Files] /\ doubt \subseteq Files)'
        BY DEF TypeOK, JobOK, TempsOK, Recording, Saving
    <2> QED
        BY <2>1, <2>2, <2>3, <2>4, <2>5 DEF TypeOK
<1>2. JobOK'
    BY NoneAssumption DEF JobOK, TypeOK, Job, NoJob
<1>3. TempsOK'
    BY <1>0, EmptyIsMap, PresentIsNotNone, EnteredIsMap DEF TempsOK, TypeOK, Job, NoJob
<1>4. TempsAccountedFor'
    BY NoneAssumption DEF TempsAccountedFor, TempsOK, TypeOK, Job, NoJob
<1>5. WholeOK'
    BY <1>0, EmptyIsMap, PresentIsNotNone, EnteredIsMap DEF WholeOK, TempsOK, TypeOK
<1>6. SnapOK'
    BY NoneAssumption DEF SnapOK, JobOK, TypeOK, Job, NoJob, Saving
<1>7. BodyOK'
    BY NoneAssumption DEF BodyOK, JobOK, TypeOK, Job, NoJob, Recording, Saving
<1>8. HashOK'
    BY NoneAssumption DEF HashOK, BodyOK, JobOK, TypeOK, Job, NoJob, Recording, Saving
<1> QED
    BY <1>1, <1>2, <1>3, <1>4, <1>5, <1>6, <1>7, <1>8

LEMMA LoadManifestStep ==
    ASSUME IInv, NEW w \in Writers, LoadManifest(w)
    PROVE  IInv'
<1> USE DEF IInv, LoadManifest, Goto, Fault, Fallback
<1>0. job[w] \in Job
    BY DEF TypeOK
<1>a. PICK m \in Map, b \in BOOLEAN :
          /\ job' = [job EXCEPT ![w] = [job[w] EXCEPT !.snap = m, !.blind = b]]
          /\ b \/ m = manifest.data
    <2>1. manifest.data \in Map
        BY DEF TypeOK, JSON
    <2>2. CASE job' = [job EXCEPT ![w].snap = manifest.data]
        <3>1. [job[w] EXCEPT !.snap = manifest.data]
                  = [job[w] EXCEPT !.snap = manifest.data, !.blind = job[w].blind]
            BY <1>0 DEF Job
        <3> QED
            BY <1>0, <2>1, <2>2, <3>1 DEF Job
    <2>3. CASE job' = [job EXCEPT ![w] = [@ EXCEPT !.snap = Fallback, !.blind = TRUE]]
        BY <2>3, EmptyIsMap
    <2> QED
        BY <2>2, <2>3
<1> DEFINE j == [job[w] EXCEPT !.snap = m, !.blind = b]
<1>b. /\ j \in Job /\ j.cur = job[w].cur /\ j.body = job[w].body
      /\ j.snap = m /\ j.blind = b
    BY <1>0 DEF Job
<1>c. job' = [job EXCEPT ![w] = j]
    BY <1>a
<1> HIDE DEF j
<1>1. TypeOK'
    <2>1. (content \in [Files -> Versions])'
        BY BoundAssumption DEF TypeOK, JobOK, Job, Versions
    <2>2. (job \in [Writers -> Job])'
        BY <1>b, <1>c DEF TypeOK
    <2>3. (manifest \in JSON /\ temps \in [Names -> JSON \cup {None}])'
        BY <1>0, EmptyIsMap, PresentIsNotNone, EnteredIsMap DEF TypeOK, TempsOK
    <2>4. (pc \in [Writers -> PCs] /\ faults \in 0 .. MaxFaults)'
        BY BoundAssumption DEF TypeOK, PCs
    <2>5. (left \subseteq Names /\ raced \in [Writers -> SUBSET Files] /\ doubt \subseteq Files)'
        BY DEF TypeOK, JobOK, TempsOK, Recording, Saving
    <2> QED
        BY <2>1, <2>2, <2>3, <2>4, <2>5 DEF TypeOK
<1>2. JobOK'
    BY <1>a, <1>b, <1>c DEF JobOK, TypeOK
<1>3. TempsOK'
    BY <1>0, EmptyIsMap, PresentIsNotNone, EnteredIsMap DEF TempsOK, TypeOK
<1>4. TempsAccountedFor'
    BY <1>a, <1>b, <1>c DEF TempsAccountedFor, TempsOK, TypeOK
<1>5. WholeOK'
    BY <1>0, EmptyIsMap, PresentIsNotNone, EnteredIsMap DEF WholeOK, TempsOK, TypeOK
<1>6. SnapOK'
    BY <1>a, <1>b, <1>c DEF SnapOK, JobOK, TypeOK, Saving
<1>7. BodyOK'
    BY <1>a, <1>b, <1>c DEF BodyOK, JobOK, TypeOK, Recording, Saving
<1>8. HashOK'
    BY <1>a, <1>b, <1>c DEF HashOK, BodyOK, JobOK, TypeOK, Recording, Saving
<1> QED
    BY <1>1, <1>2, <1>3, <1>4, <1>5, <1>6, <1>7, <1>8

LEMMA CreateTempStep ==
    ASSUME IInv, NEW w \in Writers, CreateTemp(w)
    PROVE  IInv'
<1> USE DEF IInv, CreateTemp, Goto, FreeName
<1>0. job[w] \in Job
    BY DEF TypeOK
<1>1. TypeOK'
    <2>1. (content \in [Files -> Versions])'
        BY BoundAssumption DEF TypeOK, JobOK, Job, Versions
    <2>2. (job \in [Writers -> Job])'
        BY <1>0, NoJobIsJob DEF TypeOK, Job
    <2>3. (manifest \in JSON /\ temps \in [Names -> JSON \cup {None}])'
        BY <1>0, EmptyIsMap, PresentIsNotNone, EnteredIsMap DEF TypeOK, TempsOK
    <2>4. (pc \in [Writers -> PCs] /\ faults \in 0 .. MaxFaults)'
        BY BoundAssumption DEF TypeOK, PCs
    <2>5. (left \subseteq Names /\ raced \in [Writers -> SUBSET Files] /\ doubt \subseteq Files)'
        BY DEF TypeOK, JobOK, TempsOK, Recording, Saving
    <2> QED
        BY <2>1, <2>2, <2>3, <2>4, <2>5 DEF TypeOK
<1>2. JobOK'
    BY NoneAssumption DEF JobOK, TypeOK, Job, NoJob
<1>3. TempsOK'
    BY <1>0, EmptyIsMap, PresentIsNotNone, EnteredIsMap DEF TempsOK, TypeOK, Job, NoJob
<1>4. TempsAccountedFor'
    BY NoneAssumption DEF TempsAccountedFor, TempsOK, TypeOK, Job, NoJob
<1>5. WholeOK'
    BY <1>0, EmptyIsMap, PresentIsNotNone, EnteredIsMap DEF WholeOK, TempsOK, TypeOK
<1>6. SnapOK'
    BY NoneAssumption DEF SnapOK, JobOK, TypeOK, Job, NoJob, Saving
<1>7. BodyOK'
    BY NoneAssumption DEF BodyOK, JobOK, TypeOK, Job, NoJob, Recording, Saving
<1>8. HashOK'
    BY NoneAssumption DEF HashOK, BodyOK, JobOK, TypeOK, Job, NoJob, Recording, Saving
<1> QED
    BY <1>1, <1>2, <1>3, <1>4, <1>5, <1>6, <1>7, <1>8

LEMMA WriteTempStep ==
    ASSUME IInv, NEW w \in Writers, WriteTemp(w)
    PROVE  IInv'
<1> USE DEF IInv, WriteTemp, Goto
<1>0. job[w] \in Job
    BY DEF TypeOK
<1>1. TypeOK'
    <2>1. (content \in [Files -> Versions])'
        BY BoundAssumption DEF TypeOK, JobOK, Job, Versions
    <2>2. (job \in [Writers -> Job])'
        BY <1>0, NoJobIsJob DEF TypeOK, Job
    <2>3. (manifest \in JSON /\ temps \in [Names -> JSON \cup {None}])'
        BY <1>0, EmptyIsMap, PresentIsNotNone, EnteredIsMap DEF TypeOK, TempsOK
    <2>4. (pc \in [Writers -> PCs] /\ faults \in 0 .. MaxFaults)'
        BY BoundAssumption DEF TypeOK, PCs
    <2>5. (left \subseteq Names /\ raced \in [Writers -> SUBSET Files] /\ doubt \subseteq Files)'
        BY DEF TypeOK, JobOK, TempsOK, Recording, Saving
    <2> QED
        BY <2>1, <2>2, <2>3, <2>4, <2>5 DEF TypeOK
<1>2. JobOK'
    BY NoneAssumption DEF JobOK, TypeOK, Job, NoJob
<1>3. TempsOK'
    BY <1>0, EmptyIsMap, PresentIsNotNone, EnteredIsMap DEF TempsOK, TypeOK, Job, NoJob
<1>4. TempsAccountedFor'
    BY NoneAssumption DEF TempsAccountedFor, TempsOK, TypeOK, Job, NoJob
<1>5. WholeOK'
    BY <1>0, EmptyIsMap, PresentIsNotNone, EnteredIsMap DEF WholeOK, TempsOK, TypeOK
<1>6. SnapOK'
    BY NoneAssumption DEF SnapOK, JobOK, TypeOK, Job, NoJob, Saving
<1>7. BodyOK'
    BY NoneAssumption DEF BodyOK, JobOK, TypeOK, Job, NoJob, Recording, Saving
<1>8. HashOK'
    BY NoneAssumption DEF HashOK, BodyOK, JobOK, TypeOK, Job, NoJob, Recording, Saving
<1> QED
    BY <1>1, <1>2, <1>3, <1>4, <1>5, <1>6, <1>7, <1>8

LEMMA RenameStep ==
    ASSUME IInv, NEW w \in Writers, Rename(w)
    PROVE  IInv'
<1> USE DEF IInv, Rename, Goto, Suspect
<1>0. job[w] \in Job
    BY DEF TypeOK
<1>a. manifest' = Whole(Entered(job[w])) /\ job[w].cur \in Files
    BY DEF WholeOK, JobOK
<1>b. /\ manifest'.data[job[w].cur] = job[w].body
      /\ \A f \in Files : f # job[w].cur => manifest'.data[f] = job[w].snap[f]
      /\ manifest'.whole
    BY <1>0, <1>a, EnteredIsMap, PresentIsNotNone
<1>1. TypeOK'
    <2>1. (content \in [Files -> Versions])'
        BY BoundAssumption DEF TypeOK, JobOK, Job, Versions
    <2>2. (job \in [Writers -> Job])'
        BY <1>0, NoJobIsJob DEF TypeOK, Job
    <2>3. (manifest \in JSON /\ temps \in [Names -> JSON \cup {None}])'
        BY <1>0, EmptyIsMap, PresentIsNotNone, EnteredIsMap DEF TypeOK, TempsOK
    <2>4. (pc \in [Writers -> PCs] /\ faults \in 0 .. MaxFaults)'
        BY BoundAssumption DEF TypeOK, PCs
    <2>5. (left \subseteq Names /\ raced \in [Writers -> SUBSET Files] /\ doubt \subseteq Files)'
        BY DEF TypeOK, JobOK, TempsOK, Recording, Saving
    <2> QED
        BY <2>1, <2>2, <2>3, <2>4, <2>5 DEF TypeOK
<1>2. JobOK'
    BY NoneAssumption DEF JobOK, TypeOK, Job, NoJob
<1>3. TempsOK'
    BY <1>0, EmptyIsMap, PresentIsNotNone, EnteredIsMap DEF TempsOK, TypeOK, Job, NoJob
<1>4. TempsAccountedFor'
    BY NoneAssumption DEF TempsAccountedFor, TempsOK, TypeOK, Job, NoJob
<1>5. WholeOK'
    BY <1>b DEF WholeOK, TempsOK, TypeOK
<1>6. SnapOK'
    BY <1>a, <1>b DEF SnapOK, JobOK, TypeOK, Job, NoJob, Saving
<1>7. BodyOK'
    BY NoneAssumption DEF BodyOK, JobOK, TypeOK, Job, NoJob, Recording, Saving
<1>8. HashOK'
    <2> SUFFICES ASSUME NEW f \in Files, f \notin doubt', content[f] # 0,
                        \A v \in Writers : pc'[v] \in Recording => job'[v].cur # f
                 PROVE  manifest'.data[f] = content[f]
        BY DEF HashOK
    <2>1. CASE f = job[w].cur
        BY <1>b, <2>1 DEF BodyOK, Recording, Saving
    <2>2. CASE f # job[w].cur
        <3>1. f \notin doubt /\ f \notin raced[w] /\ ~job[w].blind
            BY <2>2
        <3>2. job[w].snap[f] = manifest.data[f]
            BY <2>2, <3>1 DEF SnapOK, Saving
        <3>3. \A v \in Writers : pc[v] \in Recording => job[v].cur # f
            BY <2>2 DEF TypeOK
        <3> QED
            BY <1>b, <2>2, <3>1, <3>2, <3>3 DEF HashOK
    <2> QED
        BY <2>1, <2>2
<1> QED
    BY <1>1, <1>2, <1>3, <1>4, <1>5, <1>6, <1>7, <1>8

LEMMA SaveFailsStep ==
    ASSUME IInv, NEW w \in Writers, SaveFails(w)
    PROVE  IInv'
<1> USE DEF IInv, SaveFails, Return, Goto, RemoveTemp, Fault
<1>0. job[w] \in Job
    BY DEF TypeOK
<1>1. TypeOK'
    <2>1. (content \in [Files -> Versions])'
        BY BoundAssumption DEF TypeOK, JobOK, Job, Versions
    <2>2. (job \in [Writers -> Job])'
        BY <1>0, NoJobIsJob DEF TypeOK, Job
    <2>3. (manifest \in JSON /\ temps \in [Names -> JSON \cup {None}])'
        BY <1>0, EmptyIsMap, PresentIsNotNone, EnteredIsMap DEF TypeOK, TempsOK
    <2>4. (pc \in [Writers -> PCs] /\ faults \in 0 .. MaxFaults)'
        BY BoundAssumption DEF TypeOK, PCs
    <2>5. (left \subseteq Names /\ raced \in [Writers -> SUBSET Files] /\ doubt \subseteq Files)'
        BY DEF TypeOK, JobOK, TempsOK, Recording, Saving
    <2> QED
        BY <2>1, <2>2, <2>3, <2>4, <2>5 DEF TypeOK
<1>2. JobOK'
    BY NoneAssumption DEF JobOK, TypeOK, Job, NoJob
<1>3. TempsOK'
    BY <1>0, EmptyIsMap, PresentIsNotNone, EnteredIsMap DEF TempsOK, TypeOK, Job, NoJob
<1>4. TempsAccountedFor'
    BY NoneAssumption DEF TempsAccountedFor, TempsOK, TypeOK, Job, NoJob
<1>5. WholeOK'
    BY <1>0, EmptyIsMap, PresentIsNotNone, EnteredIsMap DEF WholeOK, TempsOK, TypeOK
<1>6. SnapOK'
    BY NoneAssumption DEF SnapOK, JobOK, TypeOK, Job, NoJob, Saving
<1>7. BodyOK'
    BY NoneAssumption DEF BodyOK, JobOK, TypeOK, Job, NoJob, Recording, Saving
<1>8. HashOK'
    BY NoneAssumption DEF HashOK, BodyOK, JobOK, TypeOK, Job, NoJob, Recording, Saving
<1> QED
    BY <1>1, <1>2, <1>3, <1>4, <1>5, <1>6, <1>7, <1>8

LEMMA KillStep ==
    ASSUME IInv, NEW w \in Writers, Kill(w)
    PROVE  IInv'
<1> USE DEF IInv, Kill, Return, Goto, Fault
<1>0. job[w] \in Job
    BY DEF TypeOK
<1>1. TypeOK'
    <2>1. (content \in [Files -> Versions])'
        BY BoundAssumption DEF TypeOK, JobOK, Job, Versions
    <2>2. (job \in [Writers -> Job])'
        BY <1>0, NoJobIsJob DEF TypeOK, Job
    <2>3. (manifest \in JSON /\ temps \in [Names -> JSON \cup {None}])'
        BY <1>0, EmptyIsMap, PresentIsNotNone, EnteredIsMap DEF TypeOK, TempsOK
    <2>4. (pc \in [Writers -> PCs] /\ faults \in 0 .. MaxFaults)'
        BY BoundAssumption DEF TypeOK, PCs
    <2>5. (left \subseteq Names /\ raced \in [Writers -> SUBSET Files] /\ doubt \subseteq Files)'
        BY DEF TypeOK, JobOK, TempsOK, Recording, Saving
    <2> QED
        BY <2>1, <2>2, <2>3, <2>4, <2>5 DEF TypeOK
<1>2. JobOK'
    BY NoneAssumption DEF JobOK, TypeOK, Job, NoJob
<1>3. TempsOK'
    BY <1>0, EmptyIsMap, PresentIsNotNone, EnteredIsMap DEF TempsOK, TypeOK, Job, NoJob
<1>4. TempsAccountedFor'
    BY NoneAssumption DEF TempsAccountedFor, TempsOK, TypeOK, Job, NoJob
<1>5. WholeOK'
    BY <1>0, EmptyIsMap, PresentIsNotNone, EnteredIsMap DEF WholeOK, TempsOK, TypeOK
<1>6. SnapOK'
    BY NoneAssumption DEF SnapOK, JobOK, TypeOK, Job, NoJob, Saving
<1>7. BodyOK'
    BY NoneAssumption DEF BodyOK, JobOK, TypeOK, Job, NoJob, Recording, Saving
<1>8. HashOK'
    BY NoneAssumption DEF HashOK, BodyOK, JobOK, TypeOK, Job, NoJob, Recording, Saving
<1> QED
    BY <1>1, <1>2, <1>3, <1>4, <1>5, <1>6, <1>7, <1>8

-----------------------------------------------------------------------------
(* The theorems *)

LEMMA Stuttering == IInv /\ UNCHANGED vars => IInv'
BY DEF IInv, vars, TypeOK, JobOK, TempsOK, TempsAccountedFor, WholeOK, SnapOK, BodyOK,
       HashOK, Saving, Recording

LEMMA StepInvariant == IInv /\ [Next]_vars => IInv'
<1> SUFFICES ASSUME IInv, Next PROVE IInv'
    BY Stuttering
<1>1. PICK w \in Writers : Step(w)
    BY DEF Next
<1> QED
    BY <1>1, BeginStep, FillStep, FillFailsStep, LoadManifestStep, CreateTempStep,
       WriteTempStep, RenameStep, SaveFailsStep, KillStep DEF Step

LEMMA Invariant == Spec => []IInv
BY InitInvariant, StepInvariant, PTL DEF Spec

\* The variables of Manifest have their types, whatever the processes do.
THEOREM ManifestTypes == Spec => []TypeOK
BY Invariant, PTL DEF IInv

\* saveManifest's temporary file and rename: the manifest is never torn, with any
\* number of processes, calls that fail and kills.
THEOREM ManifestIsWhole == Spec => []ManifestNeverTorn
<1>1. IInv => ManifestNeverTorn
    BY DEF IInv, WholeOK, ManifestNeverTorn
<1> QED
    BY <1>1, Invariant, PTL

\* saveManifest's error paths: only a process that was killed, or could not remove
\* its temporary file, leaves one.
THEOREM NoTempForgotten == Spec => []TempsAccountedFor
BY Invariant, PTL DEF IInv

\* writeMarkdown's entry of each hash: the manifest agrees with every complete export
\* that no failed, blind or overlapping save made doubtful.
THEOREM HashesAreRight == Spec => []HashesMatch
<1>1. ASSUME IInv PROVE HashesMatch
    <2>1. \A w \in Writers : pc[w] \in Recording => job[w].cur \in Files
        BY <1>1 DEF IInv, JobOK, Recording, Saving
    <2> QED
        BY <1>1, <2>1 DEF IInv, HashOK, HashesMatch
<1> QED
    BY <1>1, Invariant, PTL

=============================================================================
