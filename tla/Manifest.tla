------------------------------- MODULE Manifest -------------------------------
(***************************************************************************)
(* The content hashes of integrity.go: writeMarkdown, which every export   *)
(* goes through, and loadManifest and saveManifest, by which it enters the *)
(* hash of each file into .content-hashes.json.  Several processes share   *)
(* the directory (`supervise` by autostart, `harvest` by hand); each has   *)
(* one goroutine that exports, so that manifestMu is always free and only  *)
(* the file system orders them.                                            *)
(*                                                                         *)
(* A content is abstracted to a version, and its hash to the same number.  *)
(***************************************************************************)
EXTENDS Naturals

CONSTANTS
    Writers,    \* processes that export to the directory
    Files,      \* base names of the exports
    Names,      \* names os.CreateTemp may choose
    None,       \* no file, no temporary file
    MaxVer,     \* bound: versions of one file
    MaxFaults   \* bound: exports that fail and processes that are killed

Versions == 0 .. MaxVer

ASSUME BoundAssumption == MaxVer \in Nat /\ MaxFaults \in Nat

VARIABLES
    content,    \* version of every complete export; 0: none, or not a complete one
    manifest,   \* .content-hashes.json
    temps,      \* the temporary files beside it
    pc,         \* where each process is in writeMarkdown
    job,        \* its local variables
    faults,     \* faults so far
    left,       \* observation: temporary files nobody will remove
    raced,      \* observation: files about which a process is no longer up to date
    doubt       \* observation: files whose hash the program does not vouch for

vars == <<content, manifest, temps, pc, job, faults, left, raced, doubt>>

-----------------------------------------------------------------------------
(* Typing *)

\* contentManifest.  0: no entry.
Map == [Files -> Versions]
Empty == [f \in Files |-> 0]

\* A file of JSON is whole or cannot be parsed.
JSON == [data: Map, whole: BOOLEAN]
Whole(m) == [data |-> m, whole |-> TRUE]
Part(m) == [data |-> m, whole |-> FALSE]

ASSUME NoneAssumption == None \notin Files \cup Names \cup JSON

Job == [cur: Files \cup {None}, body: Versions, snap: Map, blind: BOOLEAN,
        tmp: Names \cup {None}]
NoJob == [cur |-> None, body |-> 0, snap |-> Empty, blind |-> FALSE, tmp |-> None]

PCs == {"idle", "fill", "load", "create", "temp", "rename"}

\* A manifest has been loaded, and is not saved yet.
Saving == {"create", "temp", "rename"}
\* The content is on disk, and its hash is not.
Recording == {"load"} \cup Saving

TypeOK ==
    /\ content \in [Files -> Versions]
    /\ manifest \in JSON
    /\ temps \in [Names -> JSON \cup {None}]
    /\ pc \in [Writers -> PCs]
    /\ job \in [Writers -> Job]
    /\ faults \in 0 .. MaxFaults
    /\ left \subseteq Names
    /\ raced \in [Writers -> SUBSET Files]
    /\ doubt \subseteq Files

-----------------------------------------------------------------------------
(* Helpers *)

Goto(w, label) == pc' = [pc EXCEPT ![w] = label]

\* A call fails, or a process is killed.
Fault == faults < MaxFaults /\ faults' = faults + 1

\* writeMarkdown returns.
Return(w) ==
    /\ Goto(w, "idle")
    /\ job' = [job EXCEPT ![w] = NoJob]
    /\ raced' = [raced EXCEPT ![w] = {}]

\* Another process changes the file a process is recording.
Overtake(w, f) ==
    raced' = [v \in Writers |->
                 IF v # w /\ pc[v] \in Recording /\ job[v].cur = f
                 THEN raced[v] \cup {f} ELSE raced[v]]

-----------------------------------------------------------------------------
(* writeMarkdown *)

\* os.WriteFile opens the export and truncates it ...
Begin(w) ==
    /\ pc[w] = "idle"
    /\ \E f \in Files, v \in Versions \ {0} :
          /\ job' = [job EXCEPT ![w] = [@ EXCEPT !.cur = f, !.body = v]]
          /\ content' = [content EXCEPT ![f] = 0]
          /\ Overtake(w, f)
    /\ Goto(w, "fill")
    /\ UNCHANGED <<manifest, temps, faults, left, doubt>>

\* ... and writes the new content.  If another process has written a longer one
\* in between, its tail stays.
Fill(w) ==
    /\ pc[w] = "fill"
    /\ LET f == job[w].cur IN
          /\ \/ content' = [content EXCEPT ![f] = job[w].body]
             \/ content[f] \notin {0, job[w].body} /\ content' = [content EXCEPT ![f] = 0]
          /\ Overtake(w, f)
    /\ Goto(w, "load")
    /\ UNCHANGED <<manifest, temps, job, faults, left, doubt>>

\* An export that cannot be written is the caller's error; the manifest stays.  A
\* process killed in the middle of the write leaves the same.
FillFails(w) ==
    /\ pc[w] = "fill" /\ Fault
    /\ content' = [content EXCEPT ![job[w].cur] = 0]
    /\ Goto(w, "idle")
    /\ job' = [job EXCEPT ![w] = NoJob]
    /\ Overtake(w, job[w].cur)
    /\ UNCHANGED <<manifest, temps, left, doubt>>

\* A faulty variant of Fallback: a nil map.
FallbackNil == None

\* loadManifest: what cannot be read or parsed counts as an empty manifest.
Fallback == Empty

LoadManifest(w) ==
    /\ pc[w] = "load"
    /\ \/ UNCHANGED faults /\ manifest.whole
          /\ job' = [job EXCEPT ![w].snap = manifest.data]
       \/ /\ IF manifest.whole THEN Fault ELSE UNCHANGED faults
          /\ job' = [job EXCEPT ![w] = [@ EXCEPT !.snap = Fallback, !.blind = TRUE]]
    /\ Goto(w, "create")
    /\ UNCHANGED <<content, manifest, temps, left, raced, doubt>>

\* A faulty variant of Entered: only files not in the manifest yet are entered.
EnteredOnce(j) == [j.snap EXCEPT ![j.cur] = IF @ = 0 THEN j.body ELSE @]

\* The manifest to save.
Entered(j) == [j.snap EXCEPT ![j.cur] = j.body]

\* A faulty variant of FreeName: one fixed name for all (fixed for the state file in 2.1.0).
FreeNameFixed(n) == n = CHOOSE m \in Names : TRUE

\* os.CreateTemp opens a file that did not exist.
FreeName(n) == temps[n] = None

CreateTemp(w) ==
    /\ pc[w] = "create"
    /\ \E n \in Names :
          /\ FreeName(n)
          /\ temps' = [temps EXCEPT ![n] = Part(Empty)]
          /\ job' = [job EXCEPT ![w].tmp = n]
    /\ Goto(w, "temp")
    /\ UNCHANGED <<content, manifest, faults, left, raced, doubt>>

WriteTemp(w) ==
    /\ pc[w] = "temp"
    /\ temps' = [temps EXCEPT ![job[w].tmp] = Whole(Entered(job[w]))]
    /\ Goto(w, "rename")
    /\ UNCHANGED <<content, manifest, job, faults, left, raced, doubt>>

\* What a process writes back out of date: entries made since it loaded the
\* manifest or, if it could not load it, all of them.
Suspect(w) == IF job[w].blind THEN Files ELSE raced[w]

\* os.Rename replaces the manifest in one step.
Rename(w) ==
    /\ pc[w] = "rename"
    /\ manifest' = temps[job[w].tmp]
    /\ temps' = [temps EXCEPT ![job[w].tmp] = None]
    /\ LET f == job[w].cur
           written == Suspect(w) \cup {f}
       IN  /\ doubt' = (doubt \ {f}) \cup (Suspect(w) \ {f}) \cup (raced[w] \cap {f})
           /\ raced' = [v \in Writers |->
                  IF v = w THEN {}
                  ELSE IF pc[v] \in Saving THEN raced[v] \cup (written \ {job[v].cur})
                  ELSE raced[v]]
    /\ Goto(w, "idle")
    /\ job' = [job EXCEPT ![w] = NoJob]
    /\ UNCHANGED <<content, faults, left>>

\* A faulty variant of RemoveTemp: the error is returned and the file forgotten.
RemoveTempNever(w) == Fault /\ UNCHANGED <<temps, left>>

\* The error paths remove the temporary file, if they can.
RemoveTemp(w) ==
    LET n == job[w].tmp IN
    /\ Fault
    /\ \/ temps' = [temps EXCEPT ![n] = None] /\ UNCHANGED left
       \/ left' = left \cup {n} /\ UNCHANGED temps

\* saveManifest fails: CreateTemp, Write, Close or Rename.  The hash is not
\* recorded, and the export counts as written all the same.
SaveFails(w) ==
    /\ \/ pc[w] = "create" /\ Fault /\ UNCHANGED <<temps, left>>
       \/ pc[w] \in {"temp", "rename"} /\ RemoveTemp(w)
    /\ doubt' = doubt \cup {job[w].cur}
    /\ Return(w)
    /\ UNCHANGED <<content, manifest>>

-----------------------------------------------------------------------------
(* The process is killed anywhere *)

Kill(w) ==
    /\ pc[w] # "idle" /\ Fault
    /\ left' = left \cup (IF pc[w] \in {"temp", "rename"} THEN {job[w].tmp} ELSE {})
    /\ doubt' = doubt \cup (IF pc[w] \in Recording THEN {job[w].cur} ELSE {})
    /\ Return(w)
    /\ UNCHANGED <<content, manifest, temps>>

-----------------------------------------------------------------------------
(* Specification *)

Init ==
    /\ content = Empty /\ manifest = Whole(Empty)
    /\ temps = [n \in Names |-> None]
    /\ pc = [w \in Writers |-> "idle"] /\ job = [w \in Writers |-> NoJob]
    /\ faults = 0 /\ left = {}
    /\ raced = [w \in Writers |-> {}] /\ doubt = {}

Step(w) ==
    \/ Begin(w) \/ Fill(w) \/ FillFails(w) \/ LoadManifest(w) \/ CreateTemp(w)
    \/ WriteTemp(w) \/ Rename(w) \/ SaveFails(w) \/ Kill(w)

Next == \E w \in Writers : Step(w)

Spec == Init /\ [][Next]_vars

-----------------------------------------------------------------------------
(* Properties *)

\* However the saves of several processes interleave and wherever they are killed,
\* .content-hashes.json is a complete manifest one of them has written (saveManifest:
\* a temporary file of its own, renamed).
ManifestNeverTorn == manifest.whole

\* A temporary file belongs to a save under way, or its process was killed or could
\* not remove it: an error path leaves nothing behind (saveManifest's os.Remove).
\* What is left stays: no sweep looks for it.
TempsAccountedFor ==
    \A n \in Names \ left : temps[n] # None =>
        \E w \in Writers : pc[w] \in {"temp", "rename"} /\ job[w].tmp = n

\* Of a complete export nobody is writing, the manifest has the hash of just this
\* content, unless the save of that hash failed or was cut short, a later save
\* could not read the manifest, or the saves of two processes overlapped
\* (writeMarkdown records every file by itself, for harvests that are interrupted).
HashesMatch ==
    \A f \in Files \ doubt :
        content[f] # 0 /\ (\A w \in Writers : job[w].cur # f) =>
            manifest.data[f] = content[f]

=============================================================================
