---------------------------- MODULE SessionProofs ----------------------------
(***************************************************************************)
(* Proofs about Session: whatever claude.ai answers, for any account, any  *)
(* number of pages and any number of retries, no export is replaced by     *)
(* anything but content, a session that ends without an error has          *)
(* exported everything, every request gets further and there are finitely  *)
(* many of them, every item is settled once (the refinement of Harvest),   *)
(* and the next run reads back the stamps this one wrote.                  *)
(***************************************************************************)
EXTENDS Session, FiniteSets, TLAPS, WellFoundedInduction, FiniteSetTheorems

MdP == INSTANCE MarkdownProofs WITH NoStamp <- None

Listing == {"orgs", "sample", "list"}
Surfaces == {"projects", "docs", "memory"}

\* The types the arguments below need.
Types ==
    /\ mode \in Modes /\ kind \in Kinds \cup {"done"} /\ page \in 1 .. Pages
    /\ todo \subseteq Convs \cup Projects /\ listed \subseteq Convs
    /\ export \in [Convs \cup Projects -> Contents]

\* Which requests belong to which session, and what the current one is for.
Place ==
    /\ kind = "done" <=> outcome # "running"
    /\ kind \in {"orgs", "sample"} => errs = {}
    /\ kind = "sample" => mode \in {"smoke", "probe"}
    /\ kind = "list" => mode \in ChatModes \cup {"probe"}
    /\ kind = "conv" => mode \in ChatModes /\ item \in Convs /\ todo \subseteq Convs
    /\ kind \in Surfaces => mode \in SurfaceModes \cup {"probe"}
    /\ kind = "docs" /\ mode # "probe" => item \in Projects /\ todo \subseteq Projects

Ends == {"ok", "errors"}

\* The pages before the current one have been listed, and after the last one
\* the whole account.
Listed ==
    /\ kind \in Listing => \A n \in 1 .. Pages : n < page => Page[n] \subseteq listed
    /\ mode \in ChatModes /\ (kind \in Surfaces \cup {"conv"} \/ outcome \in Ends) => listed = Convs

\* A conversation that was listed is still to do, an error, or exported.
ConvsDone ==
    /\ kind = "conv" => \A c \in Convs : c \in todo \cup errs \/ export[c] # "old"
    /\ mode \in ChatModes /\ (kind \in Surfaces \/ outcome \in Ends) =>
          \A c \in Convs : c \in errs \/ export[c] # "old"

\* So is a project, unless the list of projects itself is an error.
ProjectsDone ==
    /\ kind = "docs" /\ mode # "probe" => \A p \in Projects : p \in todo \cup errs \/ export[p] = "genuine"
    /\ mode \in SurfaceModes /\ (kind = "memory" \/ outcome \in Ends) =>
          "projects" \in errs \/ \A p \in Projects : p \in errs \/ export[p] = "genuine"

\* A probe has counted the whole account, or some page failed.
Counted ==
    mode = "probe" /\ (kind \in Surfaces \/ outcome \in Ends) =>
        listed = Convs \/ "list" \in errs

Inv == Types /\ Place /\ Listed /\ ConvsDone /\ ProjectsDone /\ Counted
       /\ (outcome = "ok" => errs = {}) /\ NothingButContent

LEMMA InitInv == Init => Inv
<1> SUFFICES ASSUME Init PROVE Inv
    OBVIOUS
<1>1. page \in 1 .. Pages /\ \A n \in 1 .. Pages : ~(n < page)
    BY PageAssumption DEF Init
<1>2. Types
    BY <1>1 DEF Init, Types, Kinds, Contents
<1>3. Place /\ Listed /\ ConvsDone /\ ProjectsDone /\ Counted
    BY <1>1 DEF Init, Place, Listed, ConvsDone, ProjectsDone, Counted, Listing, Surfaces, Ends
<1> QED
    BY <1>2, <1>3 DEF Inv, Init, NothingButContent

LEMMA InvImplies == Inv => NothingButContent /\ CleanIsComplete
<1> SUFFICES ASSUME Inv, outcome = "ok" PROVE CleanIsComplete
    BY DEF Inv, CleanIsComplete
<1>1. errs = {}
    BY DEF Inv
<1> QED
    BY <1>1 DEF Inv, CleanIsComplete, Counted, ConvsDone, ProjectsDone, Ends

-----------------------------------------------------------------------------
\* The ways to move on.

\* A session that is aborted claims nothing.
LEMMA AbortInv == ASSUME Inv, Abort, UNCHANGED <<mode, export, memory>> PROVE Inv'
BY DEF Abort, End, Inv, Types, Place, Listed, Counted, ConvsDone, ProjectsDone, NothingButContent,
       ChatModes, SurfaceModes, Kinds, Listing, Surfaces, Ends

\* After a step of the loop over conversations.
LEMMA NextConvInv ==
    ASSUME Types, mode \in ChatModes, outcome = "running",
           NEW left \in SUBSET Convs, NEW es, NextConv(left, es), UNCHANGED mode,
           listed' = Convs, export' \in [Convs \cup Projects -> Contents], NothingButContent',
           \A c \in Convs : c \in left \cup es \/ export'[c] # "old"
    PROVE  Inv'
<1>1. CASE left # {}
    BY <1>1 DEF NextConv, Request, Inv, Types, Place, Listed, Counted, ConvsDone, ProjectsDone,
        ChatModes, SurfaceModes, Kinds, Listing, Surfaces, Ends
<1>2. CASE left = {} /\ mode = "harvest"
    BY <1>2 DEF NextConv, Request, Inv, Types, Place, Listed, Counted, ConvsDone, ProjectsDone,
        ChatModes, SurfaceModes, Kinds, Listing, Surfaces, Ends
<1>3. CASE left = {} /\ mode # "harvest"
    <2>1. mode = "chats"
        BY <1>3 DEF ChatModes
    <2> QED
        BY <1>3, <2>1 DEF NextConv, End, Inv, Types, Place, Listed, Counted, ConvsDone, ProjectsDone,
            ChatModes, SurfaceModes, Kinds, Listing, Surfaces, Ends
<1> QED
    BY <1>1, <1>2, <1>3

\* What the surfaces leave alone: the conversations.
Chats == mode \in ChatModes => listed = Convs /\ \A c \in Convs : c \in errs \/ export[c] # "old"

\* After a step of the loop over projects.
LEMMA NextProjectInv ==
    ASSUME Types, mode \in SurfaceModes, outcome = "running",
           NEW left \in SUBSET Projects, NEW es, NextProject(left, es), UNCHANGED <<mode, listed>>,
           export' \in [Convs \cup Projects -> Contents], NothingButContent', Chats',
           "projects" \in es \/ \A p \in Projects : p \in left \cup es \/ export'[p] = "genuine",
           left # {} => \A p \in Projects : p \in left \cup es \/ export'[p] = "genuine"
    PROVE  Inv'
<1>1. CASE left # {}
    BY <1>1 DEF NextProject, Request, Chats, Inv, Types, Place, Listed, Counted, ConvsDone, ProjectsDone,
        ChatModes, SurfaceModes, Kinds, Listing, Surfaces, Ends
<1>2. CASE left = {}
    BY <1>2 DEF NextProject, Request, Chats, Inv, Types, Place, Listed, Counted, ConvsDone, ProjectsDone,
        ChatModes, SurfaceModes, Kinds, Listing, Surfaces, Ends
<1> QED
    BY <1>1, <1>2

\* A step of the probe.
LEMMA ProbeOnInv ==
    ASSUME Inv, mode = "probe", outcome = "running", NEW k \in {"list", "projects", "memory"},
           NEW es, ProbeOn(k, es), UNCHANGED <<mode, export, memory>>, listed' \in SUBSET Convs,
           k = "list" \/ listed' = Convs \/ "list" \in errs'
    PROVE  Inv'
<1>1. 1 \in 1 .. Pages /\ \A n \in 1 .. Pages : ~(n < 1)
    BY PageAssumption
<1> QED
    BY <1>1 DEF ProbeOn, Request, Inv, Types, Place, Listed, Counted, ConvsDone, ProjectsDone,
        NothingButContent, ChatModes, SurfaceModes, Kinds, Listing, Surfaces, Ends

\* The end of the session after the memory.
LEMMA MemoryInv ==
    ASSUME Inv, kind = "memory", NEW o \in Ends, End(o), o = "ok" => errs' = {},
           errs \subseteq errs', UNCHANGED <<mode, listed, export>>, memory' \in {"old", "genuine"}
    PROVE  Inv'
BY DEF End, Inv, Types, Place, Listed, Counted, ConvsDone, ProjectsDone, NothingButContent,
       ChatModes, SurfaceModes, Kinds, Listing, Surfaces, Ends

-----------------------------------------------------------------------------
\* One lemma per kind of request.

LEMMA OrgsInv == ASSUME Inv, NEW a \in Answers, GotOrgs(a), UNCHANGED mode PROVE Inv'
<1>1. CASE Abort
    BY <1>1, AbortInv DEF GotOrgs
<1>2. CASE Request(FirstKind, 1, None)
           /\ UNCHANGED <<todo, outcome, errs, listed>>
    <2>1. 1 \in 1 .. Pages /\ \A n \in 1 .. Pages : ~(n < 1)
        BY PageAssumption
    <2>2. outcome = "running" /\ UNCHANGED <<export, memory>>
        BY <1>2 DEF GotOrgs, Inv, Place
    <2>3. PICK k \in {"list", "projects", "sample"} :
             /\ Request(k, 1, None)
             /\ k = "list" => mode \in ChatModes
             /\ k = "projects" => mode = "surfaces"
             /\ k = "sample" => mode \in {"smoke", "probe"}
        <3>1. mode \in Modes
            BY DEF Inv, Types
        <3>2. CASE mode \in ChatModes
            BY <1>2, <3>2 DEF FirstKind, ChatModes
        <3>3. CASE mode = "surfaces"
            BY <1>2, <3>3 DEF FirstKind, ChatModes
        <3>4. CASE mode \in {"smoke", "probe"}
            BY <1>2, <3>4 DEF FirstKind, ChatModes
        <3> QED
            BY <3>1, <3>2, <3>3, <3>4 DEF Modes, ChatModes, SurfaceModes
    <2>4. errs = {}
        BY DEF GotOrgs, Inv, Place
    <2>5. CASE k = "list"
        BY <1>2, <2>1, <2>2, <2>3, <2>4, <2>5 DEF Request, Inv, Types, Place, Listed, Counted,
            ConvsDone, ProjectsDone, NothingButContent, ChatModes, Kinds, Listing, Surfaces, Ends
    <2>6. CASE k = "projects"
        BY <1>2, <2>1, <2>2, <2>3, <2>4, <2>6 DEF Request, Inv, Types, Place, Listed, Counted,
            ConvsDone, ProjectsDone, NothingButContent, ChatModes, SurfaceModes, Kinds, Listing,
            Surfaces, Ends
    <2>7. CASE k = "sample"
        BY <1>2, <2>1, <2>2, <2>3, <2>4, <2>7 DEF Request, Inv, Types, Place, Listed, Counted,
            ConvsDone, ProjectsDone, NothingButContent, ChatModes, SurfaceModes, Kinds, Listing,
            Surfaces, Ends
    <2> QED
        BY <2>5, <2>6, <2>7
<1> QED
    BY <1>1, <1>2 DEF GotOrgs

LEMMA SampleInv == ASSUME Inv, NEW a \in Answers, GotSample(a), UNCHANGED mode PROVE Inv'
<1>0. outcome = "running" /\ UNCHANGED <<export, memory>>
    BY DEF GotSample, Inv, Place
<1>1. CASE Abort
    BY <1>0, <1>1, AbortInv
<1>2. CASE mode = "smoke" /\ End("ok") /\ UNCHANGED <<errs, listed>>
    <2>1. errs' = {}
        BY <1>2 DEF GotSample, Inv, Place
    <2> QED
        BY <1>0, <1>2, <2>1 DEF End, Inv, Types, Place, Listed, Counted, ConvsDone, ProjectsDone,
            NothingButContent, ChatModes, SurfaceModes, Kinds, Listing, Surfaces, Ends
<1>3. CASE mode = "probe" /\ ProbeOn("list", {}) /\ UNCHANGED listed
    BY <1>0, <1>3, ProbeOnInv DEF Inv, Types
<1> QED
    BY <1>1, <1>2, <1>3 DEF GotSample

LEMMA ListFailsInv ==
    ASSUME Inv, kind = "list", ListFails, UNCHANGED <<mode, export, memory>>
    PROVE  Inv'
<1>1. CASE Abort
    BY <1>1, AbortInv
<1>2. CASE mode = "probe" /\ ProbeOn("projects", {"list"}) /\ UNCHANGED listed
    <2>1. outcome = "running" /\ "list" \in errs' /\ listed' \in SUBSET Convs
        BY <1>2 DEF ProbeOn, Inv, Place, Types
    <2> QED
        BY <1>2, <2>1, ProbeOnInv
<1> QED
    BY <1>1, <1>2 DEF ListFails

LEMMA PageInv == ASSUME Inv, NEW a \in Answers, GotPage(a), UNCHANGED mode PROVE Inv'
<1>0. kind = "list" /\ mode \in ChatModes \cup {"probe"} /\ outcome = "running" /\ UNCHANGED <<export, memory>>
    BY DEF GotPage, Inv, Place
<1>1. page \in 1 .. Pages /\ Page[page] \subseteq Convs /\ Pages \in Nat
    BY PageAssumption DEF Inv, Types
<1>2. CASE a # "genuine"
    BY <1>0, <1>2, ListFailsInv DEF GotPage
<1>3. CASE a = "genuine" /\ page < Pages
    <2>1. listed' = listed \cup Page[page] /\ Request("list", page + 1, None)
          /\ UNCHANGED <<todo, outcome, errs>>
        BY <1>3 DEF GotPage
    <2>2. \A n \in 1 .. Pages : n < page + 1 => Page[n] \subseteq listed'
        BY <1>0, <1>1, <2>1 DEF Inv, Listed, Listing
    <2>3. page + 1 \in 1 .. Pages
        BY <1>1, <1>3
    <2> QED
        BY <1>0, <1>1, <2>1, <2>2, <2>3 DEF Request, Inv, Types, Place, Listed, Counted, ConvsDone,
            ProjectsDone, NothingButContent, ChatModes, SurfaceModes, Kinds, Listing, Surfaces, Ends
<1>4. CASE a = "genuine" /\ ~(page < Pages)
    <2>1. listed' = listed \cup Page[page]
        BY <1>4 DEF GotPage
    <2>2. \A n \in 1 .. Pages : n < page \/ n = page
        BY <1>1, <1>4
    <2>3. \A n \in 1 .. Pages : Page[n] \subseteq listed'
        BY <1>0, <1>1, <2>1, <2>2 DEF Inv, Listed, Listing
    <2>4. listed' = Convs
        BY <1>1, <2>1, <2>3, PageAssumption DEF Inv, Types
    <2>5. CASE mode = "probe"
        BY <1>0, <1>4, <2>4, <2>5, ProbeOnInv DEF GotPage
    <2>6. CASE mode \in ChatModes
        <3>1. mode # "probe"
            BY <2>6 DEF ChatModes
        <3>2. NextConv(Convs, errs)
            BY <1>4, <2>4, <3>1 DEF GotPage
        <3> QED
            BY <1>0, <2>4, <2>6, <3>2, NextConvInv DEF Inv, Types, NothingButContent
    <2> QED
        BY <1>0, <2>5, <2>6
<1> QED
    BY <1>2, <1>3, <1>4

LEMMA ConvInv == ASSUME Inv, NEW a \in Answers, GotConv(a), UNCHANGED mode PROVE Inv'
<1>1. /\ kind = "conv" /\ mode \in ChatModes /\ outcome = "running" /\ item \in Convs
      /\ todo \subseteq Convs /\ listed = Convs /\ UNCHANGED <<listed, memory>>
      /\ Types /\ NothingButContent /\ \A c \in Convs : c \in todo \cup errs \/ export[c] # "old"
    BY DEF GotConv, Inv, Place, Listed, ConvsDone
<1>2. CASE Writable(a) /\ export' = [export EXCEPT ![item] = a] /\ NextConv(todo \ {item}, errs)
    <2>1. a \in {"genuine", "mangled"}
        BY <1>2 DEF Writable
    <2>2. export' \in [Convs \cup Projects -> Contents] /\ export'[item] = a
          /\ \A i \in (Convs \cup Projects) \ {item} : export'[i] = export[i]
        BY <1>1, <1>2 DEF Types, Contents
    <2>3. NothingButContent'
        BY <1>1, <2>1, <2>2, NameAssumption DEF NothingButContent
    <2> QED
        BY <1>1, <1>2, <2>1, <2>2, <2>3, NextConvInv
<1>3. CASE UNCHANGED export /\ NextConv(todo \ {item}, errs \cup {item})
    <2>1. NothingButContent' /\ export' \in [Convs \cup Projects -> Contents]
        BY <1>1, <1>3 DEF NothingButContent, Types
    <2> QED
        BY <1>1, <1>3, <2>1, NextConvInv
<1> QED
    BY <1>2, <1>3 DEF GotConv

LEMMA ProbeProjectsInv ==
    ASSUME Inv, kind = "projects", mode = "probe", NEW a \in Answers, ProbeProjects(a),
           UNCHANGED <<mode, listed, export, memory>>
    PROVE  Inv'
<1>1. outcome = "running" /\ listed \in SUBSET Convs /\ (listed = Convs \/ "list" \in errs)
    BY DEF Inv, Place, Types, Counted, Surfaces
<1>2. CASE \E es : ProbeOn("memory", es)
    <2>1. PICK es : ProbeOn("memory", es)
        BY <1>2
    <2>2. errs \subseteq errs'
        BY <2>1 DEF ProbeOn
    <2> QED
        BY <1>1, <2>1, <2>2, ProbeOnInv
<1>3. CASE (\E p \in Projects : Request("docs", 1, p)) /\ UNCHANGED <<errs, todo, outcome>>
    <2>1. 1 \in 1 .. Pages
        BY PageAssumption
    <2> QED
        BY <1>1, <1>3, <2>1 DEF Request, Inv, Types, Place, Listed, Counted, ConvsDone, ProjectsDone,
            NothingButContent, ChatModes, SurfaceModes, Kinds, Listing, Surfaces, Ends
<1> QED
    BY <1>2, <1>3 DEF ProbeProjects

LEMMA ProjectsInv ==
    ASSUME Inv, mode # "probe", NEW a \in Answers, GotProjects(a), UNCHANGED mode
    PROVE  Inv'
<1>1. /\ kind = "projects" /\ mode \in SurfaceModes /\ outcome = "running"
      /\ UNCHANGED <<listed, export, memory>> /\ Types /\ NothingButContent /\ Chats
    BY DEF GotProjects, Inv, Place, Listed, ConvsDone, Chats, Surfaces
<1>2. NothingButContent' /\ export' \in [Convs \cup Projects -> Contents]
    BY <1>1 DEF NothingButContent, Types
<1>3. errs \subseteq errs'
    BY DEF GotProjects, NextProject
<1>4. Chats'
    BY <1>1, <1>3 DEF Chats
<1>5. NextProject(Projects, errs) \/ NextProject({}, errs \cup {"projects"})
    BY DEF GotProjects
<1> QED
    BY <1>1, <1>2, <1>4, <1>5, NextProjectInv

LEMMA DocsInv ==
    ASSUME Inv, mode # "probe", NEW a \in Answers, GotDocs(a), UNCHANGED mode
    PROVE  Inv'
<1>1. /\ kind = "docs" /\ mode \in SurfaceModes /\ outcome = "running" /\ item \in Projects
      /\ todo \subseteq Projects /\ UNCHANGED <<listed, memory>>
      /\ Types /\ NothingButContent /\ Chats
      /\ \A p \in Projects : p \in todo \cup errs \/ export[p] = "genuine"
    BY DEF GotDocs, Inv, Place, Listed, ConvsDone, ProjectsDone, Chats, Surfaces
<1>2. CASE a = "genuine" /\ export' = [export EXCEPT ![item] = a] /\ NextProject(todo \ {item}, errs)
    <2>1. export' \in [Convs \cup Projects -> Contents] /\ export'[item] = "genuine"
          /\ \A i \in (Convs \cup Projects) \ {item} : export'[i] = export[i]
        BY <1>1, <1>2 DEF Types, Contents
    <2>2. NothingButContent'
        BY <1>1, <2>1, NameAssumption DEF NothingButContent
    <2>3. errs' = errs
        BY <1>2 DEF NextProject
    <2>4. Chats'
        BY <1>1, <2>1, <2>3, NameAssumption DEF Chats
    <2> QED
        BY <1>1, <1>2, <2>1, <2>2, <2>4, NextProjectInv
<1>2a. CASE export' = [export EXCEPT ![item] = "partial"] /\ NextProject(todo \ {item}, errs \cup {item})
    <2>1. export' \in [Convs \cup Projects -> Contents] /\ export'[item] = "partial"
          /\ \A i \in (Convs \cup Projects) \ {item} : export'[i] = export[i]
        BY <1>1, <1>2a DEF Types, Contents
    <2>2. NothingButContent'
        BY <1>1, <2>1, NameAssumption DEF NothingButContent
    <2>3. Chats'
        BY <1>1, <1>2a, <2>1, NameAssumption DEF Chats, NextProject
    <2> QED
        BY <1>1, <1>2a, <2>1, <2>2, <2>3, NextProjectInv
<1>3. CASE UNCHANGED export /\ NextProject(todo \ {item}, errs \cup {item})
    <2>1. NothingButContent' /\ export' \in [Convs \cup Projects -> Contents]
        BY <1>1, <1>3 DEF NothingButContent, Types
    <2>2. Chats'
        BY <1>1, <1>3 DEF Chats, NextProject
    <2> QED
        BY <1>1, <1>3, <2>1, <2>2, NextProjectInv
<1> QED
    BY <1>2, <1>2a, <1>3 DEF GotDocs

LEMMA GotMemoryInv == ASSUME Inv, NEW a \in Answers, GotMemory(a), UNCHANGED mode PROVE Inv'
<1>1. memory \in {"old", "genuine"}
    BY DEF Inv, NothingButContent
<1>2. /\ kind = "memory" /\ UNCHANGED <<listed, export>> /\ memory' \in {"old", "genuine"}
      /\ errs \subseteq errs' /\ End(IF errs' = {} THEN "ok" ELSE "errors")
    BY <1>1 DEF GotMemory
<1>3. CASE errs' = {}
    BY <1>2, <1>3, MemoryInv DEF Ends
<1>4. CASE errs' # {}
    BY <1>2, <1>4, MemoryInv DEF Ends
<1> QED
    BY <1>3, <1>4

\* A request that was given up: like an answer that is no use, or a hard error.
LEMMA FailedInv == ASSUME Inv, ~Raw, NEW a \in Answers, Failed(a), UNCHANGED mode PROVE Inv'
<1>0. UNCHANGED <<export, memory>> /\ NothingButContent' /\ export' \in [Convs \cup Projects -> Contents]
    BY DEF Failed, Inv, Types, NothingButContent
<1>1. CASE Abort
    BY <1>0, <1>1, AbortInv
<1>2. CASE kind = "conv" /\ NextConv(todo \ {item}, errs \cup {item}) /\ UNCHANGED listed
    BY <1>0, <1>2, NextConvInv DEF Inv, Place, Listed, ConvsDone
<1>3. CASE kind = "projects" /\ NextProject({}, errs \cup {"projects"}) /\ UNCHANGED listed
    <2>1. outcome = "running" /\ mode \in SurfaceModes \cup {"probe"}
        BY <1>3 DEF Inv, Place, Surfaces
    <2>2. CASE mode \in SurfaceModes
        <3>1. Chats'
            BY <1>0, <1>3 DEF Inv, Listed, ConvsDone, Chats, NextProject, Surfaces
        <3> QED
            BY <1>0, <1>3, <2>1, <2>2, <3>1, NextProjectInv DEF Inv
    <2>3. CASE mode = "probe"
        BY <1>0, <1>3, <2>1, <2>3 DEF NextProject, Request, Inv, Types, Place, Listed, Counted,
            ConvsDone, ProjectsDone, ChatModes, SurfaceModes, Kinds, Listing, Surfaces, Ends
    <2> QED
        BY <2>1, <2>2, <2>3
<1>4. CASE kind = "docs" /\ NextProject(todo \ {item}, errs \cup {item}) /\ UNCHANGED listed
    <2>1. Chats'
        BY <1>0, <1>4 DEF Inv, Listed, ConvsDone, Chats, NextProject, Surfaces
    <2> QED
        BY <1>0, <1>4, <2>1, NextProjectInv DEF Raw, Inv, Place, ProjectsDone, Surfaces
<1>5. CASE kind = "memory" /\ errs' = errs \cup {"memory"} /\ End("errors") /\ UNCHANGED listed
    BY <1>0, <1>5, MemoryInv DEF Ends, Inv, NothingButContent
<1>6. CASE kind = "list" /\ ListFails
    BY <1>0, <1>6, ListFailsInv
<1>7. CASE kind = "sample" /\ mode = "probe" /\ ProbeOn("list", {"sample"}) /\ UNCHANGED listed
    BY <1>0, <1>7, ProbeOnInv DEF Inv, Types, Place
<1> QED
    BY <1>1, <1>2, <1>3, <1>4, <1>5, <1>6, <1>7 DEF Failed

\* The probe's last requests.
LEMMA ShowInv == ASSUME Inv, Show PROVE Inv'
<1>1. /\ mode = "probe" /\ kind \in Surfaces /\ outcome = "running"
      /\ UNCHANGED <<mode, listed, errs, export, memory>>
      /\ listed = Convs \/ "list" \in errs
    BY DEF Show, Raw, Answer, Surfaces, Inv, Place, Counted
<1>2. CASE kind = "memory"
    <2>1. PICK o \in Ends : End(o) /\ (o = "ok" => errs = {})
        BY <1>2 DEF Show, Ends
    <2> QED
        BY <1>1, <1>2, <2>1 DEF End, Inv, Types, Place, Listed, Counted, ConvsDone, ProjectsDone,
            NothingButContent, ChatModes, SurfaceModes, Kinds, Listing, Surfaces, Ends
<1>3. CASE kind = "docs" /\ UNCHANGED <<kind, page, item, todo, outcome>>
    BY <1>1, <1>3 DEF Inv, Types, Place, Listed, Counted, ConvsDone, ProjectsDone,
        NothingButContent, ChatModes, SurfaceModes, Kinds, Listing, Surfaces, Ends
<1>4. CASE Request("memory", 1, None) /\ UNCHANGED <<todo, outcome>>
    <2>1. 1 \in 1 .. Pages
        BY PageAssumption
    <2> QED
        BY <1>1, <1>4, <2>1 DEF Request, Inv, Types, Place, Listed, Counted, ConvsDone, ProjectsDone,
            NothingButContent, ChatModes, SurfaceModes, Kinds, Listing, Surfaces, Ends
<1> QED
    BY <1>1, <1>2, <1>3, <1>4 DEF Show, Raw

LEMMA NextInv == Inv /\ [Next]_vars => Inv'
<1> SUFFICES ASSUME Inv, [Next]_vars PROVE Inv'
    OBVIOUS
<1>1. CASE Retry \/ Lighter \/ UNCHANGED vars
    BY <1>1 DEF Retry, Lighter, Answer, vars, Inv, Types, Place, Listed, Counted, ConvsDone, ProjectsDone,
        NothingButContent, Listing, Surfaces, Ends
<1>2. CASE GiveUp
    <2>1. UNCHANGED mode /\ ~Raw /\ Failed("limited") /\ "limited" \in Answers
        BY <1>2 DEF GiveUp, Answer, Answers
    <2> QED
        BY <2>1, FailedInv
<1>3. CASE Fail
    <2>1. PICK a \in Answers : Failed(a) /\ ~Raw /\ UNCHANGED mode
        BY <1>3 DEF Fail, Answer, Answers
    <2> QED
        BY <2>1, FailedInv
<1>4. CASE Accept
    <2>1. PICK a \in Answers : Got(a) /\ ~Raw /\ UNCHANGED mode
        BY <1>4 DEF Accept, Answer, Answers
    <2>2. CASE GotOrgs(a) \/ GotSample(a) \/ GotPage(a) \/ GotConv(a)
        BY <2>1, <2>2, OrgsInv, SampleInv, PageInv, ConvInv
    <2>3. CASE GotProjects(a) /\ mode = "probe"
        BY <2>1, <2>3, ProbeProjectsInv DEF GotProjects
    <2>4. CASE GotProjects(a) /\ mode # "probe"
        BY <2>1, <2>4, ProjectsInv
    <2>5. CASE GotDocs(a) \/ GotMemory(a)
        <3>1. mode # "probe"
            BY <2>1, <2>5 DEF Raw, GotDocs, GotMemory
        <3> QED
            BY <2>1, <2>5, <3>1, DocsInv, GotMemoryInv
    <2> QED
        BY <2>1, <2>2, <2>3, <2>4, <2>5 DEF Got
<1>5. CASE Show
    BY <1>5, ShowInv
<1> QED
    BY <1>1, <1>2, <1>3, <1>4, <1>5 DEF Next

LEMMA Invariance == Spec => []Inv
BY InitInv, NextInv, PTL DEF Spec

-----------------------------------------------------------------------------
\* The types.  Retries stay within their bound because every new request starts
\* with the first attempt.

Small ==
    /\ item \in Convs \cup Projects \cup {None} /\ variant \in Variants
    /\ kind # "done" => attempt \in 0 .. MaxRetry[kind]
    /\ errs \subseteq Convs \cup Projects \cup {"sample", "list", "projects", "memory"}
    /\ expired \in BOOLEAN /\ outcome \in {"running", "ok", "errors", "aborted"}

LEMMA TypesAreTypes == Inv /\ Small => TypeOK
BY DEF Inv, Small, Types, TypeOK, NothingButContent, Contents, Answers

LEMMA RequestSmall ==
    ASSUME NEW k \in Kinds, NEW n, NEW i \in Convs \cup Projects \cup {None}, Request(k, n, i)
    PROVE  item' \in Convs \cup Projects \cup {None} /\ variant' \in Variants
           /\ attempt' \in 0 .. MaxRetry[kind']
BY RetryAssumption DEF Request, Variants

LEMMA EndSmall ==
    ASSUME Small, NEW o \in {"ok", "errors", "aborted"}, End(o),
           errs' \subseteq errs \cup Convs \cup Projects \cup {"sample", "list", "projects", "memory"},
           expired' \in BOOLEAN
    PROVE  Small'
BY DEF Small, End

\* What a step that goes on to another request, or ends the session, does to the types.
Onward ==
    /\ errs' \subseteq errs \cup Convs \cup Projects \cup {"sample", "list", "projects", "memory"}
    /\ \/ /\ outcome' = outcome
          /\ \E k \in Kinds : \E n : \E i \in Convs \cup Projects \cup {None} : Request(k, n, i)
       \/ \E o \in {"ok", "errors", "aborted"} : End(o)

LEMMA OnwardSmall == ASSUME Small, Onward, expired' \in BOOLEAN PROVE Small'
<1>1. CASE \E o \in {"ok", "errors", "aborted"} : End(o)
    BY <1>1, EndSmall DEF Onward
<1>2. CASE outcome' = outcome
           /\ \E k \in Kinds : \E n : \E i \in Convs \cup Projects \cup {None} : Request(k, n, i)
    <2>1. /\ item' \in Convs \cup Projects \cup {None} /\ variant' \in Variants
          /\ attempt' \in 0 .. MaxRetry[kind']
        BY <1>2, RequestSmall
    <2> QED
        BY <1>2, <2>1 DEF Small, Onward
<1> QED
    BY <1>1, <1>2 DEF Onward

LEMMA AbortOnward == Abort => Onward
BY DEF Abort, Onward

LEMMA NextConvOnward ==
    ASSUME NEW left \in SUBSET Convs, NEW es, NextConv(left, es),
           es \subseteq errs \cup Convs \cup Projects
    PROVE  Onward
<1>1. "conv" \in Kinds /\ "projects" \in Kinds
    BY DEF Kinds
<1> QED
    BY <1>1 DEF NextConv, Onward

LEMMA NextProjectOnward ==
    ASSUME NEW left \in SUBSET Projects, NEW es, NextProject(left, es),
           es \subseteq errs \cup Projects \cup {"projects"}
    PROVE  Onward
<1>1. "docs" \in Kinds /\ "memory" \in Kinds
    BY DEF Kinds
<1> QED
    BY <1>1 DEF NextProject, Onward

LEMMA ProbeOnOnward ==
    ASSUME NEW k \in Kinds, NEW es \in SUBSET {"sample", "list", "projects"}, ProbeOn(k, es)
    PROVE  Onward
BY DEF ProbeOn, Onward

LEMMA ListFailsOnward == ListFails => Onward
<1>1. "projects" \in Kinds
    BY DEF Kinds
<1> QED
    BY <1>1, AbortOnward, ProbeOnOnward DEF ListFails

LEMMA FailedOnward == ASSUME Inv, ~Raw, NEW a \in Answers, Failed(a) PROVE Onward
<1>1. "list" \in Kinds
    BY DEF Kinds
<1>2. CASE kind \in {"orgs", "sample", "list"}
    BY <1>1, <1>2, AbortOnward, ListFailsOnward, ProbeOnOnward DEF Failed
<1>3. CASE kind = "conv"
    <2>1. item \in Convs /\ todo \subseteq Convs
        BY <1>3 DEF Inv, Place
    <2> QED
        BY <1>3, <2>1, AbortOnward, NextConvOnward DEF Failed
<1>4. CASE kind = "projects"
    BY <1>4, NextProjectOnward DEF Failed
<1>5. CASE kind = "docs"
    <2>1. item \in Projects /\ todo \subseteq Projects
        BY <1>5 DEF Inv, Place, Raw
    <2> QED
        BY <1>5, <2>1, NextProjectOnward DEF Failed
<1>6. CASE kind = "memory"
    BY <1>6 DEF Failed, Onward
<1> QED
    BY <1>2, <1>3, <1>4, <1>5, <1>6 DEF Failed

LEMMA GotOnward == ASSUME Inv, ~Raw, NEW a \in Answers, Got(a) PROVE Onward
<1>1. Kinds = {"orgs", "sample", "list", "conv", "projects", "docs", "memory"}
    BY DEF Kinds
<1>2. CASE GotOrgs(a)
    <2>1. FirstKind \in Kinds
        BY <1>1 DEF FirstKind
    <2> QED
        BY <1>2, <2>1, AbortOnward DEF GotOrgs, Onward
<1>3. CASE GotSample(a)
    <2>1. CASE End("ok") /\ UNCHANGED errs
        BY <2>1 DEF Onward
    <2> QED
        BY <1>1, <1>3, <2>1, AbortOnward, ProbeOnOnward DEF GotSample
<1>4. CASE GotPage(a)
    <2>1. listed' \subseteq Convs \/ a # "genuine"
        BY <1>4, PageAssumption DEF GotPage, Inv, Types
    <2>2. CASE Request("list", page + 1, None) /\ UNCHANGED <<todo, outcome, errs>>
        BY <1>1, <2>2 DEF Onward
    <2> QED
        BY <1>1, <1>4, <2>1, <2>2, ListFailsOnward, NextConvOnward, ProbeOnOnward DEF GotPage
<1>5. CASE GotConv(a)
    <2>1. item \in Convs /\ todo \subseteq Convs
        BY <1>5 DEF GotConv, Inv, Place
    <2> QED
        BY <1>5, <2>1, NextConvOnward DEF GotConv
<1>6. CASE GotProjects(a)
    <2>1. CASE ProbeProjects(a)
        <3>1. CASE (\E p \in Projects : Request("docs", 1, p)) /\ UNCHANGED <<errs, todo, outcome>>
            BY <1>1, <3>1 DEF Onward
        <3> QED
            BY <1>1, <2>1, <3>1, ProbeOnOnward DEF ProbeProjects
    <2> QED
        BY <1>6, <2>1, NextProjectOnward DEF GotProjects
<1>7. CASE GotDocs(a)
    <2>1. item \in Projects /\ todo \subseteq Projects
        BY <1>7 DEF GotDocs, Inv, Place, Raw
    <2> QED
        BY <1>7, <2>1, NextProjectOnward DEF GotDocs
<1>8. CASE GotMemory(a)
    BY <1>8 DEF GotMemory, Onward
<1> QED
    BY <1>2, <1>3, <1>4, <1>5, <1>6, <1>7, <1>8 DEF Got

LEMMA InitSmall == Init => Small
<1> SUFFICES ASSUME Init PROVE Small
    OBVIOUS
<1>1. attempt \in 0 .. MaxRetry[kind]
    BY RetryAssumption DEF Init, Kinds
<1>2. expired \in BOOLEAN
    BY DEF Init
<1>3. /\ item \in Convs \cup Projects \cup {None} /\ variant \in Variants
      /\ errs \subseteq Convs \cup Projects \cup {"sample", "list", "projects", "memory"}
      /\ outcome \in {"running", "ok", "errors", "aborted"}
    BY DEF Init, Variants
<1> QED
    BY <1>1, <1>2, <1>3 DEF Small

LEMMA SmallStep == Inv /\ Small /\ [Next]_vars => Small'
<1> SUFFICES ASSUME Inv, Small, [Next]_vars PROVE Small'
    OBVIOUS
<1>1. CASE UNCHANGED vars
    BY <1>1 DEF vars, Small
<1>2. CASE Retry
    <2>1. kind \in Kinds /\ ~(attempt >= MaxRetry[kind])
        BY <1>2 DEF Retry, Answer, Exhausted, Inv, Types
    <2>2. attempt \in 0 .. MaxRetry[kind] /\ MaxRetry[kind] \in Nat
        BY <2>1, RetryAssumption DEF Small, Kinds
    <2> QED
        BY <1>2, <2>1, <2>2 DEF Retry, Answer, Small
<1>3. CASE Lighter
    <2>1. 0 \in 0 .. MaxRetry["conv"]
        BY RetryAssumption DEF Kinds
    <2> QED
        BY <1>3, <2>1 DEF Lighter, Answer, Small, Variants
<1>4. CASE GiveUp \/ Fail
    <2>1. PICK a \in Answers : Failed(a) /\ ~Raw /\ expired' \in BOOLEAN
        BY <1>4 DEF GiveUp, Fail, Answer, Answers
    <2> QED
        BY <2>1, FailedOnward, OnwardSmall
<1>5. CASE Accept
    <2>1. PICK a \in Answers : Got(a) /\ ~Raw /\ expired' \in BOOLEAN
        BY <1>5 DEF Accept, Answer, Answers
    <2> QED
        BY <2>1, GotOnward, OnwardSmall
<1>6. CASE Show
    <2>1. expired' \in BOOLEAN /\ kind # "done" /\ UNCHANGED errs
        BY <1>6 DEF Show, Answer
    <2>2. CASE variant < 3 /\ variant' = variant + 1 /\ UNCHANGED <<kind, page, item, attempt, outcome>>
        BY <2>1, <2>2 DEF Small, Variants
    <2>3. CASE UNCHANGED outcome /\ Request("memory", 1, None)
        <3>1. "memory" \in Kinds
            BY DEF Kinds
        <3> QED
            BY <2>1, <2>3, <3>1, OnwardSmall DEF Onward
    <2>4. CASE \E o \in {"ok", "errors"} : End(o)
        BY <2>1, <2>4, OnwardSmall DEF Onward
    <2> QED
        BY <1>6, <2>2, <2>3, <2>4 DEF Show
<1> QED
    BY <1>1, <1>2, <1>3, <1>4, <1>5, <1>6 DEF Next

\* The variables of Session have their types; in particular no request is repeated
\* more often than its bound.
THEOREM SessionTypes == Spec => []TypeOK
<1>1. Spec => []Small
    BY InitSmall, SmallStep, Invariance, PTL DEF Spec
<1> QED
    BY <1>1, Invariance, TypesAreTypes, PTL

-----------------------------------------------------------------------------
\* No export is ever replaced by a challenge, a rate-limit body or an API error,
\* whatever claude.ai answers (convToMarkdown, harvestProjects, harvestMemory).
THEOREM OnlyContentIsWritten == Spec => []NothingButContent
BY Invariance, InvImplies, PTL

\* A session that ends without an error has exported every conversation and
\* every project of the account (listAllConversations, cdpHarvest).
THEOREM SuccessIsComplete == Spec => []CleanIsComplete
BY Invariance, InvImplies, PTL

-----------------------------------------------------------------------------
(* Every request gets further *)

\* What is asked for is something still to do.
ItemTodo == kind = "conv" \/ (kind = "docs" /\ mode # "probe") => item \in todo

\* One step of EveryStepAdvances.
Advances ==
    \/ Stage[kind] < Stage[kind']
    \/ kind' = kind /\ page < page'
    \/ UNCHANGED <<kind, page>> /\ todo' \subseteq todo /\ todo' # todo
    \/ UNCHANGED <<kind, page, todo, item>> /\ variant < variant'
    \/ UNCHANGED <<kind, page, todo, item, variant>> /\ attempt < attempt'

LEMMA StageIs ==
    /\ Stage["orgs"] = 0 /\ Stage["sample"] = 1 /\ Stage["list"] = 2 /\ Stage["conv"] = 3
    /\ Stage["projects"] = 4 /\ Stage["docs"] = 5 /\ Stage["memory"] = 6 /\ Stage["done"] = 7
BY DEF Stage

LEMMA EndAdvances ==
    ASSUME kind \in Kinds, NEW o, End(o)
    PROVE  Advances /\ ItemTodo'
<1>1. kind' = "done"
    BY DEF End
<1> QED
    BY <1>1, StageIs DEF Advances, ItemTodo, Kinds

LEMMA AbortAdvances ==
    ASSUME kind \in Kinds, Abort
    PROVE  Advances /\ ItemTodo'
BY EndAdvances DEF Abort

LEMMA NextConvAdvances ==
    ASSUME kind \in {"list", "conv"}, NEW left, NEW es, NextConv(left, es),
           kind = "conv" => left \subseteq todo /\ left # todo
    PROVE  Advances /\ ItemTodo'
<1>1. CASE left # {}
    <2>1. kind' = "conv" /\ todo' = left /\ item' \in left /\ page' = page
        BY <1>1 DEF NextConv, Request
    <2> QED
        BY <2>1, StageIs DEF Advances, ItemTodo
<1>2. CASE left = {} /\ mode = "harvest"
    <2>1. kind' = "projects"
        BY <1>2 DEF NextConv, Request
    <2> QED
        BY <2>1, StageIs DEF Advances, ItemTodo
<1>3. CASE left = {} /\ mode # "harvest"
    <2>1. kind' = "done"
        BY <1>3 DEF NextConv, End
    <2> QED
        BY <2>1, StageIs DEF Advances, ItemTodo
<1> QED
    BY <1>1, <1>2, <1>3

LEMMA NextProjectAdvances ==
    ASSUME kind \in {"projects", "docs"}, NEW left, NEW es, NextProject(left, es),
           kind = "docs" => left \subseteq todo /\ left # todo
    PROVE  Advances /\ ItemTodo'
<1>1. CASE left # {}
    <2>1. kind' = "docs" /\ todo' = left /\ item' \in left /\ page' = page
        BY <1>1 DEF NextProject, Request
    <2> QED
        BY <2>1, StageIs DEF Advances, ItemTodo
<1>2. CASE left = {}
    <2>1. kind' = "memory"
        BY <1>2 DEF NextProject, Request
    <2> QED
        BY <2>1, StageIs DEF Advances, ItemTodo
<1> QED
    BY <1>1, <1>2

\* The probe goes on to a later stage.
LEMMA ProbeAdvances ==
    ASSUME kind \in Kinds, mode' = "probe", NEW k \in Kinds \ {"conv"}, Stage[kind] < Stage[k],
           NEW n, NEW i, Request(k, n, i)
    PROVE  Advances /\ ItemTodo'
BY DEF Request, Advances, ItemTodo

LEMMA ListFailsAdvances ==
    ASSUME kind = "list", ListFails, UNCHANGED mode
    PROVE  Advances /\ ItemTodo'
<1>1. CASE mode = "probe" /\ ProbeOn("projects", {"list"})
    BY <1>1, ProbeAdvances, StageIs DEF ProbeOn, Kinds
<1> QED
    BY <1>1, AbortAdvances DEF ListFails, Kinds

LEMMA FailedAdvances ==
    ASSUME Inv, ItemTodo, ~Raw, kind \in Kinds, NEW a \in Answers, Failed(a), UNCHANGED mode
    PROVE  Advances /\ ItemTodo'
<1>1. CASE Abort
    BY <1>1, AbortAdvances
<1>2. CASE kind = "sample" /\ mode = "probe" /\ ProbeOn("list", {"sample"})
    BY <1>2, ProbeAdvances, StageIs DEF ProbeOn, Kinds
<1>3. CASE kind = "list" /\ ListFails
    BY <1>3, ListFailsAdvances
<1>4. CASE kind = "conv" /\ NextConv(todo \ {item}, errs \cup {item})
    BY <1>4, NextConvAdvances DEF ItemTodo
<1>5. CASE kind = "projects" /\ NextProject({}, errs \cup {"projects"})
    BY <1>5, NextProjectAdvances
<1>6. CASE kind = "docs" /\ NextProject(todo \ {item}, errs \cup {item})
    BY <1>6, NextProjectAdvances DEF ItemTodo, Raw
<1>7. CASE kind = "memory" /\ End("errors")
    BY <1>7, EndAdvances
<1> QED
    BY <1>1, <1>2, <1>3, <1>4, <1>5, <1>6, <1>7 DEF Failed

LEMMA GotAdvances ==
    ASSUME Inv, ItemTodo, ~Raw, kind \in Kinds, NEW a \in Answers, Got(a), UNCHANGED mode
    PROVE  Advances /\ ItemTodo'
<1>1. CASE Abort
    BY <1>1, AbortAdvances
<1>2. CASE GotOrgs(a) /\ Request(FirstKind, 1, None)
    <2>1. kind = "orgs" /\ FirstKind \in {"list", "projects", "sample"}
        BY <1>2 DEF GotOrgs, FirstKind
    <2>2. kind' = FirstKind
        BY <1>2 DEF Request
    <2> QED
        BY <2>1, <2>2, StageIs DEF Advances, ItemTodo
<1>3. CASE GotSample(a)
    <2>1. CASE mode = "probe" /\ ProbeOn("list", {})
        BY <1>3, <2>1, ProbeAdvances, StageIs DEF GotSample, ProbeOn, Kinds
    <2> QED
        BY <1>1, <1>3, <2>1, EndAdvances DEF GotSample
<1>4. CASE GotPage(a)
    <2>1. kind = "list" /\ page \in Nat
        BY <1>4, PageAssumption DEF GotPage, Inv, Types
    <2>2. CASE ListFails
        BY <2>1, <2>2, ListFailsAdvances
    <2>3. CASE Request("list", page + 1, None)
        <3>1. kind' = "list" /\ page' = page + 1
            BY <2>3 DEF Request
        <3> QED
            BY <2>1, <3>1 DEF Advances, ItemTodo
    <2>4. CASE mode = "probe" /\ ProbeOn("projects", {})
        BY <2>1, <2>4, ProbeAdvances, StageIs DEF ProbeOn, Kinds
    <2>5. CASE NextConv(listed', errs)
        BY <2>1, <2>5, NextConvAdvances
    <2> QED
        BY <1>4, <2>2, <2>3, <2>4, <2>5 DEF GotPage
<1>5. CASE GotConv(a)
    <2>1. kind = "conv" /\ todo \ {item} \subseteq todo /\ todo \ {item} # todo
        BY <1>5 DEF GotConv, ItemTodo
    <2>2. \E es : NextConv(todo \ {item}, es)
        BY <1>5 DEF GotConv
    <2> QED
        BY <2>1, <2>2, NextConvAdvances
<1>6. CASE GotProjects(a)
    <2>1. kind = "projects"
        BY <1>6 DEF GotProjects
    <2>2. CASE mode = "probe" /\ ProbeProjects(a)
        <3>1. \E k \in {"docs", "memory"} : \E i : Request(k, 1, i)
            BY <2>2 DEF ProbeProjects, ProbeOn
        <3> QED
            BY <2>1, <2>2, <3>1, ProbeAdvances, StageIs DEF Kinds
    <2>3. CASE \E left, es : NextProject(left, es)
        BY <2>1, <2>3, NextProjectAdvances
    <2> QED
        BY <1>6, <2>2, <2>3 DEF GotProjects
<1>7. CASE GotDocs(a)
    <2>1. kind = "docs" /\ todo \ {item} \subseteq todo /\ todo \ {item} # todo
        BY <1>7 DEF GotDocs, ItemTodo, Raw
    <2>2. \E es : NextProject(todo \ {item}, es)
        BY <1>7 DEF GotDocs
    <2> QED
        BY <2>1, <2>2, NextProjectAdvances
<1>8. CASE GotMemory(a)
    BY <1>8, EndAdvances DEF GotMemory
<1> QED
    BY <1>1, <1>2, <1>3, <1>4, <1>5, <1>6, <1>7, <1>8 DEF Got, GotOrgs

LEMMA NextAdvances ==
    ASSUME Inv, Small, ItemTodo, Next
    PROVE  Advances /\ ItemTodo'
<1>1. kind \in Kinds /\ UNCHANGED mode
    BY DEF Next, Retry, Lighter, GiveUp, Fail, Accept, Show, Answer, Inv, Types
<1>2. CASE Retry
    <2>1. attempt \in Nat
        BY <1>1, RetryAssumption DEF Small, Kinds
    <2> QED
        BY <1>1, <1>2, <2>1 DEF Retry, Advances, ItemTodo
<1>3. CASE Lighter
    BY <1>1, <1>3 DEF Lighter, Advances, ItemTodo, Small, Variants
<1>4. CASE GiveUp \/ Fail
    <2>1. ~Raw /\ \E a \in Answers : Failed(a)
        BY <1>4 DEF GiveUp, Fail, Answers
    <2> QED
        BY <1>1, <2>1, FailedAdvances
<1>5. CASE Accept
    <2>1. ~Raw /\ \E a \in Answers : Got(a)
        BY <1>5 DEF Accept, Answers
    <2> QED
        BY <1>1, <2>1, GotAdvances
<1>6. CASE Show
    <2>1. mode = "probe" /\ kind \in {"docs", "memory"}
        BY <1>6 DEF Show, Raw
    <2>2. CASE \E o : End(o)
        BY <1>1, <2>2, EndAdvances
    <2>3. CASE variant < 3 /\ variant' = variant + 1 /\ UNCHANGED <<kind, page, item, todo>>
        BY <1>1, <2>1, <2>3 DEF Advances, ItemTodo, Small, Variants
    <2>4. CASE kind = "docs" /\ Request("memory", 1, None)
        BY <1>1, <2>1, <2>4, ProbeAdvances, StageIs DEF Kinds
    <2> QED
        BY <1>6, <2>1, <2>2, <2>3, <2>4 DEF Show
<1> QED
    BY <1>2, <1>3, <1>4, <1>5, <1>6 DEF Next

\* Types and ItemTodo together.
LEMMA ItemTodoHolds == Spec => [](Inv /\ Small /\ ItemTodo)
<1>1. Init => Small /\ ItemTodo
    BY InitSmall DEF Init, ItemTodo
<1>2. Inv /\ Small /\ ItemTodo /\ [Next]_vars => ItemTodo'
    <2>1. Inv /\ Small /\ ItemTodo /\ Next => ItemTodo'
        BY NextAdvances
    <2>2. ItemTodo /\ UNCHANGED vars => ItemTodo'
        BY DEF ItemTodo, vars
    <2> QED
        BY <2>1, <2>2
<1> QED
    BY <1>1, <1>2, InitInv, NextInv, SmallStep, PTL DEF Spec

\* Whatever claude.ai answers, no request of a session is made twice, for any account,
\* any number of pages and any number of retries.
THEOREM StepsAdvance == Spec => EveryStepAdvances
<1>1. Inv /\ Small /\ ItemTodo /\ [Next]_vars => [Advances]_vars
    BY NextAdvances
<1>2. Spec => [][Advances]_vars
    BY <1>1, ItemTodoHolds, PTL DEF Spec
<1> QED
    BY <1>2 DEF EveryStepAdvances, Advances

-----------------------------------------------------------------------------
(* No session goes on for ever *)

Less == OpToRel(<, Nat)
Items == Convs \cup Projects

\* What is ahead of a session: stages, then pages, items, parameters and attempts.
Ahead ==
    <<7 - Stage[kind],
      <<Pages - page,
        <<todo,
          <<3 - variant, IF kind = "done" THEN 0 ELSE MaxRetry[kind] - attempt>>>>>>>>

Requests == Nat \X Nat
Loops == (SUBSET Items) \X Requests
Lists == Nat \X Loops
Futures == Nat \X Lists

RequestOrder == LexPairOrdering(Less, Less, Nat, Nat)
LoopOrder == LexPairOrdering(StrictSubsetOrdering(Items), RequestOrder, SUBSET Items, Requests)
ListOrder == LexPairOrdering(Less, LoopOrder, Nat, Loops)
Shorter == LexPairOrdering(Less, ListOrder, Nat, Lists)

\* A step after which less is ahead.
Shortens == <<Ahead', Ahead>> \in Shorter

\* There is no endless sequence of shorter and shorter futures.
LEMMA ShorterIsWellFounded ==
    ASSUME IsFiniteSet(Convs), IsFiniteSet(Projects)
    PROVE  IsWellFoundedOn(Shorter, Futures)
<1>1. IsWellFoundedOn(Less, Nat)
    BY NatLessThanWellFounded, Zenon DEF Less
<1>2. IsWellFoundedOn(StrictSubsetOrdering(Items), SUBSET Items)
    <2>1. IsFiniteSet(Items)
        BY FS_Union DEF Items
    <2>2. FiniteSubsetsOf(Items) = SUBSET Items
        BY <2>1, FS_FiniteSubsetsOfFinite
    <2> QED
        BY <2>2, FS_StrictSubsetOrderingWellFounded
<1>3. IsWellFoundedOn(RequestOrder, Requests)
    BY <1>1, WFLexPairOrdering DEF RequestOrder, Requests
<1>4. IsWellFoundedOn(LoopOrder, Loops)
    BY <1>2, <1>3, WFLexPairOrdering DEF LoopOrder, Loops
<1>5. IsWellFoundedOn(ListOrder, Lists)
    BY <1>1, <1>4, WFLexPairOrdering DEF ListOrder, Lists
<1> QED
    BY <1>1, <1>5, WFLexPairOrdering DEF Shorter, Futures

\* What the entries of Ahead are.
LEMMA AheadTypes ==
    ASSUME Inv, Small
    PROVE  /\ 7 - Stage[kind] \in Nat /\ Pages - page \in Nat /\ todo \in SUBSET Items /\ 3 - variant \in Nat
           /\ (IF kind = "done" THEN 0 ELSE MaxRetry[kind] - attempt) \in Nat
           /\ Ahead \in Futures
<1>1. 7 - Stage[kind] \in Nat
    BY StageIs DEF Inv, Types, Kinds
<1>2. Pages - page \in Nat
    BY PageAssumption DEF Inv, Types
<1>3. todo \in SUBSET Items
    BY DEF Inv, Types, Items
<1>4. 3 - variant \in Nat
    BY DEF Small, Variants
<1>5. (IF kind = "done" THEN 0 ELSE MaxRetry[kind] - attempt) \in Nat
    <2>1. kind # "done" => kind \in Kinds /\ MaxRetry[kind] \in Nat
        BY RetryAssumption DEF Inv, Types
    <2> QED
        BY <2>1 DEF Small
<1>6. Ahead \in Futures
    BY <1>1, <1>2, <1>3, <1>4, <1>5 DEF Ahead, Futures, Lists, Loops, Requests
<1> QED
    BY <1>1, <1>2, <1>3, <1>4, <1>5, <1>6

LEMMA LessLeft == \A a, b, c \in Nat : b < c => a - c < a - b
OBVIOUS

\* A step that advances has less ahead.
LEMMA AdvancesShortens ==
    ASSUME Inv, Small, Inv', Small', Advances, kind # "done"
    PROVE  <<Ahead', Ahead>> \in Shorter
<1> DEFINE left == IF kind = "done" THEN 0 ELSE MaxRetry[kind] - attempt
           request == <<3 - variant, left>>
           loop == <<todo, request>>
           list == <<Pages - page, loop>>
<1>1. /\ 7 - Stage[kind] \in Nat /\ Pages - page \in Nat /\ todo \in SUBSET Items /\ 3 - variant \in Nat
      /\ left \in Nat
    BY AheadTypes
<1>2. /\ 7 - Stage[kind'] \in Nat /\ Pages - page' \in Nat /\ todo' \in SUBSET Items /\ 3 - variant' \in Nat
      /\ left' \in Nat
    <2>1. 7 - Stage[kind'] \in Nat
        BY StageIs DEF Inv, Types, Kinds
    <2>2. Pages - page' \in Nat
        BY PageAssumption DEF Inv, Types
    <2>3. todo' \in SUBSET Items
        BY DEF Inv, Types, Items
    <2>4. 3 - variant' \in Nat
        <3>1. variant' \in 1 .. 3
            BY DEF Small, Variants
        <3>2. \A n \in 1 .. 3 : 3 - n \in Nat
            OBVIOUS
        <3> QED
            BY <3>1, <3>2
    <2>5. left' \in Nat
        <3>1. kind' # "done" => kind' \in Kinds /\ MaxRetry[kind'] \in Nat
            BY RetryAssumption DEF Inv, Types
        <3> QED
            BY <3>1 DEF Small
    <2> QED
        BY <2>1, <2>2, <2>3, <2>4, <2>5
<1>3. /\ Stage[kind] \in Nat /\ Stage[kind'] \in Nat /\ page \in Nat /\ page' \in Nat /\ Pages \in Nat
      /\ variant \in Nat /\ variant' \in Nat /\ attempt \in Nat /\ MaxRetry[kind] \in Nat
    <2>1. Stage[kind] \in Nat /\ Stage[kind'] \in Nat
        BY StageIs DEF Inv, Types, Kinds
    <2>2. page \in Nat /\ page' \in Nat /\ Pages \in Nat
        BY PageAssumption DEF Inv, Types
    <2>3. variant \in Nat /\ variant' \in Nat /\ attempt \in Nat
        BY DEF Small, Variants
    <2>4. MaxRetry[kind] \in Nat
        BY RetryAssumption DEF Inv, Types
    <2> QED
        BY <2>1, <2>2, <2>3, <2>4
<1>4. Ahead = <<7 - Stage[kind], list>> /\ Ahead' = <<7 - Stage[kind'], list'>>
    BY DEF Ahead
<1>5. request \in Requests /\ request' \in Requests
    BY <1>1, <1>2 DEF Requests
<1>6. loop \in Loops /\ loop' \in Loops
    BY <1>1, <1>2, <1>5 DEF Loops
<1>7. list \in Lists /\ list' \in Lists
    BY <1>1, <1>2, <1>6 DEF Lists
<1>8. \A m, n \in Nat : m < n => <<m, n>> \in Less
    BY DEF Less, OpToRel
<1>9. CASE Stage[kind] < Stage[kind']
    <2>1. 7 - Stage[kind'] < 7 - Stage[kind]
        BY <1>3, <1>9
    <2> QED
        BY <1>1, <1>2, <1>4, <1>7, <1>8, <2>1 DEF Shorter, LexPairOrdering
<1>10. ASSUME kind' = kind, <<list', list>> \in ListOrder PROVE <<Ahead', Ahead>> \in Shorter
    BY <1>1, <1>2, <1>4, <1>7, <1>10 DEF Shorter, LexPairOrdering
<1>11. CASE kind' = kind /\ page < page'
    <2>1. Pages - page' < Pages - page
        BY <1>3, <1>11, LessLeft
    <2>2. <<list', list>> \in ListOrder
        BY <1>1, <1>2, <1>6, <1>8, <2>1 DEF ListOrder, LexPairOrdering
    <2> QED
        BY <1>10, <1>11, <2>2
<1>12. ASSUME UNCHANGED <<kind, page>>, <<loop', loop>> \in LoopOrder PROVE <<Ahead', Ahead>> \in Shorter
    <2>1. <<list', list>> \in ListOrder
        BY <1>1, <1>2, <1>6, <1>12 DEF ListOrder, LexPairOrdering
    <2> QED
        BY <1>10, <1>12, <2>1
<1>13. CASE UNCHANGED <<kind, page>> /\ todo' \subseteq todo /\ todo' # todo
    <2>1. <<loop', loop>> \in LoopOrder
        BY <1>1, <1>2, <1>5, <1>13 DEF LoopOrder, LexPairOrdering, StrictSubsetOrdering
    <2> QED
        BY <1>12, <1>13, <2>1
<1>14. ASSUME UNCHANGED <<kind, page, todo>>, <<request', request>> \in RequestOrder
       PROVE  <<Ahead', Ahead>> \in Shorter
    <2>1. <<loop', loop>> \in LoopOrder
        BY <1>1, <1>2, <1>5, <1>14 DEF LoopOrder, LexPairOrdering
    <2> QED
        BY <1>12, <1>14, <2>1
<1>15. CASE UNCHANGED <<kind, page, todo, item>> /\ variant < variant'
    <2>1. 3 - variant' < 3 - variant
        BY <1>3, <1>15, 3 \in Nat, LessLeft
    <2>2. <<request', request>> \in RequestOrder
        BY <1>1, <1>2, <1>8, <2>1 DEF RequestOrder, LexPairOrdering
    <2> QED
        BY <1>14, <1>15, <2>2
<1>16. CASE UNCHANGED <<kind, page, todo, item, variant>> /\ attempt < attempt'
    <2>1. kind' = kind /\ attempt' \in Nat
        BY <1>3, <1>16 DEF Small
    <2>2. left' < left
        BY <1>3, <1>16, <2>1, LessLeft
    <2>3. <<request', request>> \in RequestOrder
        BY <1>1, <1>2, <1>8, <1>16, <2>2 DEF RequestOrder, LexPairOrdering
    <2> QED
        BY <1>14, <1>16, <2>3
<1> QED
    BY <1>9, <1>11, <1>13, <1>15, <1>16 DEF Advances

\* A session of a finite account takes finitely many steps, whatever claude.ai answers:
\* each has less ahead than the one before it, in a well-founded order.
THEOREM SessionsAreFinite ==
    ASSUME IsFiniteSet(Convs), IsFiniteSet(Projects)
    PROVE  /\ IsWellFoundedOn(Shorter, Futures)
           /\ Spec => [](Ahead \in Futures) /\ [][Shortens]_vars
<1>1. Inv /\ Small => Ahead \in Futures
    BY AheadTypes
<1>2. Inv /\ Small /\ ItemTodo /\ Inv' /\ Small' /\ [Next]_vars => [Shortens]_vars
    <2>1. Next => kind # "done"
        BY DEF Next, Retry, Lighter, GiveUp, Fail, Accept, Show, Answer
    <2> QED
        BY <2>1, NextAdvances, AdvancesShortens DEF Shortens
<1>3. Spec => [](Ahead \in Futures) /\ [][Shortens]_vars
    BY <1>1, <1>2, ItemTodoHolds, PTL DEF Spec
<1> QED
    BY <1>3, ShorterIsWellFounded

-----------------------------------------------------------------------------
(* A session settles every item once *)

Words == {"sample", "list", "projects", "memory"}

Untouched(i) == export[i] = "old" /\ i \notin errs

\* What the session has not come to yet is neither exported nor an error.
AheadUntouched ==
    /\ \A i \in todo : Untouched(i)
    /\ kind \in Listing => \A c \in Convs : Untouched(c)
    /\ kind \in Listing \cup {"conv", "projects"} => \A p \in Projects : Untouched(p)
    /\ kind \in Listing \cup {"conv", "projects", "docs"} /\ mode # "probe" => "projects" \notin errs
    /\ "projects" \in errs => \A p \in Projects : Untouched(p)

\* The step makes of the current item what it may, and of no other anything.
Settles ==
    /\ item \in Asked \cap todo
    /\ \/ \E a \in H!Content(item) : export' = [export EXCEPT ![item] = a] /\ UNCHANGED errs
       \/ export' = [export EXCEPT ![item] = "partial"] /\ errs' = errs \cup {item}
       \/ UNCHANGED export /\ errs' = errs \cup {item}

\* The step makes nothing of any item.
SettlesNone == UNCHANGED export /\ \E ws \in SUBSET Words : errs' = errs \cup ws

LEMMA NoneUntouched ==
    ASSUME SettlesNone, NEW i \in Convs \cup Projects
    PROVE  (Untouched(i) => Untouched(i)') /\ (i \in errs' <=> i \in errs)
BY NameAssumption DEF SettlesNone, Untouched, Words

LEMMA OtherUntouched ==
    ASSUME Inv, Settles, NEW i \in Convs \cup Projects, i # item
    PROVE  export'[i] = export[i] /\ (i \in errs' <=> i \in errs)
BY DEF Settles, Inv, Types

LEMMA NoneSettled ==
    ASSUME SettlesNone
    PROVE  UNCHANGED Fate
BY NoneUntouched DEF Fate, SettlesNone

LEMMA OneSettled ==
    ASSUME Inv, AheadUntouched, Settles
    PROVE  \E i \in Asked : H!Settle(i)
<1>1. /\ item \in Asked /\ item \in Convs \cup Projects /\ export[item] = "old" /\ item \notin errs
    BY DEF Settles, AheadUntouched, Untouched, Asked
<1>2. Fate[item] = "open"
    BY <1>1 DEF Fate
<1>3. \A i \in Convs \cup Projects : i # item => Fate'[i] = Fate[i]
    BY OtherUntouched DEF Fate
<1>4. Fate'[item] \in H!Content(item) \cup {"failed"}
    <2>1. CASE \E a \in H!Content(item) : export' = [export EXCEPT ![item] = a]
        <3>1. export'[item] \in H!Content(item)
            BY <1>1, <2>1 DEF Inv, Types
        <3> QED
            BY <1>1, <3>1 DEF Fate, H!Content
    <2>2. CASE UNCHANGED export /\ errs' = errs \cup {item}
        BY <1>1, <2>2 DEF Fate
    <2>3. CASE export' = [export EXCEPT ![item] = "partial"] /\ errs' = errs \cup {item}
        <3>1. export'[item] = "partial" /\ item \in errs'
            BY <1>1, <2>3 DEF Inv, Types
        <3> QED
            BY <1>1, <3>1 DEF Fate
    <2> QED
        BY <2>1, <2>2, <2>3 DEF Settles
<1>5. Fate' = [Fate EXCEPT ![item] = Fate'[item]]
    BY <1>3 DEF Fate
<1> QED
    BY <1>1, <1>2, <1>4, <1>5 DEF H!Settle

\* The outcome tells the truth.
LEMMA EndTellsTruth ==
    ASSUME Inv', AheadUntouched', UNCHANGED mode
    PROVE  H!End(outcome')
<1>1. Asked' = Asked
    BY DEF Asked
<1>2. \A i \in Convs \cup Projects :
          /\ Fate'[i] = IF export'[i] \notin {"old", "partial"} THEN export'[i]
                        ELSE IF i \in errs' THEN "failed" ELSE "open"
          /\ export'[i] \notin {"old", "partial"} => export'[i] \in H!Content(i)
          /\ i \in Convs => export'[i] # "partial"
    <2>1. \A i \in Convs : export'[i] # "partial" /\ (export'[i] # "old" => export'[i] \in H!Content(i))
        BY DEF Inv, NothingButContent, H!Content
    <2>2. \A i \in Projects : export'[i] \notin {"old", "partial"} => export'[i] \in H!Content(i)
        BY DEF Inv, NothingButContent, H!Content
    <2> QED
        BY <2>1, <2>2 DEF Fate
<1>3. ASSUME outcome' = "ok" PROVE \A i \in Asked : Fate'[i] \in H!Content(i)
    <2>1. CleanIsComplete'
        BY <1>3, InvImplies, PTL
    <2> QED
        BY <1>2, <1>3, <2>1 DEF CleanIsComplete, Asked
<1>4. ASSUME outcome' = "errors"
      PROVE  /\ H!Settled(Asked \cap Convs)
             /\ H!Settled(Asked \cap Projects) \/ H!Left(Projects)
    <2>1. mode \in ChatModes => \A c \in Convs : c \in errs' \/ export'[c] # "old"
        BY <1>4 DEF Inv, ConvsDone, Ends
    <2>2. mode \in SurfaceModes =>
              "projects" \in errs' \/ \A p \in Projects : p \in errs' \/ export'[p] = "genuine"
        BY <1>4 DEF Inv, ProjectsDone, Ends
    <2>3. H!Settled(Asked \cap Convs)
        <3>1. ASSUME NEW c \in Asked \cap Convs, mode \notin ChatModes PROVE FALSE
            BY <3>1, NameAssumption DEF Asked
        <3> QED
            BY <1>2, <2>1, <3>1 DEF H!Settled, H!Content
    <2>4. CASE "projects" \in errs'
        <3>1. H!Left(Projects)
            BY <1>2, <2>4 DEF H!Left, AheadUntouched, Untouched
        <3> QED
            BY <2>3, <3>1
    <2>5. CASE "projects" \notin errs'
        <3>1. ASSUME NEW p \in Asked \cap Projects, mode \notin SurfaceModes PROVE FALSE
            BY <3>1, NameAssumption DEF Asked
        <3>2. H!Settled(Asked \cap Projects)
            BY <1>2, <2>2, <2>5, <3>1 DEF H!Settled, H!Content
        <3> QED
            BY <2>3, <3>2
    <2> QED
        BY <2>4, <2>5
<1> QED
    BY <1>3, <1>4 DEF H!End

\* One step, as seen from the items.
Deals == (Settles \/ SettlesNone) /\ AheadUntouched'

\* What is untouched and not the current item stays untouched.
LEMMA StaysUntouched ==
    ASSUME Inv, NEW i \in Convs \cup Projects, Untouched(i), SettlesNone \/ (Settles /\ i # item)
    PROVE  Untouched(i)'
BY NoneUntouched, OtherUntouched DEF Untouched

\* An error of an item is not one of the list of projects.
LEMMA ListError ==
    ASSUME Settles
    PROVE  "projects" \in errs' <=> "projects" \in errs
BY NameAssumption DEF Settles, Asked

LEMMA EndDeals ==
    ASSUME AheadUntouched, SettlesNone, NEW o, End(o), "projects" \in errs' => "projects" \in errs
    PROVE  Deals
<1>1. kind' = "done" /\ todo' = {}
    BY DEF End
<1> QED
    BY <1>1, NoneUntouched DEF Deals, AheadUntouched, Listing

LEMMA AbortDeals ==
    ASSUME Inv, AheadUntouched, Abort, UNCHANGED export
    PROVE  Deals
<1>1. UNCHANGED errs /\ errs' = errs \cup {} /\ End("aborted")
    BY DEF Abort
<1>2. SettlesNone
    BY <1>1 DEF SettlesNone
<1>3. kind' = "done" /\ todo' = {}
    BY <1>1 DEF End
<1> QED
    BY <1>1, <1>2, <1>3 DEF Deals, AheadUntouched, Listing, Untouched

\* After a step of the loop over conversations, the projects are still to come.
LEMMA NextConvDeals ==
    ASSUME Inv, AheadUntouched, kind \in {"list", "conv"}, mode \in ChatModes, UNCHANGED mode,
           NEW left \in SUBSET Convs, NEW es, NextConv(left, es),
           \/ SettlesNone /\ UNCHANGED errs /\ kind = "list"
           \/ Settles /\ kind = "conv" /\ left = todo \ {item}
    PROVE  Deals
<1>1. \A p \in Projects : Untouched(p)'
    <2>1. ASSUME NEW p \in Projects PROVE Untouched(p)'
        <3>1. Untouched(p)
            BY DEF AheadUntouched, Listing
        <3>2. kind = "conv" => p # item
            BY NameAssumption DEF Inv, Place
        <3> QED
            BY <3>1, <3>2, StaysUntouched
    <2> QED
        BY <2>1
<1>2. \A c \in left : Untouched(c)'
    <2>1. ASSUME NEW c \in left PROVE Untouched(c)'
        <3>1. Untouched(c)
            BY DEF AheadUntouched, Listing
        <3> QED
            BY <3>1, StaysUntouched
    <2> QED
        BY <2>1
<1>3. "projects" \notin errs'
    <2>1. mode # "probe"
        BY DEF ChatModes
    <2>2. "projects" \notin errs
        BY <2>1 DEF AheadUntouched, Listing
    <2> QED
        BY <2>2, ListError
<1>4. todo' = left \/ todo' = {}
    BY DEF NextConv, End
<1>5. kind' \in {"conv", "projects", "done"}
    BY DEF NextConv, Request, End
<1> QED
    BY <1>1, <1>2, <1>3, <1>4, <1>5 DEF Deals, AheadUntouched, Listing

\* After a step of the loop over projects.
LEMMA NextProjectDeals ==
    ASSUME Inv, AheadUntouched, kind \in {"projects", "docs"}, UNCHANGED mode,
           NEW left \in SUBSET Projects, NEW es, NextProject(left, es),
           \/ SettlesNone /\ kind = "projects" /\ (left # {} => "projects" \notin errs')
           \/ Settles /\ kind = "docs" /\ mode # "probe" /\ left = todo \ {item}
    PROVE  Deals
<1>1. \A p \in left : Untouched(p)'
    <2>1. ASSUME NEW p \in left PROVE Untouched(p)'
        <3>1. Untouched(p)
            BY DEF AheadUntouched
        <3> QED
            BY <3>1, StaysUntouched
    <2> QED
        BY <2>1
<1>2. "projects" \in errs' => \A p \in Projects : Untouched(p)'
    <2>1. CASE Settles /\ kind = "docs" /\ mode # "probe"
        <3>1. "projects" \notin errs'
            BY <2>1, ListError DEF AheadUntouched
        <3> QED
            BY <3>1
    <2>2. CASE SettlesNone /\ kind = "projects"
        <3>1. \A p \in Projects : Untouched(p)
            BY <2>2 DEF AheadUntouched
        <3> QED
            BY <2>2, <3>1, NoneUntouched
    <2> QED
        BY <2>1, <2>2
<1>3. todo' = left /\ ((kind' = "docs" /\ left # {}) \/ kind' = "memory")
    BY DEF NextProject, Request
<1>4. left # {} => "projects" \notin errs'
    BY ListError DEF AheadUntouched
<1> QED
    BY <1>1, <1>2, <1>3, <1>4 DEF Deals, AheadUntouched, Listing

\* A step of the probe, which settles nothing.
LEMMA ProbeDeals ==
    ASSUME Inv, AheadUntouched, mode = "probe", UNCHANGED <<mode, todo>>, SettlesNone,
           kind' \in Listing \cup {"projects", "docs", "memory"},
           kind' \in Listing => kind \in Listing,
           kind' = "projects" => kind \in Listing,
           "projects" \in errs' => "projects" \in errs \/ kind = "projects"
    PROVE  Deals
<1>1. \A i \in Convs \cup Projects : Untouched(i) => Untouched(i)'
    BY NoneUntouched
<1>2. todo \subseteq Convs \cup Projects
    BY DEF Inv, Types
<1> QED
    BY <1>1, <1>2 DEF Deals, AheadUntouched, Listing

LEMMA ListFailsDeals ==
    ASSUME Inv, AheadUntouched, kind = "list", ListFails, UNCHANGED <<mode, export>>
    PROVE  Deals
<1>1. CASE mode = "probe" /\ ProbeOn("projects", {"list"})
    <2>1. errs' = errs \cup {"list"} /\ kind' = "projects" /\ UNCHANGED todo
        BY <1>1 DEF ProbeOn, Request
    <2>2. SettlesNone
        BY <2>1 DEF SettlesNone, Words
    <2> QED
        BY <1>1, <2>1, <2>2, ProbeDeals DEF Listing
<1> QED
    BY <1>1, AbortDeals DEF ListFails

\* A request that was given up settles the item it was for.
LEMMA FailedDeals ==
    ASSUME Inv, ItemTodo, AheadUntouched, ~Raw, NEW a \in Answers, Failed(a), UNCHANGED mode
    PROVE  Deals
<1>0. UNCHANGED export
    BY DEF Failed
<1>1. CASE Abort
    BY <1>0, <1>1, AbortDeals
<1>2. CASE kind = "sample" /\ mode = "probe" /\ ProbeOn("list", {"sample"})
    <2>1. errs' = errs \cup {"sample"} /\ kind' = "list" /\ UNCHANGED todo
        BY <1>2 DEF ProbeOn, Request
    <2>2. SettlesNone
        BY <1>0, <2>1 DEF SettlesNone, Words
    <2> QED
        BY <1>2, <2>1, <2>2, ProbeDeals DEF Listing
<1>3. CASE kind = "list" /\ ListFails
    BY <1>0, <1>3, ListFailsDeals
<1>4. CASE kind = "conv" /\ NextConv(todo \ {item}, errs \cup {item})
    <2>1. item \in todo /\ todo \in SUBSET Convs /\ mode \in ChatModes /\ errs' = errs \cup {item}
        BY <1>4 DEF ItemTodo, NextConv, Inv, Place
    <2>2. Settles
        BY <1>0, <2>1 DEF Settles, Asked
    <2> QED
        BY <1>4, <2>1, <2>2, NextConvDeals
<1>5. CASE kind = "projects" /\ NextProject({}, errs \cup {"projects"})
    <2>1. errs' = errs \cup {"projects"}
        BY <1>5 DEF NextProject
    <2>2. SettlesNone
        BY <1>0, <2>1 DEF SettlesNone, Words
    <2> QED
        BY <1>5, <2>2, NextProjectDeals
<1>6. CASE kind = "docs" /\ NextProject(todo \ {item}, errs \cup {item})
    <2>1. /\ item \in todo /\ todo \in SUBSET Projects /\ mode \in SurfaceModes /\ mode # "probe"
          /\ errs' = errs \cup {item}
        BY <1>6 DEF ItemTodo, NextProject, Inv, Place, Raw, Surfaces
    <2>2. Settles
        BY <1>0, <2>1 DEF Settles, Asked
    <2> QED
        BY <1>6, <2>1, <2>2, NextProjectDeals
<1>7. CASE kind = "memory" /\ errs' = errs \cup {"memory"} /\ End("errors")
    <2>1. SettlesNone /\ ("projects" \in errs' => "projects" \in errs)
        BY <1>0, <1>7 DEF SettlesNone, Words
    <2> QED
        BY <1>7, <2>1, EndDeals
<1> QED
    BY <1>1, <1>2, <1>3, <1>4, <1>5, <1>6, <1>7 DEF Failed

LEMMA GotDeals ==
    ASSUME Inv, ItemTodo, AheadUntouched, ~Raw, NEW a \in Answers, Got(a), UNCHANGED mode
    PROVE  Deals
<1>1. CASE Abort /\ UNCHANGED export
    BY <1>1, AbortDeals
<1>2. CASE GotOrgs(a) /\ Request(FirstKind, 1, None) /\ UNCHANGED <<todo, errs>>
    <2>1. kind = "orgs" /\ kind' \in {"list", "projects", "sample"} /\ UNCHANGED export
        BY <1>2 DEF GotOrgs, FirstKind, Request
    <2>2. errs' = errs \cup {}
        BY <1>2
    <2>3. SettlesNone
        BY <2>1, <2>2 DEF SettlesNone
    <2> QED
        BY <1>2, <2>1, <2>3 DEF Deals, AheadUntouched, Listing, Untouched
<1>3. CASE GotSample(a)
    <2>1. CASE mode = "probe" /\ ProbeOn("list", {})
        <3>1. kind = "sample" /\ errs' = errs \cup {} /\ kind' = "list" /\ UNCHANGED <<todo, export>>
            BY <1>3, <2>1 DEF GotSample, ProbeOn, Request
        <3>2. SettlesNone
            BY <3>1 DEF SettlesNone
        <3> QED
            BY <2>1, <3>1, <3>2, ProbeDeals DEF Listing
    <2>2. CASE End("ok") /\ UNCHANGED errs
        <3>1. errs' = errs \cup {} /\ UNCHANGED export
            BY <1>3, <2>2 DEF GotSample
        <3>2. SettlesNone
            BY <3>1 DEF SettlesNone
        <3> QED
            BY <2>2, <3>2, EndDeals
    <2> QED
        BY <1>1, <1>3, <2>1, <2>2 DEF GotSample
<1>4. CASE GotPage(a)
    <2>1. kind = "list" /\ UNCHANGED export /\ mode \in ChatModes \cup {"probe"}
        BY <1>4 DEF GotPage, Inv, Place
    <2>2. CASE ListFails
        BY <2>1, <2>2, ListFailsDeals
    <2>3. CASE Request("list", page + 1, None) /\ UNCHANGED <<todo, errs>>
        <3>1. kind' = "list" /\ errs' = errs \cup {}
            BY <2>3 DEF Request
        <3>2. SettlesNone
            BY <2>1, <3>1 DEF SettlesNone
        <3> QED
            BY <2>1, <2>3, <3>1, <3>2 DEF Deals, AheadUntouched, Listing, Untouched
    <2>4. CASE mode = "probe" /\ ProbeOn("projects", {})
        <3>1. errs' = errs \cup {} /\ kind' = "projects" /\ UNCHANGED todo
            BY <2>4 DEF ProbeOn, Request
        <3>2. SettlesNone
            BY <2>1, <3>1 DEF SettlesNone
        <3> QED
            BY <2>1, <2>4, <3>1, <3>2, ProbeDeals DEF Listing
    <2>5. CASE mode # "probe" /\ NextConv(listed', errs) /\ listed' = listed \cup Page[page]
        <3>1. listed' \in SUBSET Convs
            BY <2>5, PageAssumption DEF Inv, Types
        <3>2. errs' = errs \cup {} /\ errs' = errs
            BY <2>5 DEF NextConv
        <3>3. SettlesNone
            BY <2>1, <3>2 DEF SettlesNone
        <3> QED
            BY <2>1, <2>5, <3>1, <3>2, <3>3, NextConvDeals
    <2> QED
        BY <1>4, <2>2, <2>3, <2>4, <2>5 DEF GotPage
<1>5. CASE GotConv(a)
    <2>1. kind = "conv" /\ item \in todo /\ item \in Convs /\ todo \in SUBSET Convs /\ mode \in ChatModes
        BY <1>5 DEF GotConv, ItemTodo, Inv, Place
    <2>2. PICK es : NextConv(todo \ {item}, es)
        BY <1>5 DEF GotConv
    <2>3. CASE Writable(a) /\ export' = [export EXCEPT ![item] = a] /\ errs' = errs
        <3>1. a \in H!Content(item)
            BY <2>1, <2>3 DEF Writable, H!Content
        <3>2. Settles
            BY <2>1, <2>3, <3>1 DEF Settles, Asked
        <3> QED
            BY <2>1, <2>2, <3>2, NextConvDeals
    <2>4. CASE UNCHANGED export /\ errs' = errs \cup {item}
        <3>1. Settles
            BY <2>1, <2>4 DEF Settles, Asked
        <3> QED
            BY <2>1, <2>2, <3>1, NextConvDeals
    <2> QED
        BY <1>5, <2>3, <2>4 DEF GotConv, NextConv
<1>6. CASE GotProjects(a)
    <2>1. kind = "projects" /\ UNCHANGED export
        BY <1>6 DEF GotProjects
    <2>2. CASE mode = "probe" /\ ProbeProjects(a)
        <3>1. /\ kind' \in {"docs", "memory"} /\ UNCHANGED todo
              /\ errs' = errs \cup {} \/ errs' = errs \cup {"projects"}
            BY <2>2 DEF ProbeProjects, ProbeOn, Request
        <3>2. SettlesNone
            BY <2>1, <3>1 DEF SettlesNone, Words
        <3> QED
            BY <2>1, <2>2, <3>1, <3>2, ProbeDeals DEF Listing
    <2>3. CASE mode # "probe" /\ NextProject(Projects, errs)
        <3>1. errs' = errs \cup {} /\ "projects" \notin errs'
            BY <2>1, <2>3 DEF NextProject, AheadUntouched
        <3>2. SettlesNone
            BY <2>1, <3>1 DEF SettlesNone
        <3> QED
            BY <2>1, <2>3, <3>1, <3>2, NextProjectDeals
    <2>4. CASE NextProject({}, errs \cup {"projects"})
        <3>1. errs' = errs \cup {"projects"}
            BY <2>4 DEF NextProject
        <3>2. SettlesNone
            BY <2>1, <3>1 DEF SettlesNone, Words
        <3> QED
            BY <2>1, <2>4, <3>2, NextProjectDeals
    <2> QED
        BY <1>6, <2>2, <2>3, <2>4 DEF GotProjects
<1>7. CASE GotDocs(a)
    <2>1. kind = "docs" /\ mode # "probe" /\ item \in todo /\ todo \in SUBSET Projects /\ mode \in SurfaceModes
        BY <1>7 DEF GotDocs, ItemTodo, Raw, Inv, Place, Surfaces
    <2>2. PICK es : NextProject(todo \ {item}, es)
        BY <1>7 DEF GotDocs
    <2>3. CASE a = "genuine" /\ export' = [export EXCEPT ![item] = a] /\ errs' = errs
        <3>1. a \in H!Content(item)
            BY <2>3 DEF H!Content
        <3>2. Settles
            BY <2>1, <2>3, <3>1 DEF Settles, Asked
        <3> QED
            BY <2>1, <2>2, <3>2, NextProjectDeals
    <2>4. CASE UNCHANGED export /\ errs' = errs \cup {item}
        <3>1. Settles
            BY <2>1, <2>4 DEF Settles, Asked
        <3> QED
            BY <2>1, <2>2, <3>1, NextProjectDeals
    <2>5. CASE export' = [export EXCEPT ![item] = "partial"] /\ errs' = errs \cup {item}
        <3>1. Settles
            BY <2>1, <2>5 DEF Settles, Asked
        <3> QED
            BY <2>1, <2>2, <3>1, NextProjectDeals
    <2> QED
        BY <1>7, <2>3, <2>4, <2>5 DEF GotDocs, NextProject
<1>8. CASE GotMemory(a)
    <2>1. /\ UNCHANGED export /\ \E o : End(o)
          /\ errs' = errs \cup {} \/ errs' = errs \cup {"memory"}
        BY <1>8 DEF GotMemory
    <2>2. SettlesNone /\ ("projects" \in errs' => "projects" \in errs)
        BY <2>1 DEF SettlesNone, Words
    <2> QED
        BY <2>1, <2>2, EndDeals
<1> QED
    BY <1>1, <1>2, <1>3, <1>4, <1>5, <1>6, <1>7, <1>8 DEF Got, GotOrgs

LEMMA NextDeals ==
    ASSUME Inv, ItemTodo, AheadUntouched, Next
    PROVE  Deals
<1>1. CASE Retry \/ Lighter
    <2>1. UNCHANGED <<mode, kind, todo, export, errs>> /\ errs' = errs \cup {}
        BY <1>1 DEF Retry, Lighter, Answer
    <2>2. SettlesNone
        BY <2>1 DEF SettlesNone
    <2> QED
        BY <2>1, <2>2 DEF Deals, AheadUntouched, Untouched
<1>2. CASE GiveUp \/ Fail
    <2>1. ~Raw /\ UNCHANGED mode /\ \E a \in Answers : Failed(a)
        BY <1>2 DEF GiveUp, Fail, Answer, Answers
    <2> QED
        BY <2>1, FailedDeals
<1>3. CASE Accept
    <2>1. ~Raw /\ UNCHANGED mode /\ \E a \in Answers : Got(a)
        BY <1>3 DEF Accept, Answer, Answers
    <2> QED
        BY <2>1, GotDeals
<1>4. CASE Show
    <2>1. mode = "probe" /\ kind \in {"docs", "memory"} /\ UNCHANGED <<mode, export, errs>> /\ errs' = errs \cup {}
        BY <1>4 DEF Show, Raw, Answer
    <2>2. SettlesNone
        BY <2>1 DEF SettlesNone
    <2>3. CASE \E o : End(o)
        BY <2>1, <2>2, <2>3, EndDeals
    <2>4. CASE kind' \in {"docs", "memory"} /\ UNCHANGED todo
        BY <2>1, <2>2, <2>4, ProbeDeals DEF Listing
    <2> QED
        BY <1>4, <2>1, <2>3, <2>4 DEF Show, Request
<1> QED
    BY <1>1, <1>2, <1>3, <1>4 DEF Next

LEMMA HarvestInit == Init => H!Init /\ AheadUntouched
<1> SUFFICES ASSUME Init PROVE H!Init /\ AheadUntouched
    OBVIOUS
<1>1. Asked \subseteq Convs \cup Projects /\ outcome = "running"
    BY DEF Init, Asked
<1>2. \A i \in Convs \cup Projects : export[i] = "old" /\ i \notin errs
    BY DEF Init
<1>3. Fate = [i \in Convs \cup Projects |-> "open"]
    BY <1>2 DEF Fate
<1>4. AheadUntouched
    BY <1>2 DEF Init, AheadUntouched, Untouched
<1> QED
    BY <1>1, <1>3, <1>4 DEF H!Init, H!Items

LEMMA HarvestStep ==
    ASSUME Inv, Inv', Small', ItemTodo, AheadUntouched, Next
    PROVE  H!Next
<1>1. outcome = "running" /\ UNCHANGED mode
    BY DEF Next, Retry, Lighter, GiveUp, Fail, Accept, Show, Answer, Inv, Place
<1>2. UNCHANGED Fate \/ \E i \in Asked : H!Settle(i)
    BY NextDeals, NoneSettled, OneSettled DEF Deals
<1>3. UNCHANGED outcome \/ outcome' \in {"ok", "errors", "aborted"}
    BY <1>1 DEF Small
<1>4. H!End(outcome')
    BY <1>1, NextDeals, EndTellsTruth DEF Deals
<1>5. UNCHANGED Asked
    BY <1>1 DEF Asked
<1> QED
    BY <1>1, <1>2, <1>3, <1>4, <1>5 DEF H!Next

\* Session implements Harvest: whatever claude.ai answers, every item asked for is
\* settled once, and the outcome tells the truth about all of them.
THEOREM SessionIsHarvest == Spec => ImplementsHarvest
<1>1. Inv /\ ItemTodo /\ AheadUntouched /\ [Next]_vars => AheadUntouched'
    <2>1. Inv /\ ItemTodo /\ AheadUntouched /\ Next => AheadUntouched'
        BY NextDeals DEF Deals
    <2>2. AheadUntouched /\ UNCHANGED vars => AheadUntouched'
        BY DEF AheadUntouched, Untouched, vars
    <2> QED
        BY <2>1, <2>2
<1>2. Inv /\ Inv' /\ Small' /\ ItemTodo /\ AheadUntouched /\ [Next]_vars => [H!Next]_(H!harvestVars)
    <2>1. UNCHANGED vars => UNCHANGED H!harvestVars
        BY DEF vars, H!harvestVars, Fate, Asked
    <2> QED
        BY <2>1, HarvestStep
<1> QED
    BY <1>1, <1>2, HarvestInit, ItemTodoHolds, PTL DEF Spec, ImplementsHarvest, H!Spec

-----------------------------------------------------------------------------
(* What the next run reads back *)

\* The operators on texts are those of MarkdownProofs.
LEMMA SameTexts ==
    /\ Md!Lines = MdP!Lines
    /\ \A title, stamp, messages :
          /\ Md!Size(title) = MdP!Size(title)
          /\ Md!UpdatedAt(Md!Document(title, stamp, messages)) = MdP!UpdatedAt(MdP!Document(title, stamp, messages))
<1>1. Md!Lines = MdP!Lines
    BY DEF Md!Lines, MdP!Lines
<1>2. \A text : Md!Bytes(text) = MdP!Bytes(text)
    BY DEF Md!Bytes, MdP!Bytes
<1>3. \A text : Md!Size(text) = MdP!Size(text)
    BY <1>2 DEF Md!Size, MdP!Size
<1>4. \A title, stamp, messages : Md!Document(title, stamp, messages) = MdP!Document(title, stamp, messages)
    BY <1>3 DEF Md!Document, MdP!Document, Md!Heading, MdP!Heading, Md!Line, MdP!Line, Md!Updated, MdP!Updated
<1>5. \A text : Md!UpdatedAt(text) = MdP!UpdatedAt(text)
    <2> SUFFICES ASSUME NEW text PROVE Md!UpdatedAt(text) = MdP!UpdatedAt(text)
        OBVIOUS
    <2> DEFINE S == {i \in DOMAIN text : text[i].stamp # None /\ Md!Bytes(text)[i] - 1 <= 512}
               P == {i \in DOMAIN text : text[i].stamp # None /\ MdP!Bytes(text)[i] - 1 <= 512}
    <2>1. S = P
        BY <1>2
    <2>2. /\ Md!UpdatedAt(text) = IF S = {} THEN None ELSE text[CHOOSE i \in S : \A j \in S : i <= j].stamp
          /\ MdP!UpdatedAt(text) = IF P = {} THEN None ELSE text[CHOOSE i \in P : \A j \in P : i <= j].stamp
        BY DEF Md!UpdatedAt, MdP!UpdatedAt
    <2> HIDE DEF S, P
    <2> QED
        BY <2>1, <2>2, Zenon
<1> QED
    BY <1>1, <1>3, <1>4, <1>5

\* The stamp written into a file of a conversation is the one the next run finds in
\* it, exactly when the title leaves room for it, for any title and any messages
\* (convToMarkdown of cdp.go, fileConvUpdatedAt of daemon.go).
THEOREM HeadersReadBack == Spec => []HeaderReadsBack
<1>1. HeaderReadsBack
    BY TextAssumption, SameTexts, MdP!HeaderIsFound DEF HeaderReadsBack
<1> QED
    BY <1>1, PTL

=============================================================================
