------------------------------- MODULE Session -------------------------------
(***************************************************************************)
(* One session of requests to claude.ai, and what its answers leave on     *)
(* disk: getWithRetryDelay, fetchConvBodyDelay, resolveOrg,                *)
(* listAllConversations, convToMarkdown, cdpHarvest and cdpSmoke of        *)
(* cdp.go, harvestProjects and harvestMemory of surfaces.go,               *)
(* refreshSurfaces and syncConversations of daemon.go, cdpProbe of         *)
(* probe.go.                                                               *)
(*                                                                         *)
(* An answer is abstracted to how the program can tell it apart:           *)
(*   "genuine"    the JSON that was asked for                              *)
(*   "mangled"    a body that begins with "{" and does not parse           *)
(*   "error"      the JSON object of an API error                          *)
(*   "limited"    a rate-limit payload                                     *)
(*   "challenge"  an HTML page                                             *)
(*   "failed"     no answer: the request itself failed                     *)
(*   "deadline"   the session's 30 minutes are over, for this request and  *)
(*                every later one                                          *)
(* Which conversations need a download at all is SyncEngine's subject:     *)
(* here every listed one does.                                             *)
(***************************************************************************)
EXTENDS Naturals, Sequences

CONSTANTS
    Convs,      \* conversations of the account
    Pages,      \* number of pages of the conversation list
    Page,       \* page -> the conversations on it
    Projects,   \* projects with knowledge documents
    None,       \* "no item", "no stamp"
    MaxRetry,   \* kind of request -> retries after a rate limit
    Title,      \* conversation -> the lines of its title (Markdown)
    Messages,   \* conversation -> the lines of its messages
    Stamps,     \* what may follow "- Updated: " on a line
    Stamp       \* conversation -> its updated_at, cut to 19 characters

Md == INSTANCE Markdown WITH NoStamp <- None

\* "sample" is the short first page of the list the two diagnostic commands ask for.
Kinds == {"orgs", "sample", "list", "conv", "projects", "docs", "memory"}

ASSUME PageAssumption ==
    /\ Pages \in Nat \ {0} /\ Page \in [1 .. Pages -> SUBSET Convs]
    /\ Convs = UNION {Page[n] : n \in 1 .. Pages}
ASSUME RetryAssumption == MaxRetry \in [Kinds -> Nat]
ASSUME TextAssumption ==
    /\ None \notin Stamps
    /\ \A c \in Convs :
          /\ Title[c] \in Seq(Md!Lines) \ {<<>>} /\ Messages[c] \in Seq(Md!Lines)
          /\ Stamp[c] \in Stamps
ASSUME NameAssumption ==
    Convs \cap Projects = {} /\ {"sample", "list", "projects", "memory", None} \cap (Convs \cup Projects) = {}

VARIABLES
    mode,      \* "harvest": all of it; "chats", "surfaces": the daemon's two sessions;
               \* "smoke", "probe": the diagnostic commands, which export nothing
    kind,      \* the request being made; "done" when the session is over
    page,      \* ... for this page of the list
    item,      \* ... for this conversation or project
    variant,   \* ... with these query parameters: 1 full, 2 light, 3 lightest; or, of the
               \* probe, by this path to a project's documents
    attempt,   \* ... for the (attempt + 1)-th time
    todo,      \* what the current loop has left
    listed,    \* the conversations listed
    errs,      \* what went wrong, by item
    expired,   \* has the deadline passed?
    outcome,   \* "running", "ok", "errors", "aborted"
    export,    \* what the file of a conversation or of a project's documents holds
    memory     \* what claude-ai-memory.md goes back to (empty memory is not written)

vars == <<mode, kind, page, item, variant, attempt, todo, listed, errs, expired,
          outcome, export, memory>>

ChatModes == {"harvest", "chats"}
SurfaceModes == {"harvest", "surfaces"}
Modes == ChatModes \cup SurfaceModes \cup {"smoke", "probe"}
Answers == {"genuine", "mangled", "error", "limited", "challenge", "failed", "deadline"}
Variants == 1 .. 3
\* "partial": some of a project's documents were written, others not.
Contents == {"old", "partial"} \cup Answers

TypeOK ==
    /\ mode \in Modes
    /\ kind \in Kinds \cup {"done"}
    /\ page \in 1 .. Pages
    /\ item \in Convs \cup Projects \cup {None}
    /\ variant \in Variants
    /\ kind # "done" => attempt \in 0 .. MaxRetry[kind]
    /\ todo \subseteq Convs \cup Projects
    /\ listed \subseteq Convs
    /\ errs \subseteq Convs \cup Projects \cup {"sample", "list", "projects", "memory"}
    /\ expired \in BOOLEAN
    /\ outcome \in {"running", "ok", "errors", "aborted"}
    /\ export \in [Convs \cup Projects -> Contents]
    /\ memory \in Contents

-----------------------------------------------------------------------------
(* Moving on *)

Request(k, n, i) == kind' = k /\ page' = n /\ item' = i /\ variant' = 1 /\ attempt' = 0

End(o) ==
    /\ outcome' = o /\ kind' = "done" /\ todo' = {} /\ item' = None
    /\ UNCHANGED <<page, variant, attempt>>

\* A hard error: fatal for a one-shot command, a failed cycle for the daemon.
Abort == End("aborted") /\ UNCHANGED <<listed, errs>>

\* The loops over conversations and over projects take any item next.
NextConv(left, es) ==
    /\ errs' = es
    /\ IF left # {} THEN todo' = left /\ UNCHANGED outcome /\ \E c \in left : Request("conv", page, c)
       ELSE IF mode = "harvest" THEN todo' = {} /\ UNCHANGED outcome /\ Request("projects", page, None)
       ELSE End(IF es = {} THEN "ok" ELSE "errors")

NextProject(left, es) ==
    /\ errs' = es /\ todo' = left /\ UNCHANGED outcome
    /\ IF left # {} THEN \E p \in left : Request("docs", page, p)
       ELSE Request("memory", page, None)

\* The probe notes what failed and goes on.
ProbeOn(k, es) == errs' = errs \cup es /\ Request(k, 1, None) /\ UNCHANGED <<todo, outcome>>

\* A faulty variant of ListFails: the pages so far pass for the list (fixed in 2.1.1).
ListBreaks == NextConv(listed, errs) /\ UNCHANGED listed

\* A page that fails is a hard error, but for the probe, which counts what it got.
ListFails ==
    \/ mode = "probe" /\ ProbeOn("projects", {"list"}) /\ UNCHANGED listed
    \/ mode # "probe" /\ Abort

-----------------------------------------------------------------------------
(* What becomes of a request *)

\* getWithRetryDelay and, for a conversation, fetchConvBodyDelay give up.
Failed(a) ==
    /\ UNCHANGED <<export, memory>>
    /\ \/ kind = "orgs" /\ Abort
       \/ kind = "sample" /\ mode = "smoke" /\ Abort
       \/ kind = "sample" /\ mode = "probe" /\ ProbeOn("list", {"sample"}) /\ UNCHANGED listed
       \/ kind = "list" /\ ListFails
       \/ kind = "conv" /\ a = "deadline" /\ Abort
       \/ kind = "conv" /\ a # "deadline" /\ NextConv(todo \ {item}, errs \cup {item}) /\ UNCHANGED listed
       \/ kind = "projects" /\ NextProject({}, errs \cup {"projects"}) /\ UNCHANGED listed
       \/ kind = "docs" /\ NextProject(todo \ {item}, errs \cup {item}) /\ UNCHANGED listed
       \/ kind = "memory" /\ errs' = errs \cup {"memory"} /\ End("errors") /\ UNCHANGED listed

\* A faulty variant of Writable: an API error passes for an untitled conversation.
WritableAnyJSON(a) == a \in {"genuine", "mangled", "error"}

\* convToMarkdown: a body that was not understood is kept verbatim, an API error is not.
Writable(a) == a \in {"genuine", "mangled"}

FirstKind ==
    CASE mode \in ChatModes -> "list"
      [] mode = "surfaces" -> "projects"
      [] OTHER -> "sample"

GotOrgs(a) ==
    /\ kind = "orgs"
    /\ IF a # "genuine" THEN Abort
       ELSE /\ Request(FirstKind, 1, None)
            /\ UNCHANGED <<todo, outcome, errs, listed>>
    /\ UNCHANGED <<export, memory>>

\* cdpSmoke is green if the page parses; cdpProbe prints it as it is.
GotSample(a) ==
    /\ kind = "sample"
    /\ \/ mode = "smoke" /\ a = "genuine" /\ End("ok") /\ UNCHANGED <<errs, listed>>
       \/ mode = "smoke" /\ a # "genuine" /\ Abort
       \/ mode = "probe" /\ ProbeOn("list", {}) /\ UNCHANGED listed
    /\ UNCHANGED <<export, memory>>

\* A page that does not parse ends the probe's count as a failed one does, but
\* without a line in its report.
GotPage(a) ==
    /\ kind = "list"
    /\ IF a # "genuine" THEN ListFails
       ELSE /\ listed' = listed \cup Page[page]
            /\ IF page < Pages
               THEN Request("list", page + 1, None) /\ UNCHANGED <<todo, outcome, errs>>
               ELSE IF mode = "probe" THEN ProbeOn("projects", {})
               ELSE NextConv(listed', errs)
    /\ UNCHANGED <<export, memory>>

\* writeMarkdown may fail; that is an error of the item.
GotConv(a) ==
    /\ kind = "conv"
    /\ \/ Writable(a) /\ export' = [export EXCEPT ![item] = a] /\ NextConv(todo \ {item}, errs)
       \/ UNCHANGED export /\ NextConv(todo \ {item}, errs \cup {item})
    /\ UNCHANGED <<listed, memory>>

\* The probe looks at the documents of one project only, if there is any.
ProbeProjects(a) ==
    IF a = "genuine" /\ Projects # {}
    THEN (\E p \in Projects : Request("docs", 1, p)) /\ UNCHANGED <<errs, todo, outcome>>
    ELSE ProbeOn("memory", IF a = "genuine" THEN {} ELSE {"projects"})

GotProjects(a) ==
    /\ kind = "projects"
    /\ \/ mode = "probe" /\ ProbeProjects(a)
       \/ mode # "probe" /\ a = "genuine" /\ NextProject(Projects, errs)
       \/ mode # "probe" /\ a # "genuine" /\ NextProject({}, errs \cup {"projects"})
    /\ UNCHANGED <<listed, export, memory>>

\* Every document has its own file and its own writeMarkdown: one that fails is an
\* error of the project, and the others are written all the same.
GotDocs(a) ==
    /\ kind = "docs"
    /\ \/ a = "genuine" /\ export' = [export EXCEPT ![item] = a] /\ NextProject(todo \ {item}, errs)
       \/ /\ a = "genuine" /\ export' = [export EXCEPT ![item] = "partial"]
          /\ NextProject(todo \ {item}, errs \cup {item})
       \/ UNCHANGED export /\ NextProject(todo \ {item}, errs \cup {item})
    /\ UNCHANGED <<listed, memory>>

\* harvestMemory: an API error has no "memory" field, and so passes for empty memory.
GotMemory(a) ==
    /\ kind = "memory"
    /\ \/ a = "genuine" /\ memory' = a /\ errs' = errs
       \/ a = "error" /\ UNCHANGED memory /\ errs' = errs
       \/ a # "error" /\ UNCHANGED memory /\ errs' = errs \cup {"memory"}
    /\ End(IF errs' = {} THEN "ok" ELSE "errors")
    /\ UNCHANGED <<listed, export>>

Got(a) ==
    GotOrgs(a) \/ GotSample(a) \/ GotPage(a) \/ GotConv(a) \/ GotProjects(a) \/ GotDocs(a) \/ GotMemory(a)

-----------------------------------------------------------------------------
(* A request *)

\* Once the deadline has passed nothing else is answered.
Answer(a) ==
    /\ kind # "done" /\ a \in Answers
    /\ expired => a = "deadline"
    /\ expired' = (a = "deadline")
    /\ UNCHANGED mode

\* The probe's last requests go through rawGet: whatever comes back is printed.
Raw == mode = "probe" /\ kind \in {"docs", "memory"}

\* A faulty variant of Exhausted: off by one.
ExhaustedLate == attempt > MaxRetry[kind]

Exhausted == attempt >= MaxRetry[kind]

\* Another try, after the backoff.
Retry ==
    /\ ~Raw /\ Answer("limited") /\ ~Exhausted
    /\ attempt' = attempt + 1
    /\ UNCHANGED <<kind, page, item, variant, todo, listed, errs, outcome, export, memory>>

\* A faulty variant of Lighter: after the lightest the full request is tried again.
LighterForEver ==
    /\ kind = "conv" /\ Answer("limited") /\ Exhausted
    /\ variant' = (IF variant < 3 THEN variant + 1 ELSE 1) /\ attempt' = 0
    /\ UNCHANGED <<kind, page, item, todo, listed, errs, outcome, export, memory>>

\* Lighter query parameters, for a conversation too large to render.
Lighter ==
    /\ kind = "conv" /\ Answer("limited") /\ Exhausted /\ variant < 3
    /\ variant' = variant + 1 /\ attempt' = 0
    /\ UNCHANGED <<kind, page, item, todo, listed, errs, outcome, export, memory>>

GiveUp ==
    /\ ~Raw /\ Answer("limited") /\ Exhausted /\ (kind = "conv" => variant = 3)
    /\ Failed("limited")

Fail == ~Raw /\ \E a \in {"challenge", "failed", "deadline"} : Answer(a) /\ Failed(a)

Accept == ~Raw /\ \E a \in {"genuine", "mangled", "error"} : Answer(a) /\ Got(a)

\* rawGet of three paths to the documents, then of the memory; then the report is
\* written, or cannot be, which is no error.
Show ==
    /\ Raw /\ \E a \in Answers : Answer(a)
    /\ IF kind = "memory" THEN End(IF errs = {} THEN "ok" ELSE "errors")
       ELSE /\ IF variant < 3 THEN variant' = variant + 1 /\ UNCHANGED <<kind, page, item, attempt>>
               ELSE Request("memory", 1, None)
            /\ UNCHANGED <<todo, outcome>>
    /\ UNCHANGED <<listed, errs, export, memory>>

-----------------------------------------------------------------------------
(* Specification *)

Init ==
    /\ mode \in Modes
    /\ kind = "orgs" /\ page = 1 /\ item = None /\ variant = 1 /\ attempt = 0
    /\ todo = {} /\ listed = {} /\ errs = {} /\ expired = FALSE /\ outcome = "running"
    /\ export = [i \in Convs \cup Projects |-> "old"] /\ memory = "old"

Next == Retry \/ Lighter \/ GiveUp \/ Fail \/ Accept \/ Show

Spec == Init /\ [][Next]_vars

\* The program keeps asking, and every request is answered one way or another.
FairSpec == Spec /\ WF_vars(Next)

-----------------------------------------------------------------------------
(* Properties *)

\* However the requests of a session turn out, no export is replaced by a
\* challenge, a rate-limit payload or an API error (getWithRetryDelay's checks,
\* convToMarkdown, the parsers of the surfaces).
NothingButContent ==
    /\ \A i \in Convs : export[i] \in {"old", "genuine", "mangled"}
    /\ \A i \in Projects : export[i] \in {"old", "partial", "genuine"}
    /\ memory \in {"old", "genuine"}

\* What the session exported is recognised by the next one: fileConvUpdatedAt finds
\* the stamp convToMarkdown wrote, whatever the title and the messages look like, as
\* long as the title has at most 447 bytes; beyond that it does not.
HeaderReadsBack ==
    \A c \in Convs : export[c] = "genuine" =>
        (Md!UpdatedAt(Md!Document(Title[c], Stamp[c], Messages[c])) = Stamp[c] <=> Md!Size(Title[c]) <= 448)

\* A session that ends without an error has exported every conversation of the
\* account, those of the last page too, and every document of every project: a partial
\* list or a failed item never passes for a complete run (listAllConversations,
\* cdpHarvest, harvestProjects).
\* A probe to which nothing failed has counted every conversation.
CleanIsComplete ==
    outcome = "ok" =>
        /\ mode \in ChatModes => \A c \in Convs : export[c] # "old"
        /\ mode \in SurfaceModes => \A p \in Projects : export[p] = "genuine"
        /\ mode = "probe" => listed = Convs

\* Whatever the server answers, the session comes to an end: retries and
\* lighter variants are bounded, for every kind of request.
Terminates == <>(kind = "done")

\* The requests of a session in the order of the code.
Stage == [orgs |-> 0, sample |-> 1, list |-> 2, conv |-> 3, projects |-> 4, docs |-> 5, memory |-> 6, done |-> 7]

\* No request is made twice: whatever the answer, the next one is for a later stage, a
\* later page, an item less to do, lighter parameters or one more of a bounded number
\* of attempts, and never for something the session has already got or given up.
EveryStepAdvances ==
    [][\/ Stage[kind] < Stage[kind']
       \/ kind' = kind /\ page < page'
       \/ UNCHANGED <<kind, page>> /\ todo' \subseteq todo /\ todo' # todo
       \/ UNCHANGED <<kind, page, todo, item>> /\ variant < variant'
       \/ UNCHANGED <<kind, page, todo, item, variant>> /\ attempt < attempt']_vars

\* The comment in refreshSurfaces: "Don't let a PARTIAL surfaces harvest be
\* recorded as a completed 24h refresh".  A session that ends without an error has
\* read the memory.
RefreshIsComplete == outcome = "ok" /\ mode \in SurfaceModes => memory # "old"

-----------------------------------------------------------------------------
(* The abstract specification *)

\* What the files and the errors of a session amount to.  A project of which a
\* document is missing has failed.
Fate ==
    [i \in Convs \cup Projects |->
        IF export[i] \notin {"old", "partial"} THEN export[i]
        ELSE IF i \in errs THEN "failed" ELSE "open"]

\* What a kind of session is to export.
Asked ==
    (IF mode \in ChatModes THEN Convs ELSE {}) \cup (IF mode \in SurfaceModes THEN Projects ELSE {})

H == INSTANCE Harvest WITH asked <- Asked, fate <- Fate

\* The requests, retries and fallbacks of a session amount to settling every item
\* once, and an outcome that tells the truth about them: what was written whole is never
\* reported as failed, nor written again, and what failed is never written after.
ImplementsHarvest == H!Spec

=============================================================================
