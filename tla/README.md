# A formal model of schroedinger-sync

schroedinger-sync exports a user's own claude.ai account (chats, project
documents, memory) to Markdown files. It borrows the login of Claude Desktop,
opens a real Chrome, asks claude.ai's API from inside the page, and keeps the
directory up to date from a daemon that is started at logon. This directory
holds TLA+ modules of its control, TLC configurations that check them on small
instances, and TLAPS proofs for every size.

## The system

| Part | Source | State | Operations | Meets |
|---|---|---|---|---|
| Chat sync engine | `daemon.go`, `cdp.go` | `.sync-state.json` (version per conversation, cookie watermark, stall count), exported files | `runCycle`, `harvestOnce`, `syncConversations`, `convAction`, `cookieWatermark`, `loadState`, `saveState`; `cdpHarvest` | Desktop, the account, other instances |
| Hash manifest | `integrity.go` | `.content-hashes.json`, its temporary files | `writeMarkdown`: write, then `loadManifest`, modify, `saveManifest` | every writer |
| Session | `cdp.go`, `surfaces.go`, `probe.go` | none on disk | `getWithRetryDelay`, `fetchConvBodyDelay`, `resolveOrg`, `listAllConversations`, `harvestProjects`, `harvestMemory`; the diagnostic commands `cdpSmoke`, `cdpProbe` | claude.ai through Chrome |
| Supervised loop | `daemon.go` | active, miss count, last cycle | `superviseLoop`, `nextSuperviseState` | the user's programs |
| Tray and shutdown | `tray.go`, `security.go` | `trayMu`, the status and its mutex, `shuttingDown`, `syncNow`, the teardown registry, the stdout pipe | menu callbacks, sync goroutine, `runActiveTeardown`, `fatal`, `stopRedactor` | two goroutines, Chrome |
| Cleanup | `daemon.go`, `cdp.go`, `main.go` | Chrome profile per process id, cookie copies in %TEMP% | `cleanupTemp`, `sweepChromeProfile`, `copyCookieDB` | other instances, the process table |
| Secrets | `security.go`, `main.go` | registry of secrets | `RegisterSecret`, `redact`, DPAPI and AES-GCM decryption | stdout |
| Conversion, names | `cdp.go`, `daemon.go` | the header of every export | `convToMarkdown`, `fileConvUpdatedAt`, `sanitize` | the engine |
| Autostart, installer | `daemon.go`, `installer/` | none | one `.vbs` file, packaging | - |

What is hard here, and what each part must guarantee:

* **Engine.** The trigger is a file time read before a session of up to 30
  minutes, while Desktop may start at any time; any download, write or save may
  fail, any process may die; several instances share the directory without a
  lock. It must not stop looking while something is missing, must not trust a
  file that is not what it seems, and must stop looking eventually.
* **Manifest.** Every file's hash is a load, a change and a save of the whole
  manifest, by processes that share no lock and may be killed in between. It
  must never be torn, and be wrong only where such a save went wrong.
* **Session.** Any request may be answered by a challenge, a rate limit, an API
  error or nothing. Only content may replace a file, success must mean complete,
  and retries must end.
* **Conversion.** What is written into a file must be found again in it by the
  next run, whatever the title and the messages contain.
* **Supervised loop.** It must bridge short gaps, go idle after long ones, and
  copy what was done in Desktop.
* **Shutdown.** Two goroutines, three mutexes, a pipe and a child process must
  come to an end in any order, without a late call, a lost line or a lost click.
* **Cleanup.** Deciding that a directory is abandoned and deleting it are two
  steps beside live instances.

## Modules

| Module | Models |
|---|---|
| `Mirror` | what the program promises its user: the abstract specification that `SyncEngine` implements |
| `SyncEngine` | a daemon cycle and a one-shot harvest, any number of either, with the account, Desktop and the directory |
| `MCSyncEngine` | the clock of its configurations |
| `SyncEngineProofs` | type correctness, `QuietComplete`, `CleanExitComplete`, `DecisionsSound`, `EveryCycleCounts`, the refinement |
| `Manifest`, `MCManifest` | `writeMarkdown` call by call, in several processes |
| `ManifestProofs` | its type correctness and its three properties |
| `Harvest` | what a session promises its caller: the abstract specification that `Session` implements |
| `Session`, `MCSession` | one session, request by request, over every kind of answer |
| `Markdown` | the header of an export, written and read back (operators only, used by `Session`) |
| `MarkdownProofs` | which headers are found again, for every title |
| `SessionProofs` | type correctness, `NothingButContent`, `CleanIsComplete`, `HeaderReadsBack`, `EveryStepAdvances`, that sessions are finite, the refinement |
| `Supervise`, `SuperviseProofs` | the supervised loop and its user |
| `Shutdown` | the tray daemon and a one-shot command until the process is gone |
| `ShutdownProofs` | type correctness, `TrayCallsInTime`, `OneShotLeavesNothing`, `ClickNotLost`, `HolderMovesOn`, `StatusNotTorn` |
| `Cleanup`, `CleanupProofs` | profiles and cookie copies of several instances |

Each module is one view of the program; where two meet, one keeps the detail
and the other its outcome. `SyncEngine` treats a request as answered or failed
(`Fetch`, `FetchFails`, `FetchTimesOut`), which `Session` details; `Supervise`
treats a cycle as a copy or a failure, which `SyncEngine` details; `SyncEngine`
treats the recording of a hash as one step that can do no harm, which `Manifest`
details;
`Shutdown` treats a session as something opened and closed.

Definitions carry the names of the code where it has one. Definitions called
"a faulty variant of" another show what a property would catch; no
specification uses them.

### SyncEngine

`pc[p]` is the place of instance `p` in `runCycle` or `cdpHarvest`, `job[p]` its
locals: `mem` is the loaded `syncState`, `mod` the cookie time, `listed` the
conversations as listed, `errs` and `prog` the counters `errN > 0` and
`newN+changedN > 0`. `disk` is `.sync-state.json` and `file` the exports. One
action is one call that another actor can see or that can fail:
`StartCycle`, `Trigger`, `OpenSession`, `List`, then per conversation `Skip`,
`Seed` or `PickFetch`, `Fetch`, `Truncate`, `Fill`, `Record`; `Save` is the end
of the chat harvest, `CheckSurfaces` and `Refresh` the rest of the cycle.

A conversation's content and `updated_at` are one version number; `Second`
maps a version to the whole second that the exported header repeats. A file is
a version and whether all of it is there; `os.WriteFile` is a truncation and a
later fill. A failing call is a `Fault` of a kind that the configuration
allows, `MaxFaults` times (`"torn"`: a write that stops after the header;
`"mixed"`: two processes wrote one file at once, and the tail of the longer text
stays); a `Broken` conversation always fails, a `Hanging` one never answers. Every edit is made with Desktop open, and Desktop writes its
cookie database at the latest when it closes: edits made elsewhere do not
trigger the daemon, by design. A conversation in `Tiny` never passes the header
check, because its export is too small or its title too long (see `Markdown`).

### Mirror and the refinement

`Mirror` knows items, the account, their complete copies, and a claim that
nothing is missing. A copy may be replaced or lost at any time, except while the
claim speaks of it; the claim may be made only when it is true; the user's work
begins after it is withdrawn. `SyncEngine` implements it by

| `Mirror` | `SyncEngine` |
|---|---|
| `account` | `server` |
| `copy` | `CompleteCopy`: the version of a file that is whole, else 0 |
| `excused` | `Excused`: given up at the cap, deleted, or below the header check |
| `settled` | `Quiet`: Desktop is down and the saved watermark is its cookie time |

The mapping has no history of its own: the claim is what the next cycle would
read from the disk. `ImplementsMirror` therefore says more than `QuietComplete`:
a one-shot harvest that runs while the daemon is quiet may not touch, even for
the moment of a truncation, a file the claim speaks of.

### Manifest

`pc[w]` is the next call of `writeMarkdown` in process `w`: `os.WriteFile` in its
two halves (`Begin`, `Fill`), `LoadManifest`, and in `saveManifest` `CreateTemp`,
`WriteTemp` (Write and Close), `Rename`, with `SaveFails` for its error paths and
`Kill` between any two. `manifestMu` is never waited for, as each process exports
from one goroutine, and does not appear. Three variables only observe: `left`
has the temporary files of killed processes and of a `Remove` that failed;
`raced[w]` the files about which what `w` has loaded or written is no longer up
to date; `doubt` the files whose entry is therefore not vouched for: their save
failed or was cut short, or a save put back an entry that was out of date, which
after an unreadable manifest are all.

### Session

An answer is its kind, as far as the code can tell it apart. `Retry`, `Lighter`,
`GiveUp`, `Fail` and `Accept` are the paths through `getWithRetryDelay` and
`fetchConvBodyDelay`, and `GotOrgs`, `GotPage`, `GotConv`, `GotProjects`,
`GotDocs`, `GotMemory` what the callers do with a body. The documents of a project
are written one after the other, each into its own file, and one that fails does
not stop the rest; `GotDocs` is that loop in one step, which leaves the project's
`export` `"genuine"` (all written), `"partial"` (some, and an error) or as it was (none,
and an error). A session killed within the loop is not told apart from one killed
between two projects. `mode` tells the one-shot
harvest from the daemon's two sessions and from the two diagnostic commands:
`"smoke"` asks for the organisation and a short first page (`GotSample`);
`"probe"` goes on with the whole list, the projects (`ProbeProjects`), three paths
to the documents of one of them and the memory (`Show`), and notes a failure
where a harvest would stop.

### Harvest and the refinement

`Harvest` knows the items a session was asked for, the fate of each, and the outcome.
An item is settled once: there is an export of it, or it failed. `"ok"` means an export
of everything; `"errors"` that no conversation was forgotten, nor a project unless
their list could not be had; `"aborted"` promises nothing. `Session` implements it by

| `Harvest` | `Session` |
|---|---|
| `asked` | `Asked`: conversations, projects, both or neither, by the kind of session |
| `fate` | `Fate`: what the file holds if the session wrote it, else `"failed"` if it is among the errors; a project of which a document is missing has failed |
| `outcome` | `outcome` |

Requests, retries, pages and lighter variants are stutters. This is how `SyncEngine` sees
a session: every listed conversation is fetched or fails once, and a session that
aborts leaves the state as it was. The memory is no item of `Harvest`: an API error
leaves it neither written nor an error (the run *memory*).

### Markdown

A text is a sequence of lines, a line its size in bytes and the stamp it bears
if it begins with `- Updated: `. `Document` is what `convToMarkdown` writes: the
title on one line (`Heading`), the fixed lines of the header, the messages;
`Bytes` sums the sizes of the first lines of a text.
`UpdatedAt` is `fileConvUpdatedAt`: the first stamp within the first 512 bytes.
`Session` gives every conversation a title, messages and a stamp; messages may
contain lines that look like a header, titles too.

### Supervise

Time is counted in polls. `window` only observes what the last polls saw.

### Shutdown

`pc["sync"]` is the sync goroutine of the tray, or the main goroutine of a
one-shot command; `pc["pump"]` runs the menu callbacks one at a time, as the
message loop of the (external) tray library does; `RunReturns` is the return of
that loop by itself. `mutex` says who holds `trayMu`, the mutex of `statusHolder`
and `teardownMu`; taking one is an action (`Lock`), and what is done with it and its
release are later ones, so that the other goroutine may come in between.
`trayMu` is kept while `status.get()` waits for the second mutex (`TipGet`,
`NotifyGet`), which `status.set()` takes after each cycle (`SetLock`); a session's
registration, its removal and `runActiveTeardown` take the third (`Register`,
`Unregister`, `Take`). The status's mutex is an RWMutex; both readers come with
`trayMu` in hand, so they never meet and one holder is enough. The icon is set up
before the second goroutine exists and without `trayMu` (`tray.go:104-114`): `Init` is
the state after it, and `TrayCallsInTime` speaks of the calls from then on. The other
two mutexes of the program, `secretsMu` and `manifestMu`, are left out: the first is held
for text work only; the second, held while the manifest is written and a failure of
that is logged, is taken by the sync goroutine alone.
`active` is `activeTeardown`, `doomed[t]` the session a goroutine is to tear down. A printed line (`WriteOut`) waits while the pipe is
full; `Show` is the reader of the pipe, `Stop` closes the write end and `Drained`
waits for the reader. A terminal that is gone ends the reader (`Break`); the
read end is then open but unread, until a garbage collection closes the
unreachable file (`Collect`), and lines printed after that are lost.

### Cleanup

`phase[p]` is what holds process id `p`: nothing, an ended process that still
has handles, another program, or an instance of ours and where it is. A Chrome
may outlive its instance. `os.RemoveAll` on a profile that a Chrome has open
deletes a part of it (`"torn"`). `owed` only observes what lay abandoned when a
cleanup listed it.

## Runs

| Run | Configuration | Shows |
|---|---|---|
| engine | `MCSyncEngine.cfg` | `QuietComplete`: once the daemon considers itself up to date, every conversation is exported at its latest version, except those the retry cap gave up. `CleanExitComplete`: a one-shot harvest that reports success is complete. `DecisionsSound`: no file is passed over or adopted that is not complete and current. `ImplementsMirror`: the refinement. |
| manifest | `MCManifest.cfg` | `ManifestNeverTorn`, `TempsAccountedFor`, `HashesMatch`, for two processes that export at the same time. |
| live | `MCSyncEngineLive.cfg` | `EventuallyExported` and `QuietAfterCap` under fairness; `EveryCycleCounts`: a cycle that saves takes nothing back and moves the watermark, a known version or the stall count. |
| hang | `MCSyncEngineHang.cfg` | violates `QuietAfterCap`: a session that ends in its deadline saves no stall count, so the cap is never reached. |
| supervise | `MCSupervise.cfg` | `ActiveIffSeen`, `CyclesWhenDue`, `CopiedWhileVSCodeIsOpen`, `IdleInTheEnd`. |
| starved | `MCSuperviseStarved.cfg` | violates `CopiedOnceDesktopIsClosed`: a skipped cycle counts as a cycle and the loop goes idle before the next. |
| session | `MCSession.cfg` | `NothingButContent`, `CleanIsComplete`, `EveryStepAdvances`, `Terminates`; `ImplementsHarvest`: the refinement; `HeaderReadsBack`: the version of an export written in full is found again in it if and only if the title has at most 447 bytes. |
| memory | `MCSessionMemory.cfg` | violates `RefreshIsComplete`: an API error passes for empty memory. |
| shutdown | `MCShutdown.cfg` | `TrayCallsInTime`, `OneShotLeavesNothing`, `ClickNotLost`, `HolderMovesOn`, `StatusNotTorn`, `SyncRequestServed`, `QuitExits`, with a terminal that may go away at any time. |
| orphan | `MCShutdownOrphan.cfg` | violates `NoOrphan`: quitting between the two sessions of a cycle leaves the second one's Chrome. |
| cleanup | `MCCleanup.cfg` | `LiveProfileKept`, `CopyKept`, `SweepComplete`. |
| alive | `MCCleanupAlive.cfg` | violates `LiveProfileKept`: a failed process query reads as "gone". |

The five violations are disagreements between the code and what its comments
or README say; `PROJECT.json` quotes the lines.

### Bounds

* Engine: two conversations, one of them `Broken` in *engine*, so that every
  cycle may end clean, with errors or at the cap; two versions and two cookie
  writes, so that an edit can fall before, during and after a harvest; one
  fault in *engine*, of any kind but a torn write and at any point; two in *live*,
  where a killed daemon is started again (the state file stays readable, as
  `EveryCycleCounts` needs). `MaxRetryCycles`
  is 2 in *engine* and the code's 3 where liveness depends on it. `MaxDay` is 2
  in *live*: the surfaces are refreshed twice. Instances take turns in these
  runs; with overlap `DecisionsSound` is proved.
* Manifest: two processes and two files, so that both may write the same file or
  different ones; two versions, so that a file can be rewritten while another
  process records it; three temporary names, so that one can be left behind and
  both processes still save; one fault, at any point. 906,000 states up to
  renaming; the proofs remove the bounds.
* Supervise: the code's grace of three polls and an interval longer than it,
  as with the default 30 minutes against a minute; Desktop opened twice.
* Session: two pages with three conversations, two projects, one or two
  retries: the loops go round more than once. One title has three lines, two of
  them like a header; the others have 448 and 449 bytes with their newline, the
  last that leaves room for the stamp and the first that does not. Every message
  quotes a header.
* Shutdown: three sessions (a cycle and a half), two clicks (one more than the
  channel holds), a pipe of two lines.
* Cleanup: two process ids and two copies: a cleaner and a victim, each of
  which may be reborn. The proofs remove this bound, but not the hypotheses: queries
  answer, no id is reused between check and removal, and a copy is used for less than
  the age limit. Without the first the run *alive* loses a live profile; without the
  second the new instance's profile is lost, and without the third the copy.

### Fairness

* Engine: a live daemon takes its next step (its loop never blocks for ever;
  every request has the session's deadline), and the user does not keep Desktop
  open for ever, without which no cycle runs at all.
* Supervise: the loop steps, and Desktop is closed again.
* Session: every request gets an answer or fails.
* Shutdown: goroutines run; a mutex goes in turn to those who wait for it (Go's
  `sync.Mutex` hands over to a starving waiter, and an `RWMutex` lets neither
  readers nor writers starve), hence strong fairness of the
  locks. The reader of the pipe shows a line or breaks, and a file nobody reads is
  collected in the end: Go forces a garbage collection at least every two
  minutes, and `os.File` is closed by its finalizer. Nothing is assumed of the
  timer, of clicks, or of a further line of output.

Deadlock is checked in the engine, manifest, supervise and cleanup runs. In
Session and Shutdown the end of the session or process is the end of the behaviour, so
`CHECK_DEADLOCK` is off there; `Terminates` and `QuitExits` say that the end is
reached.

## Proofs

All proofs are checked by TLAPS to the last leaf. They use the assumptions on
constants stated in each module, and the hypotheses named here.

* `TypeCorrect`, `ManifestTypes`, `SessionTypes`, `SuperviseTypes`, `ShutdownTypes`,
  `CleanupTypes`: `TypeOK` of each module, with no hypothesis.
* `QuietIsComplete`, `CleanExitIsComplete`: under `Hypotheses`, which are
  instances taking turns (`~Overlap`, which also rules out mixed files), no write
  torn after its header, a readable state file, and edits in distinct seconds.
  `QuietComplete` is not inductive: it says nothing while a cycle is under way.
  The invariant `Inv` adds: at most one instance is at work (`Solo`); the saved watermark is a
  cookie time of the past (`DiskOK`); a file is absent or a complete export of
  a version the account has had (`FilesOK`); and of the instance at work, that
  its copy of the state agrees with the disk on the watermark (`MemOK`), that a
  daemon harvests only for a cookie time newer than the saved one (`WokenOK`),
  that the listing is the account unless Desktop has been used since the cookie
  time was read (`ListingOK`), so that advancing the watermark to that time
  claims no more than was listed, that what the loop has dealt with without an
  error is exported (`DoneOK`), and that what it is writing is at least as new
  as listed (`CurrentOK`). The proof has a lemma per action.
* `DecisionsAreSound`: under `NoTornFiles` (no file torn after its header or mixed,
  edits in distinct seconds) and for instances that overlap in any way: then every
  file is absent, truncated or whole (`WholeFiles`), and a header that names the
  listed second names the listed version.
* `EngineIsMirror` (refinement), under `Hypotheses`. A step that leaves account and
  files alone is a `Settle`, made of a complete copy because `QuietComplete` holds
  after it; a write is a `Replace` of a conversation the claim does not cover,
  which follows from `Inv`: a daemon that writes has been woken by a cookie time it
  has not saved yet, and a one-shot harvest writes only what fails the header
  check; an edit is made with Desktop open, when nothing is claimed; the rest
  stutters.
* `ManifestIsWhole`, `NoTempForgotten`, `HashesAreRight` (Manifest): no hypothesis.
  Needed besides the three properties: every save has a temporary file of its own
  that nobody has left behind (`TempsOK`), which holds all of what is to be renamed
  (`WholeOK`); what a process has loaded agrees with the manifest except where it
  is known to be overtaken (`SnapOK`); what it is recording is on disk (`BodyOK`);
  and `HashOK`, which is `HashesMatch` said of processes that have begun to record
  and not of those that have only truncated.
* `ActiveExactlyWhileSeen` (Supervise): from `MissesOK`, which says that an
  active loop saw something exactly `missCount` polls ago and nothing since.
* `CyclesAreRunWhenDue` (Supervise): `DueOK` says the same of the loop's own flag
  (`active` where a cycle is run, not `active` where it sleeps although a cycle is due),
  and `ActiveIffSeen` carries it over to what the polls saw.
* `CyclesCount` (SyncEngine): for instances that take turns and a state file that can be
  read. It is the safety side of `QuietAfterCap`: every saved cycle advances the
  watermark or a known version or, failing those, the stall count, and the first two are
  bounded by the cookie time and the account, the third by the cap. `Ledger` is its
  invariant: a daemon at work has a copy of the saved state that may know more and
  differs in nothing else (`CopyOK`), it harvests for a cookie time newer than the saved
  watermark (`DueOK`), what it knows is no newer than what it listed, and what it
  counts as progress is a version it has learnt since it loaded the state (`NewsOK`).
* `TrayIsCalledInTime` (Shutdown): `MutexOK` ties `trayMu` to the places of both
  goroutines, those where it waits for the status included, and `IconOK` says that the icon is removed only after
  `shuttingDown` is set, which the sync goroutine checks under the lock.
* `OneShotIsClean` (Shutdown): `HandOK` follows the one Chrome of a one-shot command
  from `active` into the hand of the goroutine that tears it down, and the pipe
  to its drain.
* `ClicksAreNotLost` (Shutdown): the safety side of `SyncRequestServed`, inductive as
  it stands.
* `HoldersMoveOn`, `StatusIsWhole` (Shutdown): from `MutexOK`, which ties each of the
  three mutexes to the places of both goroutines. Whoever has `trayMu` may wait for
  the status's mutex, but that is then free or in the hands of a goroutine that waits
  for nothing; the registry's is kept for an assignment only. So there is no circle of
  waiting goroutines, and nobody waits for the pipe with a mutex that another needs.
* `OnlyContentIsWritten`, `SuccessIsComplete` (Session): no hypothesis. `Listed`
  says that the pages before the current one are listed, and after the last one
  the account; `ConvsDone` and `ProjectsDone` that every item is still to do, an
  error, or exported; `Place` which requests belong to which session, so that an
  item's answer is written to that item's file.
* `StepsAdvance`, `SessionsAreFinite` (Session): the safety sides of `Terminates`. `ItemTodo`
  says that the current item is still to do, so that every step goes to a later stage,
  a later page, fewer items, lighter parameters or a further attempt. `Ahead` is what
  is left of each, in that order; for a finite account the lexicographic order on it is
  well-founded and every step goes down in it, so that there is no endless session.
* `SessionIsHarvest` (refinement): `AheadUntouched` says that what the session has not
  come to is neither written nor an error. Then a step settles the current item
  (`Settles`) or none (`SettlesNone`), and what the outcome says follows from the
  invariant of `SuccessIsComplete`.
* `HeaderIsFound` (Markdown), `HeadersReadBack` (Session): the stamp is found if and only
  if the title leaves room. A text's size is a recursive sum; that a sum does not
  shrink from line to line, and that two texts with the same first lines have the
  same first sums, is proved by induction over the set of numbers for which it
  fails, which has no least element (`Least`, `Induction`).
* `LiveProfileIsKept`, `CopyIsKept`, `SweepIsComplete` (Cleanup): when queries
  answer, an id is not reused between check and removal, and a copy is in use
  for less than `residueMinAge`. `TargetOK` says that what is about to be
  removed has no live owner (the check's answer stays true, which is where the
  reuse hypothesis is needed); `MineOK` that a copy in use is young and has one
  user; `OwedOK` that what a cleanup owes is on its list, in its hands, counted
  as an error or gone.

The invariants, action properties and refinements of the passing runs are all proved.
Only model-checked is every liveness property (`EventuallyExported`, `QuietAfterCap`,
`CopiedWhileVSCodeIsOpen`, `IdleInTheEnd`, `Terminates`, `SyncRequestServed`,
`QuitExits`), as fairness is out of the prover's reach. The safety facts they rest on
are proved for every instance:

| Liveness | Rests on |
|---|---|
| `EventuallyExported` | `QuietIsComplete`: the daemon does not rest while something is missing |
| `QuietAfterCap` | `CyclesCount`: a saved cycle brings it closer to rest |
| `CopiedWhileVSCodeIsOpen` | `CyclesAreRunWhenDue`: no due cycle is slept over |
| `IdleInTheEnd` | `ActiveExactlyWhileSeen`: without a sighting the loop pauses after the grace |
| `Terminates` | `StepsAdvance`, `SessionsAreFinite`: there is no endless session |
| `SyncRequestServed` | `ClicksAreNotLost`: the token or the cycle is there |
| `QuitExits` | `HoldersMoveOn`: whoever holds a mutex that is waited for can go on |

## Not modelled

* Cryptography, DPAPI and the handling of cookie values: sequential byte handling.
* The secret registry and what `redact` replaces: the registry only grows, before
  the session key is first used, under its mutex; the rest is text search.
* The text of file names and of messages: names are told apart by the UUID they
  end in, and of a message only a line that looks like a header matters.
* The autostart script and the installer: one file written or removed in one go,
  and packaging.
* "Logs öffnen" (starts Explorer), icons, the wording of reports.

Chrome, chromedp, the tray library, the file system, Desktop and claude.ai are
external and appear as the code uses them.

## Known limits

What the code leaves open by design, or cannot tell, and what the properties
therefore exclude or do not speak of:

* Two processes that save at once may lose each other's manifest entries, and a
  process killed between a file and its hash leaves the hash out of date
  (`doubt`); `integrity.go` says that the manifest survives a crash, which is true
  of the manifest and not of the last entry. An unreadable manifest counts as empty,
  and its entries are lost the same way. `HashesMatch` excuses these entries and
  catches any other wrong hash.
* A kill between `CreateTemp` and `Rename`, or a failed `Remove`, leaves a temporary file
  for good (`left`); `TempsAccountedFor` says that nothing else does.
* A file that is torn after its header, or mixed by two processes, looks current.
* Two edits within one second look like one.
* Edits made on the web or a phone do not trigger the daemon.
* A conversation whose text contains a rate-limit message is taken for a rate
  limit; a body fetched by a lighter variant is stored under the same version.
* A surface that always fails opens a session in every cycle: there is no cap as
  there is for chats.
* A process id reused between check and removal, a Chrome that outlives its
  instance, a `tray.Run` that returns by itself while Chrome is open.
* The three files of the cookie database are copied one after the other; what
  SQLite makes of such a copy is outside the model, at worst no session key.

## What could follow

The order of work so far was: `SyncEngine` and its proofs (the most important
behaviour: is the export complete?), `Supervise`, `Session`, `Shutdown`,
`Cleanup`, each with its proofs, then `Manifest`, `Mirror` and the refinement,
`Markdown`, and the pipe of `Shutdown`; then `Harvest`, and the safety sides of the
liveness properties. Open are overlapping instances at
`Mirror`'s level, where the claim of one daemon may be made false by another's
truncation and only a weaker promise can hold, and a model of a lighter
variant's partial body, once the code tells it apart from a full one.
