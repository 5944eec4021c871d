# A TLA+ model of UDAV

UDAV (Unified Dynamic Annotation Visualizer) imports annotated corpora into
PostgreSQL, lets users define *pipelines* that turn annotations into chart
data, and shows the charts in a browser. The charts of a view can also be
exported in bulk by an API that drives headless Chromium. The server is a
Spring Boot application (jOOQ, Playwright), the front end plain JavaScript.

This directory holds TLA+ modules that model the parts of UDAV where threads,
failures and restarts meet, and the pages of the front end, where users,
timers and late answers do; the TLC configurations that check them on small
instances, and TLAPS proofs. Paths below are relative to
`src/src/main/java/org/texttechnologylab/udav/` (Java) and
`src/src/main/resources/static/js/` (JavaScript). PROJECT.json maps every
definition to its lines.

## 1. The system

| Component | State | Operations | Interacts with | Hard behaviour | Correct when |
|---|---|---|---|---|---|
| **Browser session pool** (`api/browser/BrowserSessionPool`, `BrowserSession`) | idle queue, list of all sessions, admission semaphore, closed flag; per session a single-thread executor and a Chromium process | withSession (admit, acquire, create, discard, return), evictIdle, close | called by the export service on request threads; evictor thread; `@PreDestroy` thread; Playwright | three kinds of threads on one queue; a monitor held while a browser closes; browsers die at any time; timeouts of a borrow | a session has one owner, permits add up, browsers are bounded, no slot is lost, every request returns |
| **Export run in the page** (`api/export/ExportScripts`, `pages/view/toolbar/ExportHandler.js`, `api/service/BrowserExportService`) | the page: cursor, workers, the patched download functions of each chart, timers; the server: FileSink | selectTarget, runAll, exportChart, startExport, downloadBlobs, accept, collect | the injected driver calls widgets, they call functions exposed by the server | interleaving at every await; a timer that settles an export without stopping it | each entry is answered with its own files, the functions are put back, the run ends |
| **Batch export API** (`api/Controller/BrowserExportController`, metrics) | none | validate, export, pack a ZIP | the two above | none | the answer is what collect returned |
| **Pipeline store and build** (`api/service/PipelineService`, `SourceBuildService`, `sources/DBAccess`) | a row per pipeline; the schemas `<id>`, `<id>__tmp`, `<id>__old`; a lock per pipeline in memory | create, update, delete, rebuild; the swap of schemas | controllers, importer and scanner call the build; the data API reads the schema | two builds of one pipeline; statements that fail; a crash between two renames; delete takes no lock; requests that hold connections and wait for more | what is served is complete and current, no failure destroys the only copy, no lock stays held, no connection is lost, requests do not all wait for each other |
| **Pipeline definition cache** (`PipelineService.get`, `invalidate`) | a map id → (definition, time) | get, evict on write, evict after completion, expiry | every write path; the importer writes the same table | a get overtaken by a write; a write that evicts nothing | outdated entries only where a get was overtaken, and not for ever |
| **Start-up import** (`importer/PipelineJsonImporter`, `importer/MissingSchemaScanner`) | table rows, lock rows, schemas | importOne, buildAfterImport, scanAndProcessOnce | the build | an application killed at any step and started again over the same folder | every file is stored once, everything stored is built in the end |
| **Generators** (`pipeline/Pipeline`, `generators/*`) | none beyond the tables they fill | evaluate a pipeline | called by the build | ids of expanded N-templates have to agree with the data API | the ids the build writes are those the API reads |
| **Data API** (`api/service/DataService`) | none | queries with filters and paging | reads the schema of a build | a schema that is being swapped | answers are from one build |
| **Document import** (`importer/DUUIImporter`, `JooqDatabaseWriter`) | tables per type, registry, document states, in-memory sets of prepared type systems | process, DDL per type system, index build, row counts | parallel DUUI workers | double-checked DDL, one document met twice, DDL that fails half-way | a document is stored as a whole, a failure costs no other document |
| **Type hierarchy** (`database/TypeTableResolver`) | none | breadth-first resolution | generators | cycles, duplicates | every subtype once |
| **View page: a chart** (`widgets/D3Visualization`, `WidgetInterface`, `WidgetPagination`, `pageRange`, `charts/*`) | page, filter, upper bound of the value range, data, svg, message; the corpus filter of the page | init, turn the page, apply and reset a corpus filter, change a setting, drag the slider, switch, resize, export all | data API; the toolbar; the export driver | answers out of order, failed answers, an export that borrows the chart, a map drawn in a callback | the chart shows what its controls say, data, drawing and export agree |
| **View page: start** (`pages/view/View.js`, `widgets/widgets.js`) | the promises of the charts, `__UDAV_READY__` | make the widgets, wait for data and fonts | the export driver waits for the flag | a chart that fails, a type that is unknown | ready means drawn; the flag is always set |
| **View page: corpus filter** (`shared/classes/CheckboxSearch`, `pages/view/filter/*`) | text, suggestions, checkboxes, the debounce timer | type, search, add, check, apply, reset | data API, charts | answers after the text changed, a list that comes late | suggestions are those of the text, no item twice |
| **View page: chat** (`pages/view/ChatBot`, `toolbar/*`) | the text, the conversation, the spinner | send, picture of a chart, answer | a language model | a question sent while another is on its way | nothing is lost, questions and answers take turns |
| **Editor** (`pages/editor/*`, `shared/classes/Modal`, `FormBuilder`, `shared/modules/inputFactories`, `widgets/*`) | sources, generators, widgets; the dialog; the options of a widget | add, edit, remove, save, overwrite, discard; a form with its inputs | pipeline service | edits while Save waits, dialogs that replace each other, defaults that take 0 for missing | what is saved is complete, OK means what the dialog says, what is set is used |
| **Index page** (`pages/index/*`) | the list, the dialog | delete, drop a file | pipeline service | late answers, two uses of one dialog | only what was confirmed is deleted |
| **Charts and conversions** (`widgets/charts/*`, `shared/modules/clustering`) | none that outlives a drawing | scales, clusters, edges, medial axis, drawing | the chart | ties, empty cells, points on one line, the order of the points | the result is what its definition says |
| **Demo reset scheduler** (`scheduler/DemoPipelineResetScheduler`) | none | delete and import | pipeline service | never scheduled: no `@EnableScheduling` in the application | - |

PROJECT.json lists, under "hazards", what in this code is hard to test, with
the line where it bites and the properties that watch it.

## 2. The modules

| Module | What it is |
|---|---|
| `ExportPool` | the session pool, thread by thread |
| `SessionLending` | what the pool promises to its callers, without queues, threads or browsers |
| `ExportPoolProofs` | the theorems about `ExportPool`, that it implements `SessionLending` among them |
| `ExportRun` | one export in a page, driver, handler and file sink |
| `ExportRunProofs` | the theorems about `ExportRun` |
| `PipelineBuild` | requests on pipelines, the build under its lock, the swap |
| `ConnectionBudget` | the connections these requests hold and wait for, on one pool |
| `PipelineBuildProofs` | the theorems about `PipelineBuild` and `ConnectionBudget` |
| `PipelineCache` | the cache of definitions |
| `PipelineCacheProofs` | the theorem about `PipelineCache` |
| `StartupImport` | importer and scanner over starts, stops and crashes; uses a build as one step |
| `DocumentImport` | the writers of documents: DDL per type system, the transaction of a document |
| `DocumentTable` | what the import of documents promises to readers, without stages, locks, transactions or DDL |
| `ImporterProofs` | the theorems about `StartupImport` and `DocumentImport`, that it implements `DocumentTable` among them |
| `ViewWidget` | a chart of the view page: paging, filters, range, redraws, failures, export all |
| `ViewReady` | the start of the view page and the flag an export waits for |
| `CorpusSearch` | the search field of the corpus filter, its checkboxes, Apply and Reset |
| `ChatBot` | the chat |
| `Clustering` | `dbscanClustering`, statement by statement |
| `PlotGrid` | the geometry of the charts as operators |
| `Modal` | the dialog of a page as operators on a record |
| `Editor` | the editor page, with Save and its two requests; keeps a `Modal` |
| `Menu` | the index page; keeps a `Modal` |
| `WidgetForms` | the way of an option through a form and the constructor of its widget |
| `FormControls` | the input that searches and the input that collects |
| `Picking` | `Array.prototype.filter`, as a recursive function of the position |
| `PickingProofs` | lemmas about it, about sequences and about least elements |
| `MCViewPage` | composes the modules of the view page |
| `ViewPageProofs` | the theorems about `MCViewPage` and its parts |
| `MCEditorPage` | composes the modules of the editor and index page |
| `EditorPageProofs` | the theorems about `MCEditorPage` |
| `MCPipelineService` | composes the cache and the connections of the requests |
| `MCImporters` | composes the importers of documents and of pipelines |
| other `MC...` | the instances TLC checks |

### ExportPool

One action per step of `withSession`, `acquire`, `createIfAllowed`, `discard`,
`evictIdle` and `close` that other threads can observe. `pc` is the line a
thread is at, `held` the session it has in a local variable, `monitor` the Java
monitor of the pool. `discard` is two steps with the monitor held between
them, because taking the session off the list and the end of its browser are
seen separately. `close` is `CloseBegin`, a `CloseTask` and a `CloseShutdown`
per session, and `CloseEnd`. A task on the thread of a session (launch, health
check, teardown) is one step: that thread runs one task at a time and nothing
else reads what it writes. Time is two facts: a request is `late` once its
borrow timeout is over, a session `stale` once it is unused for longer than the
idle timeout. The environment kills browsers (`Crash`).

Not modelled: interrupts (nothing in the application interrupts a request
thread), an idle timeout of zero, metrics, recycling measurements.

`SessionLending` is the abstract specification: a bounded number of requests is
inside, at most `MaxSessions` of them have a session, each gets one at most
once per call, who leaves has given it back. `LendsSessions` says that
`ExportPool` implements it under the mapping `LendingState`.

### ExportRun

JavaScript runs until an await: what happens between two awaits is one action,
and `TurnOver` says that continuations of settled promises (microtasks) run
before a timer, a response or a reply is looked at. `sink[c]` is whose download
functions the handler of chart `c` has, `original[i]` what export `i` found
there and will put back, `stage[i]` where its startExport is, `via[i]` the
export whose functions its files are delivered by. `verdict[i]` is what
`exportChart` resolved to; the timer sets it (`Timeout`) and stops nothing.
`late` remembers which timers came first; it is a history variable.

Not modelled: how a widget renders or converts, the page load, the validation
of requests, the overall timeout of the browser call.

### PipelineBuild

The database calls of `PipelineService` and `SourceBuildService` use
connections of their own in autocommit mode (the Spring transaction around a
method holds another one, on which nothing is executed), so every statement is
an atomic step, visible at once and never rolled back. A definition is a
number, the content of a schema is the number of the definition it was built
from, `Partial` or `Missing`. Every statement may fail (`Fails`), within
`MaxFailures`; `Crash` ends all threads and releases the locks in memory. What a
build computes is one step (`Fill`). Ids are assumed not to end in the suffixes
of another one's transient schema.

### ConnectionBudget

`getConnection` of HikariCP, of a pool of ten unless it is configured otherwise. The transaction of
Spring takes a connection before the method begins and keeps it (`begin`); the method takes its own
(`own`); `create` and `update` keep both while they wait for the build lock (`await`) and build. The
build takes a third for each of its pieces, one after the other: the clean-up, the two `DBAccess`, the
definition, the sources and generators, the swap (`open`, `build`). `dbCreateTextFormattingSegments`
calls `dbGetSofa` inside its own `try`, so it waits for a fourth (`nest`, `read`).

| Code | Model |
|---|---|
| the pool; who holds a connection for what | `free`, `holds` |
| where a request is, and in which method for which pipeline | `at`, `call` |
| the pieces of its build that are left | `pieces` |
| `buildLocks` | `buildLock` |
| `getConnection`; its timeout, and every other exception | `Connect`; `Throw` |
| `lock.lock()`; the `finally` of `startBuild` | `TakeLock`; `ClosePiece` or `Throw` |
| the ends of `try (Connection ...)`, of the transaction | `ReadSofa`, `ClosePiece`, `Throw`; `Leave` |

To the pool `list` and `delete` are a `get` that is not cached, and `create` is an `update`. A
rebuild has no transaction. The queries of the data API take one connection, wait for nothing while
they hold it, and are left out.

### PipelineCache

One pipeline, readers in `get`, writers in `create`, `update` and `delete`, the
importer. A write evicts in the method and again in `afterCompletion`. Two
history variables tell why an entry may be outdated: `overtaken` (a get read
the row before a write and stored it after) and `bypassed` (the importer wrote
since).

### StartupImport

`importOne` decides between replace, skip and store under a fresh id; the
build that follows succeeds if the annotations of the definition are there.
The scanner takes pipelines without a schema, passes over those with a row in
the lock table, and builds. `Stop`, `Crash`, `Edit` (a new edition of a file)
and `Annotate` (a corpus is imported) are the environment.

### DocumentImport

Instances of `JooqDatabaseWriter` take the input files. With the stage that
prepares the schema (the default) its one instance runs the DDL for each file first and
the writers only read the registry; without it each writer runs the DDL. Both are
in the model, `prepare` says which.

| Code | Model |
|---|---|
| tables, `uima_type_registry`, `type_system_fingerprints`, `documents` | `columns`, `registry`, `fingerprints`, `documents` |
| rows of all tables | `stored`: pairs of a table and the import they come from |
| `SEEN_TS_FINGERPRINTS`, `DDL_LOCKS` with the advisory lock | `seenTs`, `ddlOwner` |
| `typeToTable`, `createdTables`, `TsCache` of an instance | `mapped`, `created`, `metas` |
| `pg_advisory_xact_lock` of a document | `docLock` |
| `ensureTablesForTypeSystem` | `EnsureReadOnly`; `Ensure`, `EnterMonitor`, `Fingerprint`, `Create`, `Alter`, `Register`, `Stamp`, `Resolve` |
| `process` after it | `CheckState`, `LockDocument`, `Recheck`, `DeleteRows`, `Insert`, `Copy`, `Commit` |

DDL commits statement by statement, so a failure or a kill leaves what was done; what
a transaction deletes and adds is seen when it commits (`deleted`, `added`). `Error` is a
statement that fails: the exception leaves `process`, locks are released, the file is not
imported in this run. `RunAgain` ends the application, at any point, and starts it with other
editions of the files, another type system, another setting. That an instance goes on with the
next file after an exception, and that all files of a run have one type system, is how
DUUI is taken to work. The locks that ALTER TABLE takes on a table delay a statement and
are left out; so are the supertypes in the registry, which no property is about, and
that the name of a table is made from the name of its type.

`DocumentTable` has two variables: `table`, the entry and the rows of each document, and `offer`, the
imports of this run. Its steps are `Replace`, a document by an import of the offer whose entry differs
from the one that is there, and `NextRun`. `Table` is the refinement mapping.

### ViewWidget

What is drawn is represented by where it comes from: the page, the corpus filter,
the settings and the largest value of its rows. The values of a page are taken
as 1 up to its largest one, and settings other than the range leave that one in;
a bound below it takes away what is above. `requests` are the fetches under way,
each with the page and filters it was sent with; the answers come in any order.
`InitAnswered`, `PageAnswered`, `AllAnswered` and `FetchFails` are what follows
the four awaits, `Render` is clear, draw and the message of a chart in one.
`Charts` says of each of the ten charts which controls ask the server again,
which only draw again, and how it draws. `exported` is the last result of
`export(true)`: for each page its data and what its svg was drawn from. History:
`chosen` (the user set a bound), `overlapped` (a page was asked for while
another was awaited), `clobbered` (an export was overtaken, or a map drawn after
it, or an empty page hid the chart).

Not modelled: what is drawn, tooltips, zoom, the contents of the static widgets.

### ViewReady, CorpusSearch, ChatBot

`ViewReady` follows every widget of a layout from its constructor to its drawing;
`readiness` is the promise `__UDAV_READY__`. A widget of an unknown type throws
and ends the loop that makes the widgets after it. `CorpusSearch` has the
debounce timer as a flag, searches under way as a set, and `answered` for the
number of the search whose answer is shown. `ChatBot` separates taking the text,
making the picture of the chart, and the answer. Texts are numbers; 0 is empty. A picture
may also fail (`PictureFails`): `svgToBase64` has no `onerror`, so the question is `hung`, its
text stays in the text area and the spinner stays on; the user may write and send again.

### Clustering, PlotGrid

`Clustering` has the labels, the list of seeds and the two loop counters of
`dbscanClustering` as variables; distances are compared as squares of integers,
as the code's distances are of the plotted points. `LabelsAreDBSCAN` states the
definition of the result, which does not depend on the order of the points.
`PlotGrid` has one task per state: an input of one computation, and its result.
Coordinates are exact fractions over the denominator of the scale.

### Modal, Editor, Menu

`Modal.js` keeps one listener of OK and takes it away on hide; `onOK` is the
sequence of listeners the button has. While a dialog is there its backdrop covers
the page, so an edit needs it gone; an answer of the server does not.
`Editor` keeps the three lists and what Save has sent (`Sent`), awaits and
stored; a removed element leaves dangling names behind, which `Validate` has to
find. `Opened` are the pipelines a server may have for editing: their elements are
numbered as `OpenedAssumption` says, and a generator or a widget may name what is not
there. `Menu` has the deletes under way and those confirmed.

### WidgetForms, FormControls

`Fields` lists, per form, each option with the kind of its input and its default, `Constructed` what
the constructor makes of it. A value is a number: the place in a list of options, 1 and 0 for true
and false; 0 and `Null` are what JavaScript takes for false. The options of a form are a record, and
object spread is `Over`. A user opens the form, changes inputs, confirms or cancels, and the page is
loaded anew, which makes the widget from what was kept.

### Composition

The parts of a page share no state but the dialog, which `Editor` and `Menu` have
inside; the importers of an application start share only whether annotations are there;
what is cached decides only whether a get takes a second connection, and `ConnectionBudget`
allows both. So a behaviour of `MCViewPage`, `MCEditorPage`, `MCImporters` or
`MCPipelineService` is one of one part: `part` says which, and the others stay in a state
in which they rest. Interleaving parts that cannot influence each other would add states
and no behaviour of a part.

## 3. The runs

`tlc -config <run>.cfg <module>`; all end within three minutes with two workers.

| Run | Instance | Shows |
|---|---|---|
| `pool_contention` | 3 requests, 2 sessions, 1 waiter, 1 crash, launch errors | `PermitsConserved`, `SoleOwner`, `BrowserBound`, `OfferFits`, `ClosedByOwnerOnly`, and the refinement `LendsSessions` |
| `pool_liveness` | 2 requests, 1 session, 1 waiter, 1 crash, shutdown | `NoSlotLeak`, `EveryRequestReturns`, `IdleServerHoldsNoChromium` |
| `export_run` | 3 charts (one with two files, one without svg), 5 selectors of every kind, two of them for one chart, 3 workers, failures and timeouts | `HandlerRestored`, `ExactFiles`, `OwnWidgetOnly`, `RunEnds` |
| `build_safety` | 1 pipeline, 3 workers, all requests, 1 failure, 1 crash | `TargetComplete`, `SwapForward` |
| `build_settles` | 1 pipeline, 2 workers, no delete, 2 failures, 1 crash | `SettledDataIsCurrent`, `NeverLastCopy`, `EveryRequestEnds` |
| `service_overlap` | the cache: 2 readers, 2 writers, the importer, 3 definitions; the connections: 2 requests of every kind, 2 pipelines, builds of up to 2 pieces, 7 connections | `OutdatedOnlyIfOvertaken`, `ConnectionsSuffice`, `ServiceSettles` |
| `startup_import` | 3 files (two with one id, two with one name), 2 editions, 1 crash | `EveryNameStoredOnce`, `StoredIsBuilt` |
| `importers` | pipelines: 2 files, 3 editions, replace-if-different, 2 crashes and 1 in the scanner's build; documents: 2 files with one id, 3 editions with 2 texts, 2 type systems, 2 writers, a failing statement, 2 runs, cut off or not | `LatestEditionStored`; `DocumentsAreWhole`, `OthersAreImported`, and the refinement `ImportsReplaceDocuments` |
| `startup_killed` | 1 file, a crash in the scanner's build | `StoredIsBuilt` fails (section 6) |
| `view_page` | 11 charts of 3 pages under 2 corpus filters, 3 events of the user, failures; every layout of up to 3 widgets; 5 inputs of the corpus search; 3 texts and questions; points and drawings as below | `QuietShowsCurrent`, `PagingDropsNothing`, `DrawingsAgree`, `ReadyIsHonest`, `SearchIsExact`, `ChatIsWhole`, `ComputedRight`, `PageSettles` |
| `editor_page` | up to 3 sources, generators and widgets, 3 edits, 2 clicks on Save; 2 pipelines, 3 deletes; every form, opened twice; 5 steps of an input | `DialogsMeanThis`, `SavesAreWhole`, `InputIsUsed`, `OnlyTouchedChange`, `SpinnerGivesWay` |
| `view_range` | 1 bar chart, 2 events | `NothingDropped` fails (section 6) |

Types are conjuncts of a property: `TypeOK` of `OfferFits`, `OwnWidgetOnly`, `TargetComplete`,
`OutdatedOnlyIfOvertaken` and `OneRowPerName`, `ImportTypeOK` of `DocumentsAreWhole`, `PageTypeOK`
of `ComputedRight` and `SavesAreWhole`; those of `ConnectionBudget` are in `ConnectionsComeBack`.
Some properties are conjunctions of named parts:

| Property | Its parts |
|---|---|
| `ConnectionsSuffice` | `ConnectionsComeBack`, `SomebodyGoesOn` |
| `ServiceSettles` | `ReadersCatchUp`, `CallsEnd` |
| `EveryNameStoredOnce` | `EveryFileStored`, `OneRowPerName` |
| `DrawingsAgree` | `DrawnIsCached`, `BlankSaysWhy`, `ExportMatchesMeta` |
| `SearchIsExact` | `NoItemTwice`, `ResultsMatchText` |
| `ChatIsWhole` | `NothingUnsaid`, `TurnsAlternate`, `SpinnerTells` |
| `ComputedRight` | `PageTypeOK`, `SeedsAreNew`, `LabelsAreDBSCAN`, `EveryPointInOneCell`, `PiecesFitSpacing`, `CenterIsEquidistant`, `InnerEdgesOnce`, `FrameIsClosed` |
| `PageSettles` | `EventuallyReady`, `QuestionsAreAnswered`, `EveryPointIsLabelled` |
| `DialogsMeanThis` | `EditorOkMeansThis`, `OkMeansThis(dialog)`, `DeletedAsConfirmed` |
| `SavesAreWhole` | `PageTypeOK`, `SavedIsClosed`, `NothingLeftBehind` |
| `InputIsUsed` | `SetIsUsed`, `SubmitsChoice`, `PillsAreSubmitted` |

**Bounds.** Three requests on two sessions let every pair of threads meet at
every pair of steps while a third one waits; the shutdown joins in
`pool_liveness`, where one session is enough for waiting, and one identity
because that of a closed session is used again. One crash suffices because a dead browser is only
seen by the next health check; the proofs drop all of these bounds. Two exports
of one chart and one of another are every kind of overlap the driver knows.
Pipelines share nothing, so one is enough; three workers overlap build,
update and delete, two overlap two builds. Three definitions are an old one, a
new one and one in between. Two failing statements reach the catch block and a
failure inside it.

A request that waits has three connections at most, so seven are the fewest that are enough for two
requests: with six, both can hold three and wait for the timeout, and `CallsEnd` fails. Two
pipelines have two locks; two pieces are one that is followed by another and one that is the last.
`SomebodyGoesOn` presumes more than three connections to a request. By the theorem the pool of ten
is enough for three requests at a time; nothing in the application keeps a fourth from it.

Two files with one document id, two writers and the stage before them meet at every pair
of steps of one document; a type system with a table and a column more than the other
tells rows that stay behind from rows that are missing, and needs a table that is made and one
that is altered. A failing statement and a run that is cut off leave DDL half done for the
next file and for the next run.

Three events in a chart are enough for a setting, a page turned and an
export in every order, each with its answer late or lost; three pages, of which one
is empty under one filter and another holds the largest value under the other,
tell apart every page a chart may show; Density and DBSCAN stand for the five
clusterings of BoundaryApproximation, which differ in their controls only. Three
widgets are enough for a failing one before, between and behind others. Five inputs
are two texts, an item added, and the field left and entered again. DBSCAN runs over
all sequences of four points from five positions, and over lines of seven with two
clusters and a point on the rim of both, the least in which the order of the points
decides a label. The drawings have up to three points in a plane of 4 by 3, enough for
points on a line, coinciding ones and an extent of zero; meshes have two triangles
joined in every way or a strip of three. Three edits reach a generator without its
source and a widget without its generator, two clicks on Save a second one during the
first. A form opened twice reads what it wrote.

**Deadlock** is not checked in runs whose system may stop: a build, an import, a
chart or a dialog that has nothing more to do.

**Symmetry** is used in `pool_contention` (requests, sessions) and `build_safety` (workers), which
check no liveness.

**Fairness.** Threads run (weak fairness of every step of a request or of a build that was
accepted); no request has to arrive, no application has to stop, nothing has to crash. A thread that
competes for the monitor of the pool, or for the ReentrantLock of a build, gets it in time although
others take it in between (strong fairness; the queue of a ReentrantLock justifies it, for the
monitor it is an assumption about the JVM). A connection that comes back to HikariCP is handed to
those who wait (strong fairness of `Connect`); in `ConnectionBudget` no timeout has to strike. The
borrow timeout passes, sessions age, the evictor's schedule goes on, timers of a page fire, cache
entries expire. In `ExportRun` no widget, response or file has to come to an end: the timers alone
make the run end. On the pages the server answers or the request fails, fonts load or give up, the
picture of a chart is made or never will be, and a loop that runs goes on; no user has to do
anything.
`EditorFairness` is that of the requests of Save alone. In `StartupImport` a start that began goes
on, and `StoredIsBuilt` speaks of behaviours in which the application is started again and again.

**Exceptions that a property names.** `QuietShowsCurrent` and `PagingDropsNothing`
except charts an export left different (`clobbered`) and, for charts with a
range, pages that were asked for while another was awaited (`overlapped`: the bound
of the one is sent with the other); `NoItemTwice` a field used before the initial
list is there (`early`); `NothingUnsaid` and `TurnsAlternate` a user who writes or
sends while a picture is made or an answer awaited (`raced`, `parallel`);
`QuestionsAreAnswered` and `SpinnerTells` a question whose picture is not made (`hung`);
`OnlyTouchedChange` options without a field, and values their field cannot show;
`SubmitsChoice` a list that comes after the field was left (`lateClick`);
`SetIsUsed` the four values of `NotKept`; `NothingLeftBehind` a second click on Save;
`ReadyIsHonest` maps, and what comes behind an unknown type. In each
the code does otherwise in the excepted case (section 6). `ExactFiles` excepts charts of which an
export was too slow, `NeverLastCopy` a second failure and a crash,
`OutdatedOnlyIfOvertaken` the overtaken get and the importer,
`IdleServerHoldsNoChromium` a pool that was shut down, `NoSlotLeak` (through
`StartErrors = FALSE`) a launch that ends in a `java.lang.Error`. In each case the
code does misbehave in the excepted case: a restore that fails after a failed
rename loses the data in the finally block; a crash between the renames leaves
the only copy under a name the next build drops first; a request may restart
the browser of a session between the teardown task and the shutdown of its
executor; an Error passes the `catch (Exception)` of `acquire`.

## 4. The proofs

A theorem has no hypothesis but the assumptions on the constants, which TLC evaluates for every
instance, except where one is stated. A theorem holds for every value of the bounds, so the bounds
of section 3 limit only what TLC explores.

### The pool, the build, the cache

`ExportPoolProofs` proves, for any sets of requests and sessions, any pool size, number of waiters
and number of crashes, with launch errors and a shutdown or without:

| Theorem | Says |
|---|---|
| `TypeCorrect` | `Spec => []TypeOK` |
| `OneOwner` | `Spec => []SoleOwner` |
| `PermitsAddUp` | `Spec => []PermitsConserved` |
| `PoolBounded` | `Spec => []BrowserBound` |
| `OfferAlwaysFits` | `Spec => []OfferFits` |
| `OnlyOwnerCloses` | `Spec => ClosedByOwnerOnly` |

They rest on the assumptions of `ExportPool` on its constants (sizes are naturals, the set of
requests is finite, the names of the threads are different). The inductive invariant is

    IInv == TypeOK /\ Roles /\ MonitorHeld /\ Slots /\ Owned /\ PermitsConserved

`SoleOwner` alone is not inductive: that a new object is nowhere else needs `Owned` (what is in a
queue or in a hand is live), that a thread takes no second session over its first needs `Roles` (a
thread has a session exactly at the points that use one). `BrowserBound` needs `Slots` (a live
object is on the list, or in the hands of the thread inside the monitor) and with it `MonitorHeld`.
`OfferFits` follows from both: the queue, the sessions the evictor keeps and the one being offered
are different live objects, and there are at most `MaxSessions`. Each conjunct has a lemma about a
step (`PermitsStep`, `RolesStep`, `MonitorStep`, `OwnedStep`, `SlotsStep`, `TypeStep`) with one case
per action; `NextIInv` puts them together and `Invariance` is the temporal step.

`PipelineBuildProofs` proves, for any set of pipelines, any finite set of requests that work at a
time, any number of definitions, failing statements and crashes:

| Theorem | Says |
|---|---|
| `ServedIsComplete` | `Spec => []TargetComplete` |
| `SwapsGoForward` | `Spec => []SwapForward` |

The assumptions are those of `PipelineBuild`: the bounds are naturals, the requests are finitely
many, and the markers `Missing`, `Partial` and `Free` are neither definitions nor requests. The
inductive invariant is

    IInv == TypeOK /\ (\A w \in Workers : Building(w)) /\ (\A i \in Ids : Recent(i)) /\ Bounded

Neither property is inductive: a schema that is being filled could be renamed to the one that is
served by a second build. `Building` says that a build holds the lock of its pipeline, so there is
one (`OneBuild`), that what it has read or filled is not older than what is served, and that between
its renames nothing is served. `Recent` says that a row is the latest definition and that no schema
has the data of one that was not stored yet; a build that reads the row under the lock therefore
reads nothing older than what is served. `Bounded` counts the definitions that are on their way into
the table, so that a new number is in `Versions`; it needs the cardinality of the set of requests
that are about to insert, and with it the assumption that requests are finitely many. A step of a
build is split into what it does to the types (`BuildType`), what it leaves alone (`BuildFrame`),
the builds of others (`OtherBuilds`) and its own (`OwnBuild`); `LockIInv`, `RequestIInv` and
`CrashIInv` are the other actions.

Of `ConnectionBudget`, for any finite set of requests and any pipelines, connections and pieces,
whatever throws:

| Theorem | Says |
|---|---|
| `PoolSuffices` | `BudgetSpec => []ConnectionsSuffice` |

`BudgetInv` adds `InBuild`: a build has pieces left, and only a request in a build has a lock, the
one of its pipeline. The connections in use are counted by what they are used for (`InUse`), so a
step changes a count by one for each use it takes or gives back (`TakeCounts`, `ReturnCounts`). If
all waited, nobody would be reading a text, so at most three connections a request would be in use
and one would be free (`EnoughForOne`); then nobody waits at the pool, and who waits for a lock
waits for a build that goes on (`NobodyStuck`). TLC finds `BudgetInv` on the instance of
`service_overlap`.

`PipelineCacheProofs` proves `OutdatedOnlyThen == Spec => []OutdatedOnlyIfOvertaken` for any
readers, writers and definitions, with an importer that replaces definitions or without, from the
assumptions that `MaxVersions` is a natural and `Empty` is not. The invariant adds `Reading`: a
reader that is about to put a definition has read one, without which the type of the entry is not
kept.

### The pool lends sessions; no slot is lost

`PoolLendsSessions == Spec => LendsSessions` (`ExportPoolProofs`) is the refinement: the initial
states of `ExportPool` are initial states of `SessionLending` under `LendingState`, and every step
is `Enter`, `Lend`, `Settle` or `Leave` of it, or changes nothing it sees. `Enter` may happen only
while fewer than its bound are inside, which is `PermitsConserved` and a permit that is free; `Lend`
only while fewer than `MaxSessions` have a session: the lent requests map one to one into the live
objects, of which `Slots` allows `MaxSessions`, with the one that is being lent.

`NoSlotIsLost == ASSUME StartErrors = FALSE PROVE Spec => []NoSlotLeak`. The hypothesis is the
exception of section 3: an Error of a launch passes the `catch (Exception)` of `acquire`, and the
slot is lost. The proof follows what is on the list and what threads can reach: a step keeps both
together (`Keeps`), or creates a session that is in both, or takes one off the list that leaves
both.

### What a build settles on

`PipelineBuildProofs` also proves, of requests without a delete:

| Theorem | Says |
|---|---|
| `SettlesOnTheStored` | `"delete" \notin Operations` gives `Spec => []SettledDataIsCurrent` |
| `LastCopyIsKept` | `"delete" \notin Operations` gives `Spec => NeverLastCopy` |

The hypothesis is needed and is that of the run `build_settles`: a delete takes no lock, so its late
`DROP SCHEMA` may take what a create with the same id has built meanwhile. `Settling` says that, as
long as nothing failed, data that is not current has a request that will bring it up to date
(`CatchesUp`), because whoever changes a row builds after it; `Keeping`, that up to the first
failure a copy that is aside alone is in the hands of the swap that brings it back (`BringsBack`).
TLC finds both invariant on the instance of `build_settles`.

### An export run

`ExportRunProofs`, for any charts, selectors, number of workers, failures and timeouts:

| Theorem | Says |
|---|---|
| `RunInvariant` | `Spec => []RunInv` |
| `HandlersAreRestored` | `Spec => []HandlerRestored` |
| `FilesAreExact` | `Spec => []ExactFiles` |
| `WidgetsKeepTheirFiles` | `Spec => []OwnWidgetOnly` |

That a handler is restored to what the page made needs the order of the exports of one chart: one
begins when those before it are settled, so what it finds, and puts back, is the page's (`ChainOf`,
`TakenOf`). Which files an answer has is an account of the sink: a file on its way goes to an entry
of the same chart that has begun (`DeliveryOf`, `FileOf`); and while no export of the chart was
late, an export is settled by its own steps, and its entry holds exactly the files it has sent so
far (`PunctualOf`). `AnswerOf` is what both come to. A late export is where `ExactFiles` ends and
`OwnWidgetOnly` does not: its files land in the entry of another export, but of the same chart.

### The importers

`ImporterProofs`, for any folder, editions, crashes and restarts:

| Theorem | Says |
|---|---|
| `StartupTypes` | `Spec => []TypeOK` |
| `NamesAreStoredOnce` | `IdsFixNames` gives `Spec => []EveryNameStoredOnce` |
| `LatestEditionsAreStored` | `IdsAndNamesDiffer` and `ReplaceIfDifferent` give `Spec => []LatestEditionStored` |

The hypotheses are about the folder and say where `importOne` is right. It looks for the id first,
so with replace-if-different two files of one id and two names overwrite each other, and one of the
names is lost: `IdsFixNames` holds where nothing is replaced, which is the default, or where files
of one id have one name. And the edition that is stored is only that of each file if no two files
compete for an id or a name. The invariants are about rows: each comes from a file that asked for
its id (`AskedFor`), no two have one name (`NamesDiffer`), and the files already dealt with are
stored (`ImportedSoFar`).

For any files, type systems, writers, failing statements and runs:

| Theorem | Says |
|---|---|
| `ImportInvariant` | `ImportSpec => []ImportInv` |
| `DocumentsStayWhole` | `ImportSpec => []DocumentsAreWhole` |
| `OthersStayImported` | `ImportSpec => []OthersAreImported` |
| `ImportReplacesWhole` | `ImportSpec => ImportsReplaceDocuments` |

`ImportInv` has the types (`Shapes`), and five more parts. `Schema`: a fingerprint that is stored
has its tables and its entries in the registry, `SEEN_TS_FINGERPRINTS` has no other, and an instance
that is in the middle of the DDL has done what comes before its point. `Locks`: the lock of a
document has one owner, which is between taking it and its commit. `Transactions`: what a
transaction has deleted are all rows of its document, and what it adds is of its one import.
`Tables`: a row lies in a table the deletion looks at, without which an import under a smaller type
system would leave rows behind. `Whole`: the rows of a document are those its entry names. The
assumptions are that the input files are finitely many, that the names of the instances differ, and
that no hash is the mark of a document that is not there. TLC finds the invariant on the instance of
`importers` (1,404,679 states).

`ImportReplacesWhole` is the refinement of `DocumentTable`: a step of a writer leaves the table as it is
(`TableRests`), but a commit, which replaces one document by what its file is in this run
(`CommitReplaces`, from `Transactions` and `Locks`); the end of a run is `NextRun`. That a commit
replaces only what differs needs `Outdated`: whoever has passed the second look has seen another entry,
and as it holds the lock of the document nobody changes that entry before the commit. Without
that second look two writers import one document twice.

### The view page

`ViewPageProofs`, for any layout, corpus, data, chat and order of the answers:

| Theorem | Says |
|---|---|
| `QuietIsCurrent`, `PagingIsLossless`, `DrawingsStayTrue` | `WidgetSpec` gives `[]QuietShowsCurrent`, `[]PagingDropsNothing`, `[]DrawingsAgree` |
| `ReadyStaysHonest` | `ReadySpec => []ReadyIsHonest` |
| `SearchStaysExact` | `SearchSpec => []SearchIsExact` |
| `ChatStaysWhole` | `ChatSpec => []ChatIsWhole` |
| `ClustersCorrect` | `ClusterSpec => [](ClusterTypeOK /\ SeedsAreNew /\ LabelsAreDBSCAN)` |
| `GeometryCorrect` | `GridSpec` gives `[]` of the five properties of `PlotGrid` |
| `ComputedRightAlways` | `Spec => []ComputedRight` |
| `PageStaysRight` | `Spec` of `MCViewPage` gives `[]` of the six others that `view_page` checks |

- `WidgetInv`: the request that was not overtaken asks for the page, the filter and the bound that
  are shown (`Asks`), so what its answer becomes is current; what is still to be drawn, and what is
  drawn, come from such answers (`DrawsOK`, `DrawnOK`, `ViewOK`); `RangeOK`: the bound that is sent
  is the user's, that of the page, or none. TLC: 6,237,960 states.
- `ReadyInv`: what readiness presumes of every chart is known of those it has already passed. The
  order of the charts an export sees is that of the layout, because `filter` keeps it. TLC, with
  `SearchInv`: 271,824 states.
- `SearchInv`: an item on the list of results has no checkbox (`BoxesOK`), and the list is of the
  text when the last search sent is answered (`TextOK`). This needs that the list of all items has
  none twice (`ListAssumption`: `doc_id` is the key of the documents, and tags are selected
  distinct, `DocumentRepository`).
- `ChatInv`: as long as nobody writes while a picture is made, a text is in the text area, deleted,
  or a question, and no question twice (`Unsaid`, `Once`); the text of the question a picture is
  made for is that in the text area, and of a `hung` one it stays there. While the user waits for
  answers one question at most is awaited (`Turns`). TLC: 1,879,463 states.
- `ClusterInv`: the neighbours of the core points of the growing cluster are all among its seeds,
  and each seed is next to one of these points (`SeedsOK`); a cluster that is done has all
  neighbours of its core points (`DoneOK`). That its core points are connected is said without
  paths: no set that has, with a core point, the core points next to it divides a cluster
  (`Together`). In the end the core points of a cluster are such a set themselves, and so are those
  that `Connected` reaches; that `Connected` has reached all of them after as many rounds as there
  are points is proved by counting: a round that is not the last adds a point.
- `GridInv`: what is there was computed for the task. Each property is then a lemma about the
  formulas: the position of a point is strictly inside the plot because of the margin of 5 %
  (`Inside`), the cells cover it without overlap (`ClustersFit`), the circumcentre is an identity of
  polynomials, the halfedges of two triangles are in bijection with the edges they share.
- `PageInv`: the invariants of all parts together. A step is one of one part, and the others do not
  move. The state in which a part rests is one its own invariant allows; for the start of the page
  that is the view without widgets, which is always among the layouts (`RestsAssumption`).

Where a proof needs a computation over a sequence, as `filter` (`Picked`), it is a recursive
function of the position. No prover here can instantiate an induction theorem whose hypothesis is an
operator; `Upwards` in `PickingProofs` is the induction with a set instead, the positions up to
which a fact holds, and rests on `Smallest`, the least element of a set of naturals, which follows
from the well-founded order of finite sets. So what these functions return is proved for all
sequences.

### The editor and the index page

`EditorPageProofs`, for any pipelines that are opened, any number of edits, clicks and deletes,
every form, and any options and results of the inputs:

| Theorem | Says |
|---|---|
| `PageInvariant` | `Spec => []PageInv` |
| `DialogsKeepMeaning` | `Spec => []DialogsMeanThis` |
| `SavesStayWhole` | `Spec => []SavesAreWhole` |
| `InputStaysUsed` | `Spec => []InputIsUsed` |
| `OnlyTouchedChanges` | `Spec => OnlyTouchedChange` |

`PageInv` has a part for each part of the pages. `EditorInv` and `MenuInv`: the button of the dialog
has one listener, that of what is shown (`DialogOK`), because `hide` takes away the last one before
the next is added; an answer that comes late changes the dialog, never what its button does. What is
sent, and may be overwritten, is whole, because Save validates before and a dialog covers the page
until it is answered; unless Save was clicked twice, it is what the page holds. `FormsInv`: an input
shows its option until it is touched, that of the generator the generator or none if its card was
removed; after an OK every field is among the options; and what was chosen is what the options have.
`OnlyTouchedChanges` needs the first two: OK then writes back what was shown, and a form that is
cancelled is one whose options are what it was opened with. `ControlsInv`:
what is selected is selected once. `FieldFacts` goes through the fields of all forms, and shows of
each that the constructor takes every value the field offers as it is, or that it is one of the four
of `NotKept`; so these are exactly the exceptions. TLC finds `PageInv` on the instance of
`editor_page` (343,211 states).

### What is left to TLC

Every invariant and every property of steps that a run checks, and both refinements, are proved. What
is left is liveness under fairness, which needs ENABLED: `EveryRequestReturns`,
`IdleServerHoldsNoChromium`, `RunEnds`, `EveryRequestEnds`, `ServiceSettles`, `StoredIsBuilt`, `PageSettles`, `SpinnerGivesWay`. The provers have no rules for it.

## 5. Not modelled, and the plan

Not modelled, and why:

- the batch API and the demo scheduler keep no state of interest; the scheduler never runs. What
  generators compute is one step of a build;
- of the charts: what is drawn, tooltips, zoom and axes, for which there is nothing to state but the
  drawing; the clusterings that rest on D3's Delaunay triangulation or a kernel density, and
  contours, because they compute with real numbers in a library; the conversions of data, which read
  and write nothing else;
- of the view page: the date and tag filters, which are a second CheckboxSearch and two fields, the
  side panels, the static widgets' content;
- of the import of documents: indexes and row counts, which are made alone after it, the importer of
  JSON and XML, which has one thread, two applications on one database;
- of the editor: where a widget stands in the grid, titles, the preview's data, the lists a form
  offers;
- of the modelled components, what section 2 names.

Hazards beside those of PROJECT.json that no property covers: an Error of a health check in the
finally block of `withSession` skips the release of its permit; an interrupted borrower discards a
healthy session (nothing interrupts one); the scanner's query has a limit and no order, so pipelines
that can never be built may keep others out; a pipeline called `x__tmp` is the transient schema of
`x`; points with k duplicates each make the radii of the knn clustering 0 / 0; a generator that was
removed stays in the `extends` of others; Enter in the only text field of a form reloads the page.

Order of the work, the most important behaviour first:

1. *Done:* `ExportPool` with `SessionLending` and its proofs (the shared, most
   concurrent state), `PipelineBuild` (the data users see), `ExportRun` (whose
   files are whose), `PipelineCache`, `StartupImport`.
2. *Done:* the front end: `ViewWidget`, `ViewReady`, `CorpusSearch`, `ChatBot`,
   `Clustering`, `PlotGrid`, composed in `MCViewPage`; `Modal`, `Editor`, `Menu`,
   `WidgetForms`, `FormControls`, composed in `MCEditorPage`.
3. *Done:* `DocumentImport`.
4. *Done:* `ConnectionBudget`, the pool of ten under transactions that hold one
   connection and take more.
5. *Done:* proofs of every invariant that a run checks; of the action properties
   `ClosedByOwnerOnly`, `SwapForward`, `NeverLastCopy` and `OnlyTouchedChange`; of the refinements
   `LendsSessions` and `ImportsReplaceDocuments`.
6. *Left:* pure algorithms of the server, against reference definitions over bounded inputs:
   the expansion of N-templates in the build against the expansion of group ids in the
   data API, the breadth-first search of the type hierarchy.

## 6. What the code does otherwise than it says

- `startup_killed`: the scanner "retries pipelines without data at the next start",
  but its lock is a row: when the application is killed during the build, the row
  stays and no later start takes the pipeline.
- `view_range`: an untouched slider follows the page "so nothing is dropped silently
  when the user pages or exports all pages" (`pageRange.js`). Paging does not drop
  anything (`PagingDropsNothing`); Export all sends the largest value of
  the page that is shown with every page, and values above it are missing.

What the models show beside that, and the properties except:

- exports of one chart are serialised so that they do not "clobber each other's patched
  download sinks" (`ExportScripts`), but a timeout lets the next one begin while
  the late one goes on. The handler looks `downloadSingleBlob` up after it has made
  its ZIP, so the ZIP of the late export lands in the entry of the next one, which
  settles as ok with it (`ExactFiles`);
- a restore that fails after a failed rename loses the data in the finally block; a
  crash between the renames leaves the only copy under a name the next build drops first
  (`NeverLastCopy`);
- the importer updates the row of a pipeline and does not invalidate its cache entry:
  readers see the old definition until the entry expires (`OutdatedOnlyIfOvertaken`);
- a definition the importer replaced is not built again: the schema of the old one is
  there, and the file is unchanged at the next start (`StoredIsBuilt` is checked without
  replacing);
- whether a document is up to date is decided by its text, the type system and the settings:
  a file whose annotations changed over the same text is skipped, and the old
  annotations stay (`OthersAreImported` asks for the same text, not the same edition);
- an export of all pages restores the data it saw before its fetch over those of a page
  that came meanwhile; an empty page hides the chart; a map is exported before it
  is drawn (`QuietShowsCurrent`, `DrawingsAgree`);
- when a fetch fails the range's bound becomes the largest value of the page, also where
  the user had set a lower one (`pageRange.js:20`);
- of two pages under way the bound of one may be sent with the other, and the slower
  answer is drawn last: the pages are not numbered;
- a default written with `||` takes 0 and false for missing: the bounds of a Voronoi
  diagram cannot be 0, a video cannot be kept from playing, a frame's border not
  be switched off (`SetIsUsed`);
- a widget of an unknown type ends the loop of the layout: those behind it are missing,
  and the page says it is ready (`ReadyIsHonest`);
- the corpus filter adds its initial list without a look at what the user added
  meanwhile (`NoItemTwice`); a list of results that comes after the field was left can be
  clicked in vain (`SubmitsChoice`);
- the chat reads the text before it makes the picture of a chart and empties the text
  area after: what was typed in between is lost, and a question may be sent
  twice (`NothingUnsaid`);
- a picture of a chart that does not load, or cannot be drawn, leaves its question waiting with the
  spinner on for ever: the promise of `svgToBase64` is only ever resolved, at the end of `onload`
  (`convert.js:13-32`, awaited at `ChatBot.js:89`; `QuestionsAreAnswered`);
- OK of a form writes null over the options that have no field (`FormBuilder.js:39`, `parseValue`):
  the `spacing` and `threshold` of a boundary approximation, "the start values of the controls"
  (`BoundaryApproximation.js:61`), are lost as soon as its form is confirmed, whatever the user
  changed in it; and a value its field cannot show becomes one it can (`OnlyTouchedChange`).
