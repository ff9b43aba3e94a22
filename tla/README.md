# Verification of crosspoint-ko-wasm

TLA+ models, TLC runs and TLAPS proofs for the browser converter that lays out an EPUB with the
CrossPoint reader engine and exports it as an XTC/XTCH container. Paths are relative to the repository
root; `PROJECT.json` maps every definition of the models to the lines it stands for.

1. [The system](#1-the-system)
2. [The modules](#2-the-modules)
3. [The runs](#3-the-runs)
4. [The proofs](#4-the-proofs)
5. [Disagreements between comments and code](#5-disagreements-between-comments-and-code)
6. [What is abstracted and what is not modelled](#6-what-is-abstracted-and-what-is-not-modelled)
7. [Plan](#7-plan)

## 1. The system

One page (`web/app.js`) drives three kinds of Web Workers, all of which run the same script
(`web/ko.worker.js`) around their own instance of the wasm engine (`src/wasm_api.cpp` over
`src/ko_engine_driver.h`): the *preview worker*, one *export worker* and, during a pooled export, up to four
*pool members*. Page and workers exchange messages only; nothing is shared.

| Component | State it keeps | Operations | What is hard | What must hold |
| --- | --- | --- | --- | --- |
| Engine C API (`src/wasm_api.cpp`) | mounted book, live spec, section and page of the preview, writer, serial export, assembler, prefix planner, encoded spine, finished bytes | some forty exported calls | callers may ignore a -1 and go on; a book replacement meets any combination of open transactions; three transactions share writers, counters and limits | a readable file is whole spines of the mounted book in one format and one spec; its chapter table tiles it; bytes do not change under their reader |
| Container writer, chapter table (`src/xtch_writer.h`, `src/xtch_chapters.h`) | retained page records, chapter candidates | add, assemble, take, build | limits hit half-way, duplicate and unordered starts | chapters inside the file, without gap or overlap |
| Engine driver (`src/ko_engine_driver.h`) | the one section, the mounted EPUB | build, start, continue, render | exports replace the section the preview laid out | a page is rendered from the section its caller means |
| Preview worker (`web/ko.worker.js`) | notes about the section (`currentSpine`, `builtKey`, `builtFontStamp`, estimates), frame cache, timers of speculative renders, continuation of the chapter, queue of openings, face | openPreview, render, loadFont, ... | handlers interleave with continuations and timers; setters drop the section underneath the notes | cached frames and notes are true; an opening ends with a book or with none |
| Export worker (same file) | warm result and token, export lock, export in progress | warm, warmCancel, fetchWarm, exportBook, load, loadFont | a warm yields between spines while everything else may arrive | a file has one layout, one face, one book, those of the key it is saved under |
| Page: opening, reading, respawn (`web/app.js`) | book, position, controls, tokens, the file to restore | loadBook, refresh, goPage, settings, respawn | answers to superseded requests, messages without an id, a worker that dies with calls pending | a book on the page is the one the worker has, with its place, settings and face |
| Page: export pool (`web/app.js`) | published pool and its identity, export lock | exportAndDownload, ensurePool, pooledExportBook, killPool | dynamic dispatch, replies in any order, timeouts, fonts and books that change meanwhile | the file is in spine order; no engine and no lock is left behind; an export ends |
| Page: warm protocol (`web/app.js`) | warmVersion, warmSpecKey, warmKeyAtFire, exportLoaded, the face in use | scheduleWarm, fireWarm, invalidateWarm, loadExportEngine, killExportEngine, hot sync of a face | a result that arrives after the settings it was made for changed; an engine killed under a call; a face that reaches one engine and not the other | a file is saved only for the settings it was asked for; an engine believed ready has the face of the page |
| Font conversion (`web/epdfont.js`, `tools/ft_wasm.c`) | none | convert | - | - |
| Storage stub (`stubs/HalStorage.*`) | in-memory files shared by paths and handles, their byte budget, the mounted EPUB (copied, adopted or read through a window) | open, write, rename, remove, mount, clear, read | files that lose their path while open; allocators that give more than asked; a limit that moves with every book; a fetch that fails | what is charged is what is allocated; everything fits the working set; a read is true |
| Vendored reader (`vendor-lib/`) | section cache, metadata, ZIP, fonts | parsing, layout, rendering | resumable build, inflate limits | seen here as page counts and failures |
| Host program, server, scripts, tests | - | - | - | references for what the code promises |

The behaviours that are hard to test are listed, with the line where each bites and the properties that
cover it, under `hazards` in `PROJECT.json`.

## 2. The modules

### EngineTransactions: one engine and a free caller

One action is one exported call of `wasm_api.cpp`; a call refused before it touches anything is no step. The
caller is unconstrained: it may ignore failures and call anything next. Outcomes that depend on bytes (a page
that fails to render, a mount that fails, a limit of memory) are choices of the action.

| Variables | Code |
| --- | --- |
| `book`, `spec`, `face` | the mounted EPUB, `g_spec`, a registered custom face |
| `section`, `currentSpine`, `planes`, `rgba` | the driver's `section_`, `g_currentSpine`, `g_page`, `g_rgbaReady` |
| `writer`, `export`, `snapshot`, `totalPages` | `g_xtch`, the `g_export*` flags, `g_exportSpec` with `g_exportMode`, `g_totalPages` |
| `asm`, `plan`, `enc`, `out` | the assembler, the planner, the encoded spine awaiting transfer, `g_xtchOut` |

A page record remembers the book, spine, number, spec and mode it was made from, so that "the file holds what it
should" can be stated without bytes. `Calls` says which entry points the engine's caller uses. The assumption
`CallerAssumption` states what the workers ensure: the serial export and the assembler, which share
`g_totalPages`, are not used on one engine.

### SpineExport and SpinePool: the pooled export

`SpineExport` is the promise: each spine once, in any order, and the file in spine order, or no file.
`SpinePool` is the page's mechanism: presses of the button, the ping, `ensurePool` with reuse or spawning,
load / loadFont / stats of every member, pulls of the next spine, planning and assembly on the first member, and
what interferes: font commits, books opened and failing, timeouts, workers that die, the `__pool.run` hook. The page
is one thread, so an action is the stretch of a handler between two awaits. `Promise(x)` is the refinement
mapping of attempt `x`, `EachExportIsInOrder` says that every attempt implements `SpineExport`.

### PreviewSession: reading

The page and the preview worker with its engine. Operators named after the worker's handlers (`Render`, `Opens`,
`Aborts`, `TakeFace`, `More`, `Prefetch`) map the worker's state to the next one and to what is posted; the page's
actions (`PickBook`, with `TurnedAway` for a file that `validateBookInput` refuses before it is queued, `NextPage`, `PickChapter`, `TurnKnob`, `ChooseFace`, `PickFace`, `Repaint`, and the handlers of answers)
use them.

| Variables | Code |
| --- | --- |
| `book`, `blob`, `place`, `choice`, `faceLoaded`, `pushed`, `genSeen` | `book`, `currentBookBlob`, `state`, the controls, `customFontLoaded`, `lastPushedSpecKey`, `workerBookGen` |
| `opening`, `repaint`, `fontRun`, `booting` | an unanswered `loadBook`, the debounce, `runFontConvert`, `respawning` |
| `shown`, `reported`, `picked`, `left` | the canvas, an error on screen, and two pieces of history: the last book asked for (none after a file that was turned away), and how often the reader and the browser may still act |
| `inbox`, `loads` | messages not yet handled by the page; `bookLoadTail`, whose first entry is reading its file |
| `worker` | `bookGen`, `bookLoaded`, `currentSpec`, `currentSpine`, `currentPages`, `builtKey`, `builtFontStamp`, `sectionEstimates`, the continuation, the timers, `frameCache`, and of the engine the mounted book, the section and the settings in force |

A handler of the worker runs to completion unless it waits for a file, and the built-in faces are embedded, so a
request is handled in the step that sends it: what the page does between sending and handling reads no state
of the worker and commutes with the handling. Answers arrive later, in order, mixed with messages that have no
request. What can be superseded carries `live`, which the next opening or render takes away: the value the
comparison of tokens will have when the answer is handled.

### WarmExport: the export engine and the conversion ahead of time

The page and one export worker. The page is a record whose fields are the variables of `app.js`; operators named
after its functions (`ScheduleWarm`, `InvalidateWarm`, `Prepare`, `KillExportEngine`, `SyncFont`, `SendWarm`) map page, engine
and what is between them to the next state, and an action is the stretch of a handler between two awaits. The worker's handlers
(`HandleLoad`, `HandleFont`, `HandleWarm`, `HandleWarmCancel`, `HandleFetch`, `HandleExport`) are operators on its state that say
what they post.

| Variables | Code |
| --- | --- |
| `page` | `book`, the opening, the controls, `customFontAsset`, `customFontLoaded`, `warmVersion`, `warmSpecKey`, `warmKeyAtFire`, the settle timer, `exportLoaded`, the state of `runFontConvert` and of `exportAndDownload`; `want`, what the last press asked for (history) |
| `idle`, `prep`, `micro` | openings whose frame or idle callback is outstanding; `loadExportEngine` calls under way with those who await them; continuations of settled promises, which run before any other event |
| `worker` | `bookLoaded`, `customFontBytes`, `currentSpec`, the font of `g_spec`, `warmToken`, `warmRunning` and `foregroundExportRunning` with what has been converted, `warmBytes`, `bookLoadTail`, the handlers in `stopWarmBeforeMutation` |
| `inbox`, `saved`, `left` | answers the page has not handled; the file saved by the last step (history); how often reader and environment may still act |

A spine remembers the book, face, font and settings it was made from; a file is the set of these, so a file with one source
is a set of at most one element. Whatever arrives between two spines is handled there, because the worker yields there.

### EngineStorage: the memory of one engine

`HalStorage` with its shared blobs and the loads of `wasm_api.cpp` that replace what it holds. `Reserved`, `Settled`, `WithLimit`
are `reserveWritableSize`, the destructor of a blob and `setDerivedByteLimit`; `Emptied` and `FaceDropped` are the two halves of
`beginBookReplacement`; `LoadOwned`, `LoadCopy` and `LoadExternal` the ways a book comes in, `BookOpens` and `BookFails` their ends.
`Filled` and `ReadExternal` are the window over an EPUB outside the heap, byte by byte. Generated files are opened,
written anywhere, truncated, renamed over each other and removed while they are open, in any order: the reader core, which decides that
order, is not modelled. Sizes are units (256 MiB each, or in an external EPUB a part of a
window), and the limits of the loaders are constants. Sums over files and reads over windows are recursive functions, so that they can be
proved about.

## 3. The runs

States and times are for two TLC workers.

| Run | Question | Size |
| --- | --- | --- |
| `engine_serial` | settings, faces, profiles, preview and the serial export of two books, in any order: `TypeOK`, `NoPartialFile`, `NothingOfPreviousBook`, `OneSpecPerExport`, `ChaptersTileTheFile`, `FileIsStable` | 156,708 states, 31 s |
| `engine_pool` | encoding, assembling and planning, with records made elsewhere: `NoPartialFile`, `NothingOfPreviousBook`, `OneFormatPerFile`, `ChaptersTileTheFile`, `FileIsStable` | 102,122 states, 37 s |
| `pool_sequential` | exports one after another, pools kept and reused, calls failing, timing out or losing their worker: `CurrentFace`, `NoOrphanEngine`, `LockedWhileExporting`, `EveryExportEnds` | 47,441 states, 42 s |
| `pool_overlapping` | two exports that overlap while books and faces change: `SavedInSpineOrder`, the refinement `EachExportIsInOrder` | 259,668 states, 154 s |
| `preview_reading` | page turns, jumps and openings over each other, with files turned away, and failing files, builds and continuations: `PositionIsTrue`, `OneBookEverywhere`, `LastChoiceWins`, `EveryOpenEnds` | 203,054 states, 73 s |
| `preview_recovery` | a patient reader, settings, faces, two books, timers and the progressive layout, and a worker that dies at any moment: `OneBookEverywhere`, `CacheIsCurrent`, `TrackingIsTrue`, `AppliedFaceIsTrue` | 1,875,280 states, 92 s |
| `warm_export` | two books, settings and a face changed at any moment, warms, exports and openings over each other; books, faces and engines that fail: `OneSourcePerFile`, `SavedLookIsChosen`, `SavedFaceIsCurrent`, `FaceSynced`, `ExportIsAwaited`, `WaitersWillGo` | 1,880,292 states, 112 s |
| `storage` | books of every size loaded in every way over each other, generated files opened, written, renamed and removed, faces, failing fetches: `MemoryIsAccounted`, `FaceHasFile`, `ReadsAreTrue` | 133,722 states, 144 s |
| `pool_faces`, `warm_stranger`, `warm_stale`, `warm_font` | what a comment says and the code does not do (section 5) | 2 to 14 s each |

**Bounds, and why they suffice.** *Engine*: two books of two spines each, of one or two pages, with unordered, duplicate and
missing anchors; page ceilings of two or three and a candidate limit of two, so that every limit is met before,
inside and after a spine; two layouts where the run is about settings. A third spine would only repeat the
boundary between two. *Pool*: two attempts, pools of two, three spines in book 1 (so one member encodes twice), two in book 2, up to two
faces: overtaking, reuse, a stale member and a failed one need no more. Attempts are symmetric in the safety runs.
*Preview*: two chapters of one to three pages laid out one page at a time, so that a chapter can be unfinished, finished and
recrossed; two openings, so that one can be superseded; one or two messages outstanding when the reader acts, one custom
face, one death of the worker; a cache of one frame, so that eviction happens. Where speculative
renders matter two timers may be pending, because with one the reader could never act between a page and its
speculative render. *Warm*: four acts of the reader, of which two open a book and two ask for a face: enough for a change during a warm, during its
answer and during the preparation of the engine; two spines, so that something can arrive between them; two preparations at once, which is what two openings
can leave behind; one death of the engine. A spine that fails is left out of the kept run: with it the same instance has 3,049,000 states,
takes 228 s and passes as well. *Storage*: two paths, two handles, two blobs alive, writes of up to two units against a limit of three, so that a file
grows, doubles, hits the limit and is emptied by an allocation that gives more than asked; EPUBs of two units (the most that is copied), four (the most
that is adopted, and more than half of the room) and five (external only), so that each loader admits and refuses, the limit is narrowed or not, and a window of three is
full, short or straddled. `MaxOpens`, `MaxFaces`, `MaxRestarts`, `MaxInbox` and `MaxTimers` bound the environment: they delay or end what the
reader, the browser and queued work (`Continue`, `Repaint`, `SendFace`) do, and never change what a handler does.
`Hasty = FALSE` makes the reader wait until the page has settled (continuation and timers still run beneath): `preview_recovery`
uses it to afford two books, two tones and two timers. In `WarmExport` `MaxActs` and `MaxDeaths` bound reader and failures, and `MaxPreps` delays an
idle callback or a press that would start one preparation too many.

**Fairness.** `SpinePool!FairSpec`: every pending call of an attempt ends (`engine.call` arms a timer for each) and the page
continues what it can. `PreviewSession!FairSpec`: the event loops of page and worker run what is queued, the debounce and
the conversion end, a file is read or its reading fails, the continuation is called back after its yield, the
new worker boots. Nothing is assumed of the reader, and no fairness makes a call succeed.

**Deadlock** is not checked where the environment's budget is finite (pool, preview and warm): the system rests when the reader
does. It is checked for the engine and its storage, which can always be called again. That nobody waits for ever in `WarmExport` is stated by safety
properties instead: `WaitersWillGo` (who waits for a warm, waits for one that will see the request at its next yield) and `ExportIsAwaited` (whoever holds the
lock has exactly one continuation or answer to come).

Every property of a passing run has a mutated form of the code, an operator marked *Mutated form* just before the
definition it replaces, under which TLC finds the property violated.

## 4. The proofs

Eight modules hold theorems: one per model (`WarmExport` has three, for its state, for its calls and for the files it saves) and
`Recursions`, which only has lemmas. All theorems are about the same `Spec` the runs check, for every value of
the constants that satisfies the assumptions named in the modules: `EngineAssumption` and `CallerAssumption` (at
least one page ceiling, tables with an entry per book, spine and layout, and callers that keep to the order the worker keeps),
`PoolAssumption` (book 1 is among the books: one is open when the page can export), `StorageAssumption` (a book is at most what
`validateBookInput` lets through, and twice the 512 MiB of the copying loader fit the 1.25 GiB of room; books for the other loaders are of any size),
`PreviewAssumption` (there is a book to pick, each chapter has a page) and `WarmAssumption`. The number of books, spines,
attempts, engines, preparations, acts, deaths and messages is any.

| Theorem | Says | Rests on |
| --- | --- | --- |
| `TypeCorrect` | `Spec => []TypeOK` of `EngineTransactions` | itself |
| `BooksDoNotMix` | `Spec => []NothingOfPreviousBook` | `BookInv` |
| `FilesAreWhole`, `ExportsUseOneSpec`, `ChapterTablesTile` | `Spec => []NoPartialFile`, `[]OneSpecPerExport`, `[]ChaptersTileTheFile` | `FileInv` |
| `FilesHaveOneFormat`, `FilesAreStable` | `Spec => []OneFormatPerFile`, the action property `FileIsStable` | `FormatInv`, `FileInv` |
| `PoolTypeCorrect`, `SavedFilesAreOrdered`, `PoolsKeepTheFace` | `Spec => []TypeOK` of `SpinePool`, `[]SavedInSpineOrder`, `[]CurrentFace` | `PoolInv` |
| `PoolImplementsExport` | `Spec => EachExportIsInOrder`: every attempt refines `SpineExport` | `PoolInv`, `StepKind` |
| `NoEngineIsForgotten`, `TheLockIsHeld` | `Spec => [](~Overlapping => NoOrphanEngine)`, the same for `LockedWhileExporting` | `Alone`, `PoolInv` |
| `StorageTypeCorrect`, `MemoryIsExact`, `FacesKeepTheirFile` | `Spec => []TypeOK` of `EngineStorage`, `[]MemoryIsAccounted`, `[]FaceHasFile` | `StorageInv` |
| `WholeFetchesReadTrue` | `Spec => [](~Torn => ReadsAreTrue)` | `StorageInv` |
| `SessionTypeCorrect`, `BelievedFaceIsActive`, `BelievedSectionIsBuilt`, `CachedFramesAreCurrent` | `Spec => []TypeOK` of `PreviewSession`, `[]AppliedFaceIsTrue`, `[]TrackingIsTrue`, `[]CacheIsCurrent` | `SessionInv` |
| `ReaderIsWhereThePageSays` | `Spec => []PositionIsTrue` | `SessionInv`, `PositionInv` |
| `PageAndWorkerAgree`, `LateOpensAreIgnored` | `Spec => []OneBookEverywhere`, the action property `LastChoiceWins` | `SessionInv` |
| `WarmTypeCorrect`, `FilesHaveOneSource`, `WaitsAreShort` | `Spec => []TypeOK` of `WarmExport`, `[]OneSourcePerFile`, `[]WaitersWillGo` | `WarmInv` |
| `TheLockIsAnswered` | `Spec => []ExportIsAwaited` | `LockInv` |
| `ReadyEnginesHaveTheFace` | `Spec => []FaceSynced` | `FaceInv` |
| `SavedFilesHaveTheLook`, `SavedFilesHaveTheFace` | `Spec => []SavedLookIsChosen`, `[]SavedFaceIsCurrent` | `GoalInv` |

`~Overlapping` and `~Torn` are values of constants, not conditions on states. `Overlapping` allows an attempt to begin while another is
under way; then an orphaned engine and a page without its lock are real (section 5), and so the two
properties are stated, and model-checked (`pool_sequential`), without it. `Torn` allows a fetch that delivers part of a
window, which only the host's reader can do.

### Why the invariants are what they are

*Types* of `EngineTransactions` are proved in one part per group of variables, with lemmas on what the helpers return (`Records`,
`Retain`, `Chapters`, ...).

*Books.* `NothingOfPreviousBook` speaks of what an accessor can hand out now. It is not inductive: an assembly that was begun and
not finished is invisible to it but becomes a file later. `BookInv` adds that the records and the metadata of the
writer and of the assembler are those of the mounted book whenever there are any, and that the planes belong to it.

*Files.* `NoPartialFile` and the tiling speak of finished bytes; `FileInv` adds what is being collected. `SerialSound`: a healthy
export (active and not failed) holds whole spines under its snapshot, both page counters agree with the number
of records, and every chapter candidate lies below the number of pages. A failed export may hold half a spine: that is why
the invariant asks nothing of it, and why each finish needs its test of the failed flag. `AsmSound` and `PlanSound` say the
same of assembler and planner, `OutSound` of the finished bytes. That the chapters built from candidates below the total
tile the file is a lemma of its own, about `Chapters`. `FormatInv` adds that an assembly under way has one format, and `NoFileYet`:
while a transaction can still succeed there is no finished file. That is why finishing never exchanges bytes under their reader.

*Pool.* `Sound(r, f)` says what an attempt knows in each phase. While it encodes, every spine below `next` is pending at exactly
one member or has its result (`Encoding`); a result was laid out from the attempt's book with a face between the one at its
start and the one of now (`Faces`), since a face may be committed while the pool is being built. The assembly has handed over a
prefix of the spines (`Assembling`). `MembersFit` connects an attempt with its engines, which may have died, and says that the
engines of an attempt that has begun are not spawned again. `killPool` ends members of attempts that do not know it yet; `KillPoolInv` is the lemma
for it. For the refinement each step of the page is classified, for every attempt, as resting, waiting, beginning, working, storing, failing or
saving (`StepKind`), and each kind maps to a step of `SpineExport` or to a stutter. `Alone` adds, for attempts that do not overlap, that at most one is under way, that
it holds the lock, and that every engine alive belongs to it or to the published pool.

*Storage.* `StoreOK` says that the charge is the sum of what the living files are charged, that it is within the limit, and that no file is larger than its
allocation; `StoreInv` that what a path or a handle refers to is alive, without which releasing a file could take away another's charge. The sum is a
recursive function. The lemmas `TotalAdds`, `TotalOne` and `CapsSplit` say that it is additive, and every change of the store is a charge split into one file and the
others. `LoadInv` relates the budget's limit to the resident EPUB and to the copy of the caller in each phase of a load. `WindowTrue` says of the window over an
external EPUB that it holds the bytes it is described to hold; a read across windows is then a recursion whose prefix is right.

*Preview.* `WorkerOK` is about the worker alone, and each operator of the worker has a lemma that it keeps it: `Tracked` ties the engine's
section to what the worker believes of it, `FaceTrue` the believed face to the active one, `Current` a cached frame to what would be painted,
`TimersTrue` keeps the speculative renders of a closed book away from the cache of the next. `SessionInv` adds the messages: openings queue in the order of their generations,
an answer that is still `live` speaks of the newest one, and a page that holds a book which the worker does not have will hear of it. A file that is turned away is answered ahead of the queue: all openings queued then are
superseded, and one of them may still complete. So for a page without a book the invariant asks for an empty worker only when the last file was not turned away, and
otherwise for a worker that holds one book whole or none.

*Position.* `PositionIsTrue` speaks of the moment when nothing is on its way. `PositionInv` says what leads there. The newest live answer in the inbox, if it is a good one,
puts the reader in the worker's chapter, on a page the worker has, with the frame of that page (`Within`). Every `progress` and `sectionError` behind it is
about that chapter and promises no more pages than the worker has (`Truly`), and together they end where the worker is (`Ends`): nothing
is posted and the answer already knew everything, or the last `progress` is exact, or the chapter was lost and an error will be on screen. When no such
answer is left the same holds of the page itself (`PlaceTrue`). Posts ahead of the answer do not matter: it overwrites
what they did. While a replacement of the book is queued nothing is claimed, because its answer is still to come, and nothing after a file that was turned away, because the page has no book.
Besides the lemmas of the handlers (`Replied`: what each answer of `render` carries; `Grown`: what a turn of the continuation posts) the invariant needs that
the section in the engine never has more pages than its chapter (`SectionTrue`).

*Warm.* `Sound` is about the export engine: a conversion under way has spines of one source, and it is the source of the next one (`RunSound`);
who waits, waits for a warm whose token has passed (`Stops`); while an export lays out spines nothing else runs or waits (`Alone`); an export that waits is the
last to wait (`InTurn`). Without the last two a face could be taken between two spines of one file. `Calm` is `Sound` when nobody
is about to go on: what the page sends is handled only then. `WarmInv` adds the page: its types, that continuations of settled promises run before any other event, and which openings
and preparations are under way.

*Calls.* A press of the button that goes on later is in one of four places: among the waiters of a preparation, among the continuations, as the answer to
its export or fetch, or as the job of the engine. `ExportIsAwaited` says that a held lock is in exactly one of them. `LockInv` adds to `WarmInv` that whoever waits for a
preparation waits for one under way (`Rooms`), that with the lock free none of the places holds a press, and that an engine which is dead has no job. Each helper of the page and each handler of the worker
has a lemma that says what it does to the places. The hard one is `killExportEngine`, which moves all waiters to the continuations at once: what is at a position of their
concatenation (`FlattenSeq`) is at exactly one position of one of them.

*Face.* `FaceSynced` speaks of an engine the page believes ready; whether it stays true depends on calls that are still under way. `FaceInv` adds to
`LockInv`: each call of `load` and `loadFont` is asked or answered, at most once, and only in the step of the preparation or conversion that made it
(`Calls`); only an engine that is alive answers (`Live`); a conversion that waits for the engine waits once (`Asker`); and `Owns`: from the call of a `loadFont` on, no
`loadFont` that waits behind it carries an older face, and once it is answered with success the engine has the face of the page (`Up`, `Has`), unless a conversion still waits for that preparation and
will send its face afterwards (`Due`). `Carries` is what all steps of the worker do to these calls; the only steps that do more are those that send or read one.

*Goals.* `SavedLookIsChosen` and `SavedFaceIsCurrent` compare a saved file with a press that may have been answered with bytes made long before. `GoalInv` adds to
`FaceInv` what links the two. A goal is a look and, where strict, a face. The goal of the page (`Goal`) is what is on the screen, strict when the custom font is
chosen and no conversion of a face is due or under way; that of an export (`Wish`) is what it was asked for with, strict when it asked for the custom face
calmly and its engine was ready.

* `OnCourse` ties the engine to two goals. Tokens of warms are never above the page's version. A warm of the present version, waiting, under way or ended,
  makes the first (`WarmAs`); an export makes the second (`JobAs`). While the page remembers a key, or the answer that will make it do so is in its inbox, the bytes of
  the engine are of the first and no warm of an earlier version can replace them (`Fresh`). The lemmas of the worker hold for any two goals; the first changes only with
  the version (`InvalidateCourse`), the second only while no export is in the engine (`NewWish`).
* An engine reads its face when a conversion begins, not when it is asked. `Waited` says of whoever waits for a preparation and wants the
  face that no older face comes after the call it waits for (`Up`), and of whoever is about to go on after a success that the engine is `Able`: it has the face, or it has no book
  and will convert nothing before it is prepared again. `Exports` says that an engine with a strict export has the face.
* `Follows`: settings in the custom font draw with the custom face while a book is open. An upload selects the face, a load of a book reselects it, and
  settings that change reselect theirs.
* `Wished`: while a press waits or its engine converts, what it was asked for with is still on the screen, and no conversion has become due if none was: a change
  is refused while the lock is held.

A step then either leaves all of that (`Rides`, for the steps of the worker and the small ones of the page), or starts a new version, for which no warm has a goal yet
(`InvalidateRight`), or loosens the goal, because a face is on its way (`LoosenRight`), or ends the engine and everybody who waits for it (`KillRight`).

### Recursion and induction

The library's induction theorems take an operator as parameter. `Recursions` proves induction for sets instead (a set
that holds 0 and each successor holds every natural, from the well-foundedness of `<`) and, with it, that the functions recursive definitions
describe exist. The sum over the files, the reads over windows and the concatenation of what continuations post are reasoned about with these.

### Only model-checked

Every safety invariant and action property that a passing run checks is the subject of a theorem. Left to TLC are the liveness properties `EveryOpenEnds` and
`EveryExportEnds`, because the prover treats neither fairness nor `ENABLED`, and the four violations of section 5.

## 5. Disagreements between comments and code

Each is a run whose single property states the comment and is violated; the quotations are in `PROJECT.json`.

* `pool_faces` / `OneFacePerFile` - the face is read after `await engine.call('load')` and `killPool` does not reach a pool that is still
  being built: a face committed then gives the members of one pool different faces.
* `warm_stranger` / `SavedBookIsOpen` - `prepExport` runs from an idle callback and does not look whether its opening is still the
  newest: the engine `killExportEngine` would have ended is spawned afterwards, with the earlier book.
* `warm_font` / `SavedFontIsChosen` - loading a face selects it in the engine, but `currentSpec` keeps the spec before it; a
  request with that spec is then skipped as unchanged. `SavedFaceIsCurrent` therefore speaks of files asked for in
  the custom face only; that a file asked for in KoPub is in KoPub is what this run refutes.
* `warm_stale` / `SavedFaceIsOwned` - the press awaits the preparation of the engine and swallows its failure: when the `loadFont` of that
  preparation was refused because another one brings its book, the export goes on with the face the engine had before. `SavedFaceIsCurrent` says
  what remains true: when the engine was ready or its preparation succeeded (`want.ready`), every spine is in the face the page owned.

Seen while modelling, in the models, and without a run of their own:

* The same cause in the preview: a converted face is painted while `readSpec` still says `kopub` (app.js:980-982, 1590), and KoPub chosen afterwards sends
  no spec.
* When an opening fails the page clears its book, because "the worker destroyed the previous book when this replacement began" (app.js:1213-1215; ko.worker.js:1390-1393
  wants the two never to disagree). A file that is empty or larger than 2 GiB - 1 is refused before any replacement begins (ko.worker.js:1606, 2387-2395): the worker keeps the
  book it had, or finishes opening one that was queued and is superseded, while the page has none. `OneBookEverywhere` says what remains true. Nothing of it is
  seen: a page without a book asks the worker for none, and the next opening replaces it.
* A book dropped on the page while the pool is being built does not end the export (app.js:1062), which saves the old book under the new name;
  and two presses within one ping build two pools, one of which is never ended (app.js:2141-2171).
* A cache hit after a rebuild leaves the `render` handler before the continuation is started (ko.worker.js:1809): the chapter keeps its first
  page and Next does nothing.
* A warm can be missed. A setting changed and changed back while the engine is being prepared finds its key under way (app.js:1456), and the result is
  dropped as out of date (1469). `stopWarmBeforeMutation` raises the worker's token above the page's version, so that the next warm is answered
  `superseded`, although ko.worker.js:2039-2040 expects the application to fire again. This costs time, never a wrong file.
* A reader of an external EPUB that delivers part of a window and then fails leaves the window's description over bytes it no longer describes
  (HalStorage.h:150-178). The browser's reader is all or nothing; the host's reader (src/host_main.cpp:202-211) can do it when the file is
  truncated while mounted. `EngineStorage` with `Torn = TRUE` violates `ReadsAreTrue`.

## 6. What is abstracted and what is not modelled

* *Engine*: bytes of pages and of the container, text, fonts and layout appear as page counts, anchors and
  outcomes. Queries, probes and statistics are left out. Which face a record was drawn with is not kept.
* *SpinePool*: the warm fast path is `NoPoolNeeded`, the serial path `SerialInstead`; the export engine is not present;
  an engine whose attempt ended does not go on pulling spines; superseded openings and the respawn of the preview worker belong
  to `PreviewSession`.
* *PreviewSession*: output mode and the pixel-only options are one setting (`Tones`); settings that move page breaks are another
  (`Layouts`). A turn of the continuation lays out exactly `Chunk` pages. Only the estimate of the chapter on screen is kept: the
  others are overwritten before they are read. The cover view, the fallback to the older `load` command, chapter labels, a worker
  that dies while it boots and faces that are fetched on demand are left out. When no book was committed, a restarted session opens
  any book, a file that is turned away, or none, for the file the picker may still hold. The check of the file before the queue is the action `TurnedAway`; its other outcome, that
  the file passes, is `Open`.
* *WarmExport*: a request is handled in the step that sends it, since the worker reads nothing of the page. Timers and idle callbacks may run in any order.
  The pool is one step, and whether it is used is a choice; the branch in which a pool declines is not reachable from the button (it asks for at
  least two engines). The death of the preview engine belongs to `PreviewSession`, overlapping presses to `SpinePool`. A face is a number; the
  built-in one never waits. Preparing from the file picker when the page holds no blob is left out.
* *EngineStorage*: file contents other than the external EPUB's, directories, and the mark of a validated ZIP directory are left out. Handles are those of the open
  book. Files of faces are not charged to the budget, as in the code. A file that was removed while open is charged but not
  in `totalBytes`, as in the code. The streamed load, which the page does not use, is not modelled.
* *Not modelled*: the byte layout of the container, font conversion and presentation (no protocol state), the vendored reader, the
  ZIP reader and the third-party libraries (seen through their outcomes: page counts, failures), host program, server, scripts and tests (not part of the running
  system). Most lines of the repository are generated fonts, hyphenation tables and these libraries: the models cover the program's own
  engine API, storage, worker and page, and a small share of all lines.

## 7. Plan

Done: `EngineTransactions`, `SpineExport` and `SpinePool`, `PreviewSession`, `WarmExport` and `EngineStorage` are checked; what section 4 lists is proved.

Left:

* The page table and the 32-bit offsets of the container, and the resumable section build of the reader core, as modules beneath
  `EngineTransactions`.
