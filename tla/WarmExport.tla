------------------------------ MODULE WarmExport ------------------------------
(***************************************************************************)
(* The export engine and the speculative conversion: the page's side       *)
(* (web/app.js: scheduleWarm, fireWarm, invalidateWarm, loadExportEngine,  *)
(* killExportEngine, the hot sync of a converted face, exportAndDownload   *)
(* without its pool) and the worker's (web/ko.worker.js: load, loadFont,   *)
(* warm, warmCancel, fetchWarm, exportBook, stopWarmBeforeMutation).       *)
(*                                                                         *)
(* The worker yields between the spines of a conversion, and what arrives  *)
(* then is handled at once.  It reads nothing of the page, so a request is *)
(* handled in the step that sends it; answers come back later, in order.   *)
(* Continuations of a settled promise run before any other event: micro on *)
(* the page, woken in the worker.  Built-in faces are embedded, so         *)
(* applying settings never waits.                                          *)
(***************************************************************************)
EXTENDS Integers, SequencesExt

CONSTANTS
  Spines,      \* number of spines of every book
  Looks,       \* the settings that change the file, the face aside
  Failing,     \* what may fail: "open", "load", "face", "spine", "engine"
  Pool,        \* may an export be served by the pool, may it not?
  MaxActs,     \* how often the reader acts in all
  MaxOpens,    \* how often of these a book is opened
  MaxFaces,    \* and how often a face is asked for
  MaxDeaths,   \* how often the export engine dies or times out
  MaxPreps     \* preparations of the export engine under way at once

ASSUME WarmAssumption ==
  /\ Spines \in Nat \ {0} /\ Looks # {} /\ Pool \subseteq BOOLEAN /\ Pool # {}
  /\ Failing \subseteq {"open", "load", "face", "spine", "engine"}
  /\ {MaxActs, MaxOpens, MaxFaces, MaxDeaths, MaxPreps} \subseteq Nat

VARIABLES
  page,    \* the book, the controls, the face, the warm protocol, the export
  idle,    \* books whose first frame or whose idle callback is outstanding
  prep,    \* loadExportEngine calls under way and who awaits them
  micro,   \* continuations of the page that run before anything else
  worker,  \* the export worker and its engine
  inbox,   \* answers of the worker the page has not handled
  saved,   \* the file that the last step saved, if it did (history)
  left     \* how often the reader may still act and the engine still die

vars == <<page, idle, prep, micro, worker, inbox, saved, left>>

-----------------------------------------------------------------------------
Books == 1 .. MaxOpens        \* openings are numbered: a book is its bookEpoch
Faces == 0 .. MaxFaces
Preps == 1 .. MaxPreps
None == 0
Ready == -1                   \* exportLoaded, resolved
Settings == [font : {"kopub", "custom"}, look : Looks]
Default == [font |-> "kopub", look |-> CHOOSE l \in Looks : TRUE]
NoSpec == [Default EXCEPT !.font = "none"]
Keys == [book : {None} \cup Books, spec : Settings \cup {NoSpec}, sig : Faces]
NoKey == [book |-> None, spec |-> NoSpec, sig |-> 0]

\* What a spine of a file was made from.
Sources == [book : Books, font : {"kopub", "custom"}, face : Faces, look : Looks]
NoFile == {}

NoRun == [on |-> FALSE, tok |-> 0, key |-> NoKey, snap |-> Default, done |-> 0, made |-> NoFile]
NoWorker ==
  [alive |-> FALSE,
   book |-> None,             \* the mounted book, when bookLoaded
   custom |-> 0,              \* customFontBytes
   spec |-> NoSpec,           \* currentSpec
   font |-> "kopub",          \* g_spec.fontId
   token |-> 0,               \* warmToken
   warm |-> NoRun,            \* a warm under way: on is warmRunning
   job |-> NoRun,             \* an exportBook under way: on is foregroundExportRunning
   bytes |-> NoFile,          \* warmBytes
   loads |-> << >>,           \* bookLoadTail: the first is being handled
   waiting |-> << >>,         \* handlers in stopWarmBeforeMutation
   woken |-> << >>]           \* those of them whose await has ended
NoPrep == [step |-> "off", book |-> None, waiters |-> << >>]
NoWant == [book |-> None, spec |-> Default, face |-> 0, calm |-> FALSE, ready |-> FALSE]
NoSave == [made |-> NoFile, title |-> None, want |-> NoWant]

Init ==
  /\ page = [book |-> None, opening |-> None, choice |-> Default,
             sig |-> 0, convert |-> FALSE, fontRun |-> "idle", faceFor |-> 0,
             face |-> 0, faceLoaded |-> FALSE,
             settle |-> FALSE, version |-> 0, warmKey |-> NoKey, firing |-> NoKey,
             loaded |-> None, press |-> "no", want |-> NoWant]
  /\ idle = [frame |-> {}, prep |-> {}]
  /\ prep = [i \in Preps |-> NoPrep]
  /\ micro = << >> /\ worker = NoWorker /\ inbox = << >>
  /\ saved = NoSave
  /\ left = [acts |-> MaxActs, opens |-> MaxOpens, deaths |-> MaxDeaths]

Outcome(what) == IF what \in Failing THEN BOOLEAN ELSE {TRUE}

-----------------------------------------------------------------------------
(***************************************************************************)
(* The worker: what a handler makes of its state w, and what it posts.     *)
(***************************************************************************)
Says(w, m) == [w |-> w, out |-> <<m>>]
Quietly(w) == [w |-> w, out |-> << >>]

LoadReply(i, ok) == [re |-> "load", id |-> i, ok |-> ok]
FontReply(i, ok) == [re |-> "loadFont", id |-> i, ok |-> ok]   \* id 0: the hot sync
WarmReply(m, res) == [re |-> "warm", tok |-> m.tok, key |-> m.key, res |-> res]
FileReply(made) == [re |-> "file", made |-> made]   \* NoFile: refused or failed

\* BOOK_REPLACING: only loads are accepted while a load is under way.
Replacing(w) == w.loads # << >>

\* applySpecIfChanged can apply spec: a custom face must have been given to this engine.
CanApply(w, spec) == w.spec = spec \/ spec.font = "kopub" \/ w.custom # 0

\* Mutated form: what the engine is believed to have is sent with the wrong look.
Applied_FontOnly(w, spec) ==
  IF w.spec.font = spec.font THEN w ELSE [w EXCEPT !.spec = spec, !.font = spec.font]

\* Mutated form: a face that was not there before is not sent.
Applied_LookOnly(w, spec) ==
  IF w.spec.look = spec.look THEN w ELSE [w EXCEPT !.spec = spec, !.font = spec.font]

\* applySpecIfChanged: settings believed in force are not sent again.
Applied(w, spec) == IF w.spec = spec THEN w ELSE [w EXCEPT !.spec = spec, !.font = spec.font]

\* ko_export_begin: the run keeps the settings of the engine.
Run(w, m) == [NoRun EXCEPT !.on = TRUE, !.tok = m.tok, !.key = m.key,
                           !.snap = [font |-> w.font, look |-> w.spec.look]]

\* ko_export_spine: what the next spine is made from.
Source(w, snap) ==
  [book |-> w.book, font |-> snap.font, look |-> snap.look,
   face |-> IF snap.font = "custom" THEN w.custom ELSE 0]
NextSpine(w, run) == [run EXCEPT !.done = @ + 1, !.made = @ \cup {Source(w, run.snap)}]

\* Mutated form: the warm ends without resolving warmDone.
EndWarm_Silent(w) == [w EXCEPT !.warm = NoRun]

\* endWarm: those who wait for the warm go on.
EndWarm(w) == [w EXCEPT !.warm = NoRun, !.woken = w.waiting, !.waiting = << >>]

\* stopWarmBeforeMutation, while a warm is running.
Wait(w, handler) == [w EXCEPT !.token = @ + 1, !.waiting = Append(@, handler)]

\* load: the book goes before the new one is read.
BeginLoad(w) == [w EXCEPT !.bytes = NoFile, !.book = None]
StartLoad(w) == IF w.warm.on THEN Wait(w, [cmd |-> "load"]) ELSE BeginLoad(w)

\* Mutated form: a load does not wait for the warm.
HandleLoad_NoStop(w, i, b) ==
  IF w.job.on THEN Says(w, LoadReply(i, FALSE))
  ELSE LET q == [w EXCEPT !.loads = Append(@, [prep |-> i, book |-> b])]
       IN  Quietly(IF Replacing(w) THEN q ELSE BeginLoad(q))

HandleLoad(w, i, b) ==
  IF w.job.on THEN Says(w, LoadReply(i, FALSE))
  ELSE LET q == [w EXCEPT !.loads = Append(@, [prep |-> i, book |-> b])]
       IN  Quietly(IF Replacing(w) THEN q ELSE StartLoad(q))

\* The book at the head of the queue has been read, or could not be.
LoadEnds(w, ok) ==
  LET l == Head(w.loads)
      read == [w EXCEPT !.loads = Tail(@), !.book = IF ok THEN l.book ELSE None,
                        !.font = IF ok /\ w.spec.font = "custom" THEN "custom" ELSE "kopub"]
  IN  Says(IF Replacing(read) THEN BeginLoad(read) ELSE read, LoadReply(l.prep, ok))

\* loadFont: the face the engine accepts is in force at once, whatever the settings say.
TakeFont(w, i, f, ok) ==
  Says(IF ok THEN [w EXCEPT !.custom = f, !.font = "custom"] ELSE w, FontReply(i, ok))

\* Mutated form: a face is taken in the middle of a conversion.
HandleFont_NoStop(w, i, f, ok) ==
  IF Replacing(w) THEN Says(w, FontReply(i, FALSE)) ELSE TakeFont(w, i, f, ok)

HandleFont(w, i, f, ok) ==
  IF Replacing(w) \/ w.job.on THEN Says(w, FontReply(i, FALSE))
  ELSE IF w.warm.on THEN Quietly(Wait(w, [cmd |-> "loadFont", id |-> i, face |-> f]))
  ELSE TakeFont(w, i, f, ok)

\* warm, up to the yield after its first spine.
HandleWarm(w, m, ok) ==
  LET taken == [w EXCEPT !.token = m.tok]
      a == Applied([taken EXCEPT !.bytes = NoFile], m.spec)
  IN  IF Replacing(w) \/ w.book = None THEN Says(w, WarmReply(m, "error"))
      ELSE IF m.tok < w.token THEN Says(w, WarmReply(m, "superseded"))
      ELSE IF w.warm.on THEN Says(taken, WarmReply(m, "busy"))
      ELSE IF ~CanApply(w, m.spec) THEN Says([taken EXCEPT !.bytes = NoFile], WarmReply(m, "error"))
      ELSE IF w.job.on \/ ~ok THEN Says(a, WarmReply(m, "error"))
      ELSE Quietly([a EXCEPT !.warm = NextSpine(a, Run(a, m))])

HandleWarmCancel(w) ==
  IF Replacing(w) THEN w ELSE [w EXCEPT !.token = @ + 1, !.bytes = NoFile]

HandleFetch(w) ==
  IF Replacing(w) THEN Says(w, FileReply(NoFile))
  ELSE Says([w EXCEPT !.bytes = NoFile], FileReply(w.bytes))

\* exportBook once no warm is running, up to the yield after its first spine.
ExportFails(w) == Says([w EXCEPT !.job = NoRun], FileReply(NoFile))
BeginExport(w, spec, ok) ==
  LET a == Applied(w, spec)
  IN  IF ~CanApply(w, spec) THEN ExportFails(w)
      ELSE IF ~ok THEN ExportFails(a)
      ELSE Quietly([a EXCEPT !.job = NextSpine(a, Run(a, NoRun))])

HandleExport(w, spec, ok) ==
  IF Replacing(w) \/ w.book = None \/ w.job.on THEN Says(w, FileReply(NoFile))
  ELSE IF w.warm.on
       THEN Quietly([Wait(w, [cmd |-> "exportBook", spec |-> spec])
                       EXCEPT !.job = [NoRun EXCEPT !.on = TRUE]])
       ELSE BeginExport(w, spec, ok)

\* A handler that waited for the warm goes on.
Resume(w, h, ok) ==
  LET d == [w EXCEPT !.bytes = NoFile]
  IN  CASE h.cmd = "load" -> Quietly(BeginLoad(d))
        [] h.cmd = "loadFont" -> TakeFont(d, h.id, h.face, ok)
        [] h.cmd = "exportBook" -> BeginExport(d, h.spec, ok)

\* exportWholeBook for a warm, from one yield to the next.
WarmGoesOn(w, ok) ==
  IF w.warm.tok < w.token THEN Says(EndWarm(w), WarmReply(w.warm, "superseded"))
  ELSE IF w.warm.done < Spines
  THEN IF ok THEN Quietly([w EXCEPT !.warm = NextSpine(w, w.warm)])
             ELSE Says(EndWarm(w), WarmReply(w.warm, "error"))
  ELSE Says(EndWarm([w EXCEPT !.bytes = w.warm.made]), WarmReply(w.warm, "ready"))

\* exportWholeBook for exportBook: nothing cancels it.
ExportGoesOn(w, ok) ==
  IF w.job.done = Spines THEN Says([w EXCEPT !.job = NoRun], FileReply(w.job.made))
  ELSE IF ok THEN Quietly([w EXCEPT !.job = NextSpine(w, w.job)])
  ELSE ExportFails(w)

-----------------------------------------------------------------------------
(***************************************************************************)
(* The page: what a stretch of its code makes of s, the state of the page, *)
(* of its export engine and of what is between them.                       *)
(***************************************************************************)
Now == [page |-> page, prep |-> prep, micro |-> micro, worker |-> worker, inbox |-> inbox]
Turns(s) ==
  /\ page' = s.page /\ prep' = s.prep /\ micro' = s.micro
  /\ worker' = s.worker /\ inbox' = s.inbox
Becomes(s) == Turns(s) /\ saved' = NoSave

Exporting(p) == p.press \notin {"no", "ping"}
Converting(p) == p.fontRun # "idle"

\* readSpec: a custom face is asked for only when one was applied.
Chosen(p) == IF p.choice.font = "custom" /\ ~p.faceLoaded
           THEN [p.choice EXCEPT !.font = "kopub"] ELSE p.choice
\* outputKey, of the open book
Key(p) == [book |-> p.book, spec |-> Chosen(p),
           sig |-> IF Chosen(p).font = "custom" THEN p.sig ELSE 0]

\* exportCall: the engine is spawned when there is none.
Engine(s) == IF s.worker.alive THEN s.worker ELSE [NoWorker EXCEPT !.alive = TRUE]
Call(s, r) == [s EXCEPT !.worker = r.w, !.inbox = @ \o r.out]

ScheduleWarm(s) ==
  IF s.page.book = None \/ Exporting(s.page) \/ s.page.warmKey = Key(s.page) THEN s
  ELSE [s EXCEPT !.page.settle = TRUE]

InvalidateWarm(s) ==
  LET t == [s EXCEPT !.page.version = @ + 1, !.page.warmKey = NoKey]
  IN  IF s.worker.alive THEN [t EXCEPT !.worker = HandleWarmCancel(@)] ELSE t

\* loadExportEngine
FreePreps(s) == {i \in Preps : s.prep[i].step = "off"}
Prepare(s, b) ==
  LET i == CHOOSE j \in FreePreps(s) : \A k \in FreePreps(s) : j <= k
  IN  Call([s EXCEPT !.page.loaded = i, !.prep[i] = [step |-> "load", book |-> b, waiters |-> << >>]],
           HandleLoad(Engine(s), i, b))

\* await exportLoaded, while it is pending: k goes on when it settles.
AwaitEngine(s, k) == [s EXCEPT !.prep[s.page.loaded].waiters = Append(@, k)]
Continued(waiters, ok) == [n \in DOMAIN waiters |-> [go |-> waiters[n], ok |-> ok]]

\* exportLoaded is rejected: whichever it was, the page has none now.
PrepFails(s, i) ==
  [s EXCEPT !.prep[i] = NoPrep, !.page.loaded = None,
            !.micro = @ \o Continued(s.prep[i].waiters, FALSE)]
PrepSucceeds(s, i) ==
  [s EXCEPT !.prep[i] = NoPrep, !.page.loaded = IF @ = i THEN Ready ELSE @,
            !.micro = @ \o Continued(s.prep[i].waiters, TRUE)]

Unlock(s) == [s EXCEPT !.page.press = "no", !.page.want = NoWant]

WarmEnds(s) == [s EXCEPT !.page.firing = NoKey]

\* Mutated form: calls that are pending when the engine is killed are forgotten.
KillExportEngine_Forget(s) ==
  [s EXCEPT !.worker = NoWorker, !.inbox = << >>, !.prep = [i \in Preps |-> NoPrep],
            !.page.loaded = None, !.page.warmKey = NoKey]

\* killExportEngine, with the handlers of the calls it rejects.
KillExportEngine(s) ==
  LET syncing == IF s.page.fontRun = "sync" THEN << <<[who |-> "font"]>> >> ELSE << >>
      waiting == syncing \o [i \in Preps |-> s.prep[i].waiters]
      dead == [s EXCEPT !.worker = NoWorker, !.inbox = << >>, !.prep = [i \in Preps |-> NoPrep],
                        !.page.loaded = None, !.page.warmKey = NoKey,
                        !.page.fontRun = IF @ = "sync" THEN "waiting" ELSE @,
                        !.micro = @ \o Continued(FlattenSeq(waiting), FALSE)]
      warmed == IF s.worker.warm.on \/ \E n \in DOMAIN s.inbox : s.inbox[n].re = "warm"
                THEN WarmEnds(ScheduleWarm(dead)) ELSE dead
  IN  IF s.page.press \in {"serial", "fetch"} THEN Unlock(warmed) ELSE warmed

\* fireWarm, once the engine is ready
SendWarm(s, k, ok) ==
  Call(s, HandleWarm(Engine(s), [tok |-> k.tok, key |-> k.key, spec |-> Chosen(s.page)], ok))
\* applyCustomFont, after the hot sync
Painting(s) == [s EXCEPT !.page.fontRun = "painting", !.page.choice.font = "custom"]
SyncFont(s, ok) ==
  Call([s EXCEPT !.page.fontRun = "sync"], HandleFont(Engine(s), 0, s.page.face, ok))

\* Mutated form: an engine whose face is unknown is kept.
SyncFails_Keep(s) == Painting(s)

SyncFails(s) == Painting(KillExportEngine([s EXCEPT !.page.fontRun = "waiting"]))

\* Whether the engine was ready belongs to what was asked for (history).
Awaited(s, ok) == [s EXCEPT !.page.want.ready = ok]

\* exportAndDownload, once the engine is ready or is known not to be
Convert(s, pool, ok) ==
  IF pool THEN [KillExportEngine(s) EXCEPT !.page.press = "pool"]
  ELSE Call([s EXCEPT !.page.press = "serial"], HandleExport(Engine(s), Chosen(s.page), ok))

-----------------------------------------------------------------------------
\* What the page does on an event: nothing else of it is running.
Idle == micro = << >> /\ worker.woken = << >>
Acts == Idle /\ left.acts > 0

\* loadBook, up to the answer of the preview engine
OpenBook ==
  /\ Acts /\ left.opens > 0
  /\ left' = [left EXCEPT !.acts = @ - 1, !.opens = @ - 1]
  /\ Becomes([KillExportEngine(InvalidateWarm(Now))
                EXCEPT !.page.opening = 1 + MaxOpens - left.opens])
  /\ UNCHANGED idle

\* loadBook: the preview engine has the book and its first page.
BookOpened ==
  /\ Idle /\ page.opening # None
  /\ Becomes(InvalidateWarm([Now EXCEPT !.page.book = page.opening, !.page.opening = None]))
  /\ idle' = [idle EXCEPT !.frame = @ \cup {page.opening}]
  /\ UNCHANGED left

\* clearLoadedBookAfterFailedOpen
BookFails ==
  /\ Idle /\ page.opening # None /\ "open" \in Failing
  /\ Becomes(KillExportEngine([Now EXCEPT !.page.book = None, !.page.opening = None]))
  /\ UNCHANGED <<idle, left>>

\* loadBook goes on after the frame: it does not look whether another book was chosen since.
FrameShown(b) ==
  /\ Idle /\ b \in idle.frame
  /\ idle' = [frame |-> idle.frame \ {b}, prep |-> idle.prep \cup {b}]
  /\ Becomes(ScheduleWarm(Now))
  /\ UNCHANGED left

\* prepExport, the idle callback
IdlePrep(b) ==
  /\ Idle /\ b \in idle.prep /\ FreePreps(Now) # {}
  /\ idle' = [idle EXCEPT !.prep = @ \ {b}]
  /\ Becomes(Prepare(Now, b))
  /\ UNCHANGED left

-----------------------------------------------------------------------------
\* The controls are disabled during an export.
UseKnob == Acts /\ ~Exporting(page) /\ left' = [left EXCEPT !.acts = @ - 1]

\* A control of the page that changes the file.
ChangeLook(l) ==
  /\ UseKnob /\ l # page.choice.look
  /\ Becomes(ScheduleWarm(InvalidateWarm([Now EXCEPT !.page.choice.look = l])))
  /\ UNCHANGED idle

\* The font segment: without a converted face the custom one is only announced.
ChooseFont(f) ==
  /\ UseKnob /\ f # page.choice.font
  /\ LET s == [Now EXCEPT !.page.choice.font = f,
                          !.page.convert = @ \/ (f = "custom" /\ page.faceLoaded /\ page.face # page.sig)]
     IN Becomes(IF f = "kopub" \/ page.faceLoaded THEN ScheduleWarm(InvalidateWarm(s)) ELSE s)
  /\ UNCHANGED idle

\* A font file is chosen or a font slider is moved.
TurnFontKnob ==
  /\ UseKnob /\ page.sig < MaxFaces
  /\ Becomes(InvalidateWarm([Now EXCEPT !.page.sig = @ + 1, !.page.convert = TRUE,
                                        !.page.choice.font = "custom"]))
  /\ UNCHANGED idle

\* runFontConvert, when no conversion is under way (else it waits its turn)
ConvertStarts ==
  /\ Idle /\ page.convert /\ ~Converting(page)
  /\ LET s == [Now EXCEPT !.page.convert = FALSE]
     IN Becomes(IF page.choice.font # "custom" \/ page.sig = page.face THEN s
                ELSE [s EXCEPT !.page.fontRun = "converting", !.page.faceFor = page.sig])
  /\ UNCHANGED <<idle, left>>

FontConverted(ok) ==
  /\ Idle /\ page.fontRun = "converting"
  /\ Becomes(IF ok /\ page.sig = page.faceFor THEN [Now EXCEPT !.page.fontRun = "preview"]
             ELSE [Now EXCEPT !.page.fontRun = "idle", !.page.faceFor = 0, !.page.convert = @ \/ ok])
  /\ UNCHANGED <<idle, left>>

\* applyCustomFont: the preview engine has answered.
FaceAccepted(ok, sync) ==
  /\ Idle /\ page.fontRun = "preview"
  /\ LET s == [Now EXCEPT !.page.face = page.faceFor, !.page.faceFor = 0]
     IN Becomes(CASE ~ok -> [Now EXCEPT !.page.fontRun = "idle", !.page.faceFor = 0]
                  [] ok /\ page.loaded = None -> Painting(s)
                  [] ok /\ page.loaded = Ready -> SyncFont(s, sync)
                  [] OTHER -> AwaitEngine([s EXCEPT !.page.fontRun = "waiting"], [who |-> "font"]))
  /\ UNCHANGED <<idle, left>>

\* The preview shows the face: the end of applyCustomFont and of runFontConvert.
FacePainted ==
  /\ Idle /\ page.fontRun = "painting"
  /\ Becomes(ScheduleWarm(InvalidateWarm(
       [Now EXCEPT !.page.fontRun = "idle", !.page.faceLoaded = TRUE])))
  /\ UNCHANGED <<idle, left>>

-----------------------------------------------------------------------------
\* fireWarm, when the settings have settled
FireWarm(ok) ==
  /\ Idle /\ page.settle
  /\ LET s == [Now EXCEPT !.page.settle = FALSE]
         k == [who |-> "warm", key |-> Key(page), tok |-> page.version]
         fired == [s EXCEPT !.page.firing = k.key]
     IN Becomes(CASE \/ page.book = None \/ Exporting(page)
                     \/ k.key \in {page.warmKey, page.firing} -> s
                  [] OTHER -> CASE page.loaded = None -> WarmEnds(fired)
                                [] page.loaded = Ready -> SendWarm(fired, k, ok)
                                [] OTHER -> AwaitEngine(fired, k))
  /\ UNCHANGED <<idle, left>>

\* exportAndDownload, up to the ping
Press ==
  /\ Acts /\ page.book # None /\ page.press = "no"
  /\ left' = [left EXCEPT !.acts = @ - 1]
  /\ page' = [page EXCEPT !.press = "ping"]
  /\ saved' = NoSave
  /\ UNCHANGED <<idle, prep, micro, worker, inbox>>

\* exportAndDownload: no warm result can be used, the engine is prepared first.
PingAnswered(s, pool, ok) ==
  LET w == [s EXCEPT !.page.press = "wait"]
  IN  CASE \/ s.page.loaded = Ready
           \/ s.page.loaded = None /\ s.page.book = None -> Convert(w, pool, ok)
        [] s.page.loaded = None /\ s.page.book # None -> AwaitEngine(Prepare(w, s.page.book), [who |-> "export"])
        [] OTHER -> AwaitEngine(w, [who |-> "export"])

PingReply(pool, ok) ==
  /\ Idle /\ page.press = "ping"
  /\ page.loaded = None => FreePreps(Now) # {}
  /\ LET s == [Now EXCEPT !.page.want = [book |-> page.book, spec |-> Chosen(page),
                                         face |-> page.face, calm |-> ~(page.convert \/ Converting(page)),
                                         ready |-> page.loaded # None \/ page.book # None]]
     IN Becomes(IF page.warmKey = Key(page)
                THEN Call([s EXCEPT !.page.press = "fetch"], HandleFetch(Engine(s)))
                ELSE PingAnswered(s, pool, ok))
  /\ UNCHANGED <<idle, left>>

\* pooledExportBook is over: the pool has an engine of its own for every spine (SpinePool).
PoolEnds ==
  /\ Idle /\ page.press = "pool"
  /\ Becomes(Unlock(Now))
  /\ UNCHANGED <<idle, left>>

\* worker.onerror, or a call that timed out
EngineDies ==
  /\ Idle /\ worker.alive /\ "engine" \in Failing /\ left.deaths > 0
  /\ left' = [left EXCEPT !.deaths = @ - 1]
  /\ Becomes(KillExportEngine(Now))
  /\ UNCHANGED idle

-----------------------------------------------------------------------------
\* A continuation of exportLoaded.
Continue(pool, ok) ==
  /\ micro # << >> /\ worker.woken = << >>
  /\ LET c == Head(micro)
         s == [Now EXCEPT !.micro = Tail(@)]
     IN Becomes(CASE c.go.who = "warm" -> IF c.ok THEN SendWarm(s, c.go, ok) ELSE WarmEnds(s)
                  [] c.go.who = "font" -> IF c.ok THEN SyncFont(s, ok) ELSE SyncFails(s)
                  [] c.go.who = "export" -> Convert(Awaited(s, c.ok), pool, ok))
  /\ UNCHANGED <<idle, left>>

Answered(re) == Idle /\ inbox # << >> /\ Head(inbox).re = re
Taken == [Now EXCEPT !.inbox = Tail(@)]

\* loadExportEngine: the face the page owns goes in after the book.
LoadAnswered(ok) ==
  /\ Answered("load")
  /\ LET m == Head(inbox)
     IN Becomes(CASE ~m.ok -> PrepFails(Taken, m.id)
                  [] m.ok /\ page.face = 0 -> PrepSucceeds(Taken, m.id)
                  [] OTHER -> Call([Taken EXCEPT !.prep[m.id].step = "font"],
                                   HandleFont(worker, m.id, page.face, ok)))
  /\ UNCHANGED <<idle, left>>

FontAnswered ==
  /\ Answered("loadFont")
  /\ LET m == Head(inbox)
     IN Becomes(CASE m.id # 0 /\ m.ok -> PrepSucceeds(Taken, m.id)
                  [] m.id # 0 /\ ~m.ok -> PrepFails(Taken, m.id)
                  [] m.id = 0 /\ m.ok -> Painting(Taken)
                  [] m.id = 0 /\ ~m.ok -> SyncFails(Taken))
  /\ UNCHANGED <<idle, left>>

Current(m) == m.tok = page.version

\* fireWarm: a warm that failed or found another one running is tried again.
WarmAnswered ==
  /\ Answered("warm")
  /\ LET m == Head(inbox)
     IN Becomes(WarmEnds(CASE m.res = "error" -> ScheduleWarm(Taken)
                           [] m.res = "busy" /\ Current(m) -> ScheduleWarm(Taken)
                           [] m.res = "ready" /\ Current(m) -> [Taken EXCEPT !.page.warmKey = m.key]
                           [] OTHER -> Taken))
  /\ UNCHANGED <<idle, left>>

\* exportAndDownload: the file is saved under the title of the book that is open now.
FileAnswered ==
  /\ Answered("file")
  /\ LET m == Head(inbox)
     IN IF m.made = NoFile THEN Becomes(Unlock(Taken))
        ELSE /\ Turns(Unlock([Taken EXCEPT !.page.warmKey = NoKey]))
             /\ saved' = [made |-> m.made, title |-> page.book, want |-> page.want]
  /\ UNCHANGED <<idle, left>>

-----------------------------------------------------------------------------
\* The worker's own steps.
Works(r) ==
  /\ worker' = r.w /\ inbox' = inbox \o r.out
  /\ saved' = NoSave
  /\ UNCHANGED <<page, idle, prep, micro, left>>

WakeNext(ok) ==
  /\ worker.woken # << >>
  /\ Works(Resume([worker EXCEPT !.woken = Tail(@)], Head(worker.woken), ok))

BookRead(ok) ==
  /\ micro = << >> /\ worker.woken = << >> /\ Replacing(worker) /\ ~worker.warm.on
  /\ Works(LoadEnds(worker, ok))

WarmStep(ok) ==
  /\ micro = << >> /\ worker.woken = << >> /\ worker.warm.on
  /\ Works(WarmGoesOn(worker, ok))

ExportStep(ok) ==
  /\ micro = << >> /\ worker.woken = << >> /\ worker.job.done > 0
  /\ Works(ExportGoesOn(worker, ok))

-----------------------------------------------------------------------------
Reader ==
  \/ OpenBook \/ Press \/ TurnFontKnob
  \/ \E l \in Looks : ChangeLook(l)
  \/ \E f \in {"kopub", "custom"} : ChooseFont(f)

OpeningEnds == BookOpened \/ BookFails
IdleTime == \E b \in Books : FrameShown(b) \/ IdlePrep(b)
Timers == \E ok \in Outcome("spine") : FireWarm(ok)
Conversion ==
  \/ ConvertStarts \/ FacePainted
  \/ \E ok \in Outcome("face") : FontConverted(ok)
  \/ \E ok, sync \in Outcome("face") : FaceAccepted(ok, sync)
Ping == \E pool \in Pool, ok \in Outcome("spine") : PingReply(pool, ok)
Continues ==
  /\ micro # << >>
  /\ \E pool \in Pool, ok \in Outcome(IF Head(micro).go.who = "font" THEN "face" ELSE "spine") : Continue(pool, ok)
Answers ==
  \/ \E ok \in Outcome("face") : LoadAnswered(ok)
  \/ FontAnswered \/ WarmAnswered \/ FileAnswered
Wakes ==
  /\ worker.woken # << >>
  /\ \E ok \in Outcome(IF Head(worker.woken).cmd = "loadFont" THEN "face" ELSE "spine") : WakeNext(ok)
Reads == \E ok \in Outcome("load") : BookRead(ok)
Spine == \E ok \in Outcome("spine") : WarmStep(ok) \/ ExportStep(ok)

Next ==
  \/ Reader \/ OpeningEnds \/ IdleTime \/ Timers \/ Conversion \/ Ping \/ PoolEnds
  \/ Continues \/ Answers \/ Wakes \/ Reads \/ Spine \/ EngineDies

Spec == Init /\ [][Next]_vars

-----------------------------------------------------------------------------
Runs == [on : BOOLEAN, tok : Nat, key : Keys, snap : Settings, done : 0 .. Spines, made : SUBSET Sources]
Waiters == {"warm", "font", "export"}
Handlers == {"load", "loadFont", "exportBook"}

\* Every variable has its type; an answer is of a request the worker knows.
TypeOK ==
  /\ page.book \in {None} \cup Books /\ page.opening \in {None} \cup Books
  /\ page.choice \in Settings /\ {page.sig, page.face, page.faceFor} \subseteq Faces
  /\ {page.convert, page.faceLoaded, page.settle} \subseteq BOOLEAN
  /\ page.fontRun \in {"idle", "converting", "preview", "waiting", "sync", "painting"}
  /\ page.version \in Nat /\ {page.warmKey, page.firing} \subseteq Keys
  /\ page.loaded \in {None, Ready} \cup Preps
  /\ page.press \in {"no", "ping", "wait", "fetch", "serial", "pool"}
  /\ idle.frame \subseteq Books /\ idle.prep \subseteq Books
  /\ \A i \in Preps : /\ prep[i].step \in {"off", "load", "font"}
                      /\ \A n \in DOMAIN prep[i].waiters : prep[i].waiters[n].who \in Waiters
  /\ \A n \in DOMAIN micro : micro[n].go.who \in Waiters /\ micro[n].ok \in BOOLEAN
  /\ worker.alive \in BOOLEAN /\ worker.book \in {None} \cup Books /\ worker.custom \in Faces
  /\ worker.spec \in Settings \cup {NoSpec} /\ worker.font \in {"kopub", "custom"}
  /\ worker.token \in Nat /\ {worker.warm, worker.job} \subseteq Runs
  /\ worker.bytes \in SUBSET Sources
  /\ \A n \in DOMAIN worker.loads : worker.loads[n] \in [prep : Preps, book : Books]
  /\ \A n \in DOMAIN worker.waiting : worker.waiting[n].cmd \in Handlers
  /\ \A n \in DOMAIN worker.woken : worker.woken[n].cmd \in Handlers
  /\ \A n \in DOMAIN inbox : inbox[n].re \in {"load", "loadFont", "warm", "file"}
  /\ saved.made \in SUBSET Sources /\ saved.title \in {None} \cup Books

\* A file the engine holds or the page saved has all its spines from one book, one face and
\* one set of settings: whatever arrives between two spines waits or is refused.
OneSourcePerFile ==
  \A made \in {worker.bytes, saved.made} : \A x, y \in made : x = y

\* The file that is saved was made for the settings on the screen when it was asked for,
\* also when it is the result of a warm that other settings had started.
SavedLookIsChosen ==
  \A x \in saved.made : x.look = saved.want.spec.look

\* A file asked for in the custom face, when no conversion of a face was due or under way, is
\* set in the face the page owned then, in all its spines.
SavedFaceIsOwned ==
  saved.want.calm /\ saved.want.spec.font = "custom" =>
    \A x \in saved.made : x.font = "custom" /\ x.face = saved.want.face

\* That is so when the engine was ready or its preparation succeeded.
SavedFaceIsCurrent == saved.want.ready => SavedFaceIsOwned

\* An export engine the page believes ready has the page's face, unless a hot sync is due.
FaceSynced ==
  page.loaded = Ready /\ page.fontRun \notin {"waiting", "sync"} =>
    worker.alive /\ worker.custom = page.face

\* Where somebody waits to go on once the engine is prepared: among the waiters of a preparation
\* or, when that has ended, among the continuations.
Going(s, who) ==
  (UNION {{<<i, n>> : n \in {k \in DOMAIN s.prep[i].waiters : s.prep[i].waiters[k].who = who}} : i \in Preps})
    \cup {<<0, n>> : n \in {k \in DOMAIN s.micro : s.micro[k].go.who = who}}
Files(answers) == {n \in DOMAIN answers : answers[n].re = "file"}
Once(S) == \E x \in S : S = {x}

\* The export lock of the page and that of the engine are never left behind: whoever holds the
\* page's lock has exactly one continuation, call or answer that will give it back, however the
\* engine was killed, and an engine is locked for nobody else.
ExportIsAwaited ==
  LET works == worker.job.on
      files == Files(inbox)
  IN  /\ IF page.press = "wait" THEN Once(Going(Now, "export")) ELSE Going(Now, "export") = {}
      /\ IF page.press \in {"serial", "fetch"} THEN IF works THEN files = {} ELSE Once(files)
                                               ELSE ~works /\ files = {}
      /\ works => page.press = "serial"

\* A handler waits only for a warm that has been asked to stop, so its next yield wakes the handler.
WaitersWillGo ==
  worker.waiting # << >> => worker.warm.on /\ worker.warm.tok < worker.token

\* The file is one of the book that was open when it was asked for and still is when it is saved.
SavedBookIsOpen ==
  saved.want.book = saved.title => \A x \in saved.made : x.book = saved.title

\* What an engine is asked for is what it converts: a file asked for in a built-in face is not
\* set in the face of the reader's own font.
SavedFontIsChosen ==
  saved.want.calm => \A x \in saved.made : x.font = saved.want.spec.font

===============================================================================
