--------------------------- MODULE PreviewSession ---------------------------
(***************************************************************************)
(* The reading session: the page (web/app.js) and the preview worker       *)
(* (web/ko.worker.js) with the engine it owns.  The page keeps a position, *)
(* the chosen settings and the identity of the book; the worker keeps a    *)
(* description of what its engine holds, a cache of composed frames, a     *)
(* section that is laid out a few pages at a time, timers for speculative  *)
(* renders and a queue of book replacements.                               *)
(*                                                                         *)
(* The worker's handlers run to completion unless they wait for a file, so *)
(* a request is handled in the step that sends it: a page step between     *)
(* sending and handling cannot be told from one after it.  Answers and     *)
(* id-less messages are delivered later, in order (inbox).  Built-in faces *)
(* are embedded in the module, so selecting one never waits.  A section    *)
(* advances by exactly Chunk pages.  The estimate of the chapter on screen *)
(* stands for sectionEstimates: those of other chapters are overwritten    *)
(* before they are read.  The cover view and the export engines are left   *)
(* to other modules.                                                       *)
(***************************************************************************)
EXTENDS Integers, FiniteSets, SequencesExt

CONSTANTS Books,        \* the EPUB files the reader can pick, positive numbers
          SpineCount,   \* SpineCount[b]: chapters of book b
          PageCount,    \* PageCount[b][s][l]: pages of chapter s laid out with l
          StartSpine,   \* StartSpine[b]: the chapter book b opens at
          Layouts,      \* the settings that move page breaks, the face aside
          Tones,        \* the settings that only change pixels
          Chunk,        \* BUILD_CHUNK
          CacheSize,    \* FRAME_CACHE_BUDGET, in frames
          Failing,      \* what may fail: "size", "load", "build", "more", "face"
          Hasty,        \* may the reader act before the page has settled?
          MaxOpens, MaxFaces, MaxRestarts,   \* how often the reader or the browser acts
          MaxInbox, MaxTimers                \* messages and timers outstanding at an action

ASSUME PreviewAssumption ==
    /\ Books \subseteq Nat \ {0} /\ Books # {} /\ Layouts # {} /\ Tones # {}
    /\ SpineCount \in [Books -> Nat \ {0}]
    /\ \A b \in Books : /\ StartSpine[b] \in 0 .. SpineCount[b] - 1
                         /\ \A s \in 0 .. SpineCount[b] - 1, l \in Layouts :
                               PageCount[b][s][l] \in Nat \ {0}
    /\ Chunk \in Nat \ {0} /\ CacheSize \in Nat \ {0}
    /\ Failing \subseteq {"size", "load", "build", "more", "face"} /\ Hasty \in BOOLEAN
    /\ {MaxOpens, MaxFaces, MaxRestarts, MaxInbox, MaxTimers} \subseteq Nat

VARIABLES book,       \* the book the page shows, NoBook for none
          blob,       \* currentBookBlob: the file a restarted worker is given
          place,      \* state: [spine, page, pages, complete]
          choice,     \* the settings controls: [font, layout, tone]
          faceLoaded, \* customFontLoaded
          pushed,     \* lastPushedSpecKey
          genSeen,    \* workerBookGen
          shown,      \* the frame on the canvas
          reported,   \* the newest request ended in an error the reader was shown
          opening,    \* __koOpenPending: the newest open is not answered
          repaint,    \* the repaint timer is running
          fontRun,    \* runFontConvert: "idle", "converting", "sent" or "painting"
          booting,    \* respawning
          picked,     \* the last book that was to be opened, NoBook after a file of no book (history)
          left,       \* what is left of MaxOpens, MaxFaces and MaxRestarts
          inbox,      \* messages of the worker the page has not handled
          loads,      \* bookLoadTail: replacements, the first is reading its file
          worker      \* the worker and its engine

page == <<book, blob, place, choice, faceLoaded, pushed, genSeen, shown,
          reported, opening, repaint, fontRun, booting, picked, left>>
vars == <<page, inbox, loads, worker>>

-----------------------------------------------------------------------------
NoBook  == 0
NoSpine == -1
NoFace  == [font |-> "none", stamp |-> -1]
NoSpec  == [font |-> "none", layout |-> 0, tone |-> 0]
NoFrame == [book |-> NoBook]
Far     == 99          \* goPage's 1 << 30: past the end of every chapter
NoPlace == [spine |-> 0, page |-> 0, pages |-> 0, complete |-> FALSE]

Spines   == UNION {0 .. SpineCount[b] - 1 : b \in Books}
Settings == [font : {"kopub", "custom"}, layout : Layouts, tone : Tones]
Default  == CHOOSE s \in Settings : s.font = "kopub"

Outcome(what) == IF what \in Failing THEN BOOLEAN ELSE {TRUE}

\* What moves page breaks in a spec, and in the state of the engine.
LayoutKey(spec) == [font |-> spec.font, layout |-> spec.layout]
Laid(look)      == [font |-> look.font, face |-> look.face, layout |-> look.layout]

NoSection == [spine |-> NoSpine, laid |-> {}, avail |-> 0, done |-> FALSE]

FreshWorker ==
    [loaded |-> FALSE, gen |-> 0,                       \* bookLoaded, bookGen
     custom |-> 0, stamp |-> 0, applied |-> NoFace,     \* customFontBytes, fontStamp, appliedFont
     spec |-> NoSpec,                                   \* currentSpec
     spine |-> NoSpine, pages |-> 0,                    \* currentSpine, currentPages
     built |-> LayoutKey(NoSpec), builtStamp |-> 0,     \* builtKey, builtFontStamp
     est |-> "none",                                    \* sectionEstimates[currentSpine]
     cont |-> NoSpine,                                  \* the chapter the live continuation extends
     timers |-> {}, cache |-> <<>>,                     \* schedulePrefetch, frameCache
     mounted |-> NoBook, section |-> NoSection,         \* the engine: its book, its section
     look |-> [font |-> "kopub", face |-> 0, layout |-> Default.layout, tone |-> Default.tone]]

Init ==
    /\ book = NoBook /\ blob = NoBook /\ place = NoPlace
    /\ choice = Default /\ faceLoaded = FALSE /\ pushed = NoSpec
    /\ genSeen = -1 /\ shown = NoFrame /\ reported = FALSE
    /\ opening = FALSE /\ repaint = FALSE /\ fontRun = "idle" /\ booting = FALSE /\ picked = NoBook
    /\ left = [opens |-> MaxOpens, faces |-> MaxFaces, restarts |-> MaxRestarts]
    /\ inbox = <<>> /\ loads = <<>> /\ worker = FreshWorker

-----------------------------------------------------------------------------
(***************************************************************************)
(* The worker: what its handlers make of its state w.                      *)
(***************************************************************************)

\* Mutated form: the replacement forgets appliedFont.
Begin_KeepsFace(w) ==
    [w EXCEPT !.cont = NoSpine, !.spine = NoSpine, !.pages = 0,
              !.built = LayoutKey(NoSpec), !.builtStamp = -1, !.est = "none",
              !.gen = @ + 1, !.cache = <<>>, !.loaded = FALSE]

\* invalidateSection, then everything one replacement invalidates.
Begin(w) ==
    [w EXCEPT !.cont = NoSpine, !.spine = NoSpine, !.pages = 0,
              !.built = LayoutKey(NoSpec), !.builtStamp = -1, !.est = "none",
              !.gen = @ + 1, !.cache = <<>>, !.applied = NoFace, !.loaded = FALSE]

\* The engine replaces its book: the section and the runtime face go with it.
Mount(w, b) ==
    [w EXCEPT !.mounted = b, !.section = NoSection,
              !.look = IF @.font = "custom" THEN [@ EXCEPT !.font = "kopub", !.face = 0] ELSE @]

\* applyFont refuses a custom face this worker was never given.
HasFace(w, spec) == spec.font = "custom" => w.custom # 0

\* The face is skipped when it is believed active; setters drop a stale section.
ApplySpec(w, spec) ==
    LET active == [font |-> spec.font, stamp |-> w.stamp]
        face   == IF spec.font = "custom" THEN w.custom ELSE 0
        look   == [font   |-> IF w.applied = active THEN w.look.font ELSE spec.font,
                   face   |-> IF w.applied = active THEN w.look.face ELSE face,
                   layout |-> spec.layout, tone |-> spec.tone]
    IN [w EXCEPT !.spec = spec, !.applied = active, !.look = look,
                 !.section = IF Laid(look) = Laid(w.look) THEN @ ELSE NoSection,
                 !.cache = IF spec = w.spec THEN @ ELSE <<>>]

\* Mutated form: the pages announced are those of the whole chapter.
Build_Announces(w, spine, whole) ==
    LET total == PageCount[w.mounted][spine][w.look.layout]
        n     == IF whole THEN total ELSE 1
    IN [w EXCEPT !.section = [spine |-> spine, laid |-> Laid(w.look), avail |-> n, done |-> n = total],
                 !.spine = spine, !.pages = total, !.cont = IF whole THEN @ ELSE NoSpine,
                 !.built = LayoutKey(w.spec), !.builtStamp = w.stamp,
                 !.est = IF n = total THEN "complete" ELSE "partial"]

\* ko_start_spine lays out the first page, ko_build_spine the whole chapter.
Build(w, spine, whole) ==
    LET total == PageCount[w.mounted][spine][w.look.layout]
        n     == IF whole THEN total ELSE 1
    IN [w EXCEPT !.section = [spine |-> spine, laid |-> Laid(w.look), avail |-> n, done |-> n = total],
                 !.spine = spine, !.pages = n, !.cont = IF whole THEN @ ELSE NoSpine,
                 !.built = LayoutKey(w.spec), !.builtStamp = w.stamp,
                 !.est = IF n = total THEN "complete" ELSE "partial"]

CanPaint(w, p) == p \in 0 .. w.section.avail - 1
Paint(w, p) == [book |-> w.mounted, spine |-> w.section.spine, page |-> p,
                laid |-> w.section.laid, look |-> w.look]

FrameKey(w, p) == [gen |-> w.gen, spine |-> w.spine, page |-> p,
                   spec |-> w.spec, stamp |-> w.builtStamp]
Hits(w, key) == {i \in DOMAIN w.cache : w.cache[i].key = key}
Others(w, key) == IF Hits(w, key) = {} THEN w.cache
                  ELSE RemoveAt(w.cache, CHOOSE i \in Hits(w, key) : TRUE)

\* Mutated form: the budget is never enforced.
Remember_All(w, key, frame) ==
    [w EXCEPT !.cache = Append(Others(w, key), [key |-> key, frame |-> frame])]

\* The newest CacheSize frames stay; a hit makes its frame the newest.
Remember(w, key, frame) ==
    LET all == Append(Others(w, key), [key |-> key, frame |-> frame])
        cut == IF Len(all) > CacheSize THEN Len(all) - CacheSize ELSE 0
    IN [w EXCEPT !.cache = SubSeq(all, cut + 1, Len(all))]

Schedule(w, p) ==
    [w EXCEPT !.timers = @ \cup {[key |-> FrameKey(w, p), pages |-> w.pages]}]

\* One turn of continueSection: the next state and what is posted.
More(w, ok) ==
    LET total == PageCount[w.mounted][w.section.spine][w.look.layout]
        n     == IF w.section.avail + Chunk < total THEN w.section.avail + Chunk ELSE total
        told(kind, v) == <<[kind |-> kind, gen |-> w.gen, spine |-> w.spine,
                            pages |-> v.pages, done |-> v.section.done]>>
        ends  == [w EXCEPT !.cont = NoSpine, !.est = "complete"]
        fails == [w EXCEPT !.cont = NoSpine, !.est = "partial", !.section = NoSection]
        grows == [w EXCEPT !.section.avail = n, !.section.done = (n = total), !.pages = n,
                           !.est = IF n = total THEN "complete" ELSE "partial",
                           !.cont = IF n = total THEN NoSpine ELSE @]
    IN CASE w.cont # w.spine           -> [w |-> [w EXCEPT !.cont = NoSpine], out |-> <<>>]
         [] w.cont = w.spine /\ w.section.done -> [w |-> ends, out |-> told("progress", ends)]
         [] OTHER -> IF ok /\ w.section # NoSection
                     THEN [w |-> grows, out |-> told("progress", grows)]
                     ELSE [w |-> fails, out |-> told("sectionError", fails)]

Answer(q, ok, p, w, frame) ==
    [kind |-> "rendered", live |-> TRUE, ok |-> ok, spec |-> q.spec, face |-> q.face,
     spine |-> q.spine, page |-> p, pages |-> w.pages, complete |-> w.est = "complete",
     frame |-> frame]
Refused(q, w) == [w |-> w, out |-> <<Answer(q, FALSE, 0, [w EXCEPT !.pages = 0], NoFrame)>>]

\* The state after the spec that came with a request.
Respec(w, spec) == IF spec \in {NoSpec, w.spec} THEN w ELSE ApplySpec(w, spec)

\* Does a request find another chapter, layout or face built?
Stale(w, spine) == spine # w.spine \/ LayoutKey(w.spec) # w.built \/ w.stamp # w.builtStamp

\* A build that fails replaced the section first, unless there is no such chapter.
BuildFails(w, q) ==
    [w EXCEPT !.cont = IF q.whole THEN @ ELSE NoSpine,
              !.section = IF q.spine < SpineCount[w.mounted] THEN NoSection ELSE @]

Clamp(w, p) == IF p >= w.pages THEN w.pages - 1 ELSE p

\* A hit answers and extends the chain of speculative renders.
FromCache(w, q, p) ==
    LET frame == w.cache[CHOOSE i \in Hits(w, FrameKey(w, p)) : TRUE].frame
        kept  == Remember(w, FrameKey(w, p), frame)
    IN [w |-> Schedule(kept, p), out |-> <<Answer(q, TRUE, p, w, frame)>>]

\* A miss renders, answers, starts the continuation of a new section.
FromEngine(w, q, p, starts, more) ==
    LET kept == Remember(w, FrameKey(w, p), Paint(w, p))
        run  == IF starts THEN More([kept EXCEPT !.cont = w.spine], more)
                          ELSE [w |-> kept, out |-> <<>>]
    IN [w |-> Schedule(run.w, p), out |-> <<Answer(q, TRUE, p, w, Paint(w, p))>> \o run.out]

\* The render command.  ok: the section builds; more: its next pages do.
Render(w, q, ok, more) ==
    LET x     == Respec(w, q.spec)
        stale == Stale(x, q.spine)
        y     == IF stale THEN Build(x, q.spine, q.whole) ELSE x
        p     == Clamp(y, q.page)
    IN CASE ~w.loaded \/ ~HasFace(w, q.spec) -> Refused(q, w)
         [] OTHER ->
            IF stale /\ ~(ok /\ q.spine < SpineCount[w.mounted]) THEN Refused(q, BuildFails(x, q))
            ELSE IF Hits(y, FrameKey(y, p)) # {} THEN FromCache(y, q, p)
            ELSE IF ~CanPaint(y, p) THEN Refused(q, y)
            ELSE FromEngine(y, q, p, stale /\ ~q.whole, more)

\* Mutated form: the timer only looks at the book.
Prefetch_Blind(w, t) ==
    LET next == t.key.page + 1
        rest == [w EXCEPT !.timers = @ \ {t}]
    IN IF t.key.gen = w.gen /\ next < t.pages /\ CanPaint(w, next)
       THEN Remember(rest, [t.key EXCEPT !.page = next], Paint(w, next)) ELSE rest

\* schedulePrefetch's timer: every guard is looked at again when it fires.
Prefetch(w, t) ==
    LET next == t.key.page + 1
        key  == [t.key EXCEPT !.page = next]
        same == /\ t.key = FrameKey(w, t.key.page) /\ t.pages = w.pages
                /\ next < t.pages /\ Hits(w, key) = {} /\ CanPaint(w, next)
        rest == [w EXCEPT !.timers = @ \ {t}]
    IN IF same THEN Remember(rest, key, Paint(w, next)) ELSE rest

\* openPreview once its file is read: it opens the book at its first page or leaves none.
Opens(w, l, more) ==
    LET x   == Build(ApplySpec(Mount(w, l.book), l.spec), StartSpine[l.book], FALSE)
        run == More([x EXCEPT !.loaded = TRUE, !.cont = x.spine], more)
    IN [w |-> run.w,
        out |-> <<[kind |-> "opened", live |-> l.live, ok |-> TRUE, book |-> l.book, gen |-> x.gen,
                   spine |-> x.spine, pages |-> x.pages, complete |-> x.section.done,
                   frame |-> Paint(x, 0)]>> \o run.out]

\* The answer of an open that failed.
NotOpened(live, b, gen) ==
    [kind |-> "opened", live |-> live, ok |-> FALSE, book |-> b, gen |-> gen,
     spine |-> 0, pages |-> 0, complete |-> FALSE, frame |-> NoFrame]

\* Mutated form: a failed open leaves the book in the engine.
Aborts_KeepsBook(w, l) == [w |-> Begin(w), out |-> <<NotOpened(l.live, l.book, w.gen)>>]

\* abortBookOpen: unload, and one more generation.
Aborts(w, l) == [w |-> Begin(Mount(w, NoBook)), out |-> <<NotOpened(l.live, l.book, w.gen)>>]

\* loadFont: nothing is touched unless the engine takes the face.
TakeFace(w, f) ==
    [w EXCEPT !.custom = f, !.stamp = @ + 1, !.applied = [font |-> "custom", stamp |-> w.stamp + 1],
              !.cache = <<>>, !.section = NoSection,
              !.look = [@ EXCEPT !.font = "custom", !.face = f]]

-----------------------------------------------------------------------------
(***************************************************************************)
(* Steps of the worker that no message of the page starts.                 *)
(***************************************************************************)
Continue ==
    /\ worker.cont # NoSpine /\ Len(inbox) < MaxInbox
    /\ \E ok \in Outcome("more") :
          LET r == More(worker, ok)
          IN worker' = r.w /\ inbox' = inbox \o r.out
    /\ UNCHANGED <<page, loads>>

TimerFires ==
    /\ \E t \in worker.timers : worker' = Prefetch(worker, t)
    /\ UNCHANGED <<page, inbox, loads>>

\* Mutated form: a failed load leaves the queue without an answer.
ReadEnds_Silent ==
    /\ loads # <<>>
    /\ \E ok \in Outcome("load"), more \in Outcome("more") :
          LET l == Head(loads)
              r == IF ok THEN Opens(worker, l, more) ELSE [Aborts(worker, l) EXCEPT !.out = <<>>]
          IN /\ worker' = IF Tail(loads) = <<>> THEN r.w ELSE Begin(r.w)
             /\ inbox' = inbox \o r.out
    /\ loads' = Tail(loads)
    /\ UNCHANGED page

\* The first queued replacement has its file; the next one begins at once.
ReadEnds ==
    /\ loads # <<>>
    /\ \E ok \in Outcome("load"), more \in Outcome("more") :
          LET l     == Head(loads)
              r     == IF ok /\ HasFace(worker, l.spec) THEN Opens(worker, l, more)
                                                        ELSE Aborts(worker, l)
          IN /\ worker' = IF Tail(loads) = <<>> THEN r.w ELSE Begin(r.w)
             /\ inbox' = inbox \o r.out
    /\ loads' = Tail(loads)
    /\ UNCHANGED page

-----------------------------------------------------------------------------
(***************************************************************************)
(* The page: asking the worker.                                            *)
(***************************************************************************)
\* The spec of the controls c: custom only once a face is loaded.
readSpec(c) == IF c.font = "custom" /\ ~faceLoaded THEN [c EXCEPT !.font = "kopub"] ELSE c

Superseded(kinds, ms) ==
    [i \in DOMAIN ms |-> IF ms[i].kind \in kinds THEN [ms[i] EXCEPT !.live = FALSE] ELSE ms[i]]

\* refresh with controls c, the messages ms still to come: earlier renders are
\* superseded, the spec goes along if it changed, and everything but a load is
\* refused while a replacement is pending.  face: applyCustomFont waits for it.
Refresh(at, whole, face, c, ms) ==
    \E ok \in Outcome("build"), more \in Outcome("more") :
       LET spec == readSpec(c)
           q == [spec |-> IF spec = pushed THEN NoSpec ELSE spec, whole |-> whole, face |-> face,
                 spine |-> IF at.spine < SpineCount[book] THEN at.spine ELSE SpineCount[book] - 1,
                 page |-> at.page]
           r == IF loads = <<>> THEN Render(worker, q, ok, more) ELSE Refused(q, worker)
       IN worker' = r.w /\ inbox' = Superseded({"rendered"}, ms) \o r.out

\* Mutated form: a new selection does not supersede the one before.
Open_KeepsEarlier(b) ==
    /\ inbox' = Superseded({"rendered"}, inbox)
    /\ loads' = Append(loads, [book |-> b, spec |-> readSpec(choice), live |-> TRUE])
    /\ worker' = IF loads = <<>> THEN Begin(worker) ELSE worker
    /\ genSeen' = -1 /\ opening' = TRUE /\ picked' = b

SupersededLoads == [i \in DOMAIN loads |-> [loads[i] EXCEPT !.live = FALSE]]

\* loadBook up to its await: every earlier open and render is superseded; the
\* worker begins the replacement now unless another one is still running.
Open(b) ==
    /\ inbox' = Superseded({"rendered", "opened"}, inbox)
    /\ loads' = Append(SupersededLoads, [book |-> b, spec |-> readSpec(choice), live |-> TRUE])
    /\ worker' = IF loads = <<>> THEN Begin(worker) ELSE worker
    /\ genSeen' = -1 /\ opening' = TRUE /\ picked' = b

\* loadBook with a file validateBookInput refuses, an empty or an oversized one:
\* the page has superseded what went before, but the worker answers at once,
\* ahead of its queue, and keeps the book it has or is opening.
TurnedAway ==
    /\ "size" \in Failing
    /\ inbox' = Append(Superseded({"rendered", "opened"}, inbox),
                       NotOpened(TRUE, NoBook, worker.gen))
    /\ loads' = SupersededLoads
    /\ genSeen' = -1 /\ opening' = TRUE /\ picked' = NoBook
    /\ UNCHANGED worker

Settled == inbox = <<>> /\ loads = <<>> /\ ~repaint /\ fontRun = "idle" /\ ~booting

\* When the reader may act.
Ready == /\ Len(inbox) < MaxInbox /\ Cardinality(worker.timers) < MaxTimers
         /\ Hasty \/ Settled

Moves(at, whole) ==
    /\ place' = at
    /\ Refresh(at, whole, FALSE, choice, inbox)
    /\ UNCHANGED <<book, blob, choice, faceLoaded, pushed, genSeen, shown, reported, opening,
                   repaint, fontRun, booting, picked, left, loads>>

\* goPage: the last page of the chapter before needs the whole chapter, and
\* the frontier of an unfinished chapter is not its end.
goPage(delta) ==
    LET target == place.page + delta
    IN /\ Ready /\ book # NoBook
       /\ \/ /\ target < 0 /\ place.spine > 0
             /\ Moves([place EXCEPT !.spine = @ - 1, !.page = Far], TRUE)
          \/ /\ target >= 0 /\ target < place.pages
             /\ Moves([place EXCEPT !.page = target], FALSE)
          \/ /\ target >= 0 /\ target >= place.pages
             /\ place.complete /\ place.spine < SpineCount[book] - 1
             /\ Moves([place EXCEPT !.spine = @ + 1, !.page = 0], FALSE)

NextPage == goPage(1)
PrevPage == goPage(-1)

PickChapter ==
    /\ Ready /\ book # NoBook
    /\ \E s \in 0 .. SpineCount[book] - 1 : Moves([place EXCEPT !.spine = s, !.page = 0], FALSE)

\* A knob: the repaint is debounced.
TurnKnob ==
    /\ Ready
    /\ \E l \in Layouts, t \in Tones :
          /\ <<l, t>> # <<choice.layout, choice.tone>>
          /\ choice' = [choice EXCEPT !.layout = l, !.tone = t]
    /\ repaint' = TRUE
    /\ UNCHANGED <<book, blob, place, faceLoaded, pushed, genSeen, shown, reported, opening,
                   fontRun, booting, picked, left, inbox, loads, worker>>

\* The face preset: a custom face that was never converted changes nothing yet.
ChooseFace ==
    /\ Ready /\ left.faces < MaxFaces
    /\ choice' = [choice EXCEPT !.font = IF @ = "kopub" THEN "custom" ELSE "kopub"]
    /\ repaint' = (repaint \/ choice'.font = "kopub" \/ faceLoaded)
    /\ UNCHANGED <<book, blob, place, faceLoaded, pushed, genSeen, shown, reported, opening,
                   fontRun, booting, picked, left, inbox, loads, worker>>

\* The debounce ends: refresh(true), for whatever is chosen by now.
Repaint ==
    /\ repaint /\ Len(inbox) < MaxInbox /\ Cardinality(worker.timers) < MaxTimers
    /\ repaint' = FALSE
    /\ IF book = NoBook THEN UNCHANGED <<worker, inbox>> ELSE Refresh(place, FALSE, FALSE, choice, inbox)
    /\ UNCHANGED <<book, blob, place, choice, faceLoaded, pushed, genSeen, shown, reported, opening,
                   fontRun, booting, picked, left, loads>>

\* With the picker or by dropping the file on the page.
PickBook ==
    /\ Ready /\ left.opens > 0
    /\ TurnedAway \/ \E b \in Books : Open(b)
    /\ left' = [left EXCEPT !.opens = @ - 1]
    /\ UNCHANGED <<book, blob, place, choice, faceLoaded, pushed, shown, reported,
                   repaint, fontRun, booting>>

-----------------------------------------------------------------------------
(***************************************************************************)
(* The page: a custom face.                                                *)
(***************************************************************************)
\* A font file selects the custom preset and its conversion starts.
PickFace ==
    /\ Ready /\ left.faces > 0 /\ fontRun = "idle"
    /\ choice' = [choice EXCEPT !.font = "custom"]
    /\ fontRun' = "converting"
    /\ left' = [left EXCEPT !.faces = @ - 1]
    /\ UNCHANGED <<book, blob, place, faceLoaded, pushed, genSeen, shown, reported, opening,
                   repaint, booting, picked, inbox, loads, worker>>

\* runFontConvert gives up: the preset moved on before it ran, or the
\* conversion was refused because a book is being replaced.
ConvertEnds ==
    /\ fontRun = "converting" /\ (choice.font # "custom" \/ loads # <<>>)
    /\ fontRun' = "idle"
    /\ UNCHANGED <<book, blob, place, choice, faceLoaded, pushed, genSeen, shown, reported, opening,
                   repaint, booting, picked, left, inbox, loads, worker>>

\* applyCustomFont up to its await: the worker takes the face or refuses it.
SendFace ==
    /\ fontRun = "converting" /\ Len(inbox) < MaxInbox
    /\ fontRun' = "sent"
    /\ \E ok \in Outcome("face") :
          LET taken == ok /\ loads = <<>>
          IN /\ worker' = IF taken THEN TakeFace(worker, MaxFaces - left.faces) ELSE worker
             /\ inbox' = Append(inbox, [kind |-> "faceTaken", ok |-> taken])
    /\ UNCHANGED <<book, blob, place, choice, faceLoaded, pushed, genSeen, shown, reported, opening,
                   repaint, booting, picked, left, loads>>

-----------------------------------------------------------------------------
(***************************************************************************)
(* The page: what the worker says.                                         *)
(***************************************************************************)
Hears(kind) == inbox # <<>> /\ Head(inbox).kind = kind
Taken       == inbox' = Tail(inbox)

\* refresh after its await: the spec counts as pushed even when superseded.
RenderReply ==
    /\ Hears("rendered") /\ Taken
    /\ LET m == Head(inbox)
       IN /\ pushed' = IF m.ok /\ m.spec # NoSpec THEN m.spec ELSE pushed
          /\ place' = IF m.ok /\ m.live THEN [spine |-> m.spine, page |-> m.page, pages |-> m.pages,
                                              complete |-> m.complete] ELSE place
          /\ shown' = IF m.ok /\ m.live THEN m.frame ELSE shown
          /\ reported' = IF m.live THEN ~m.ok ELSE reported
          /\ faceLoaded' = (faceLoaded \/ m.face)
          /\ fontRun' = IF m.face THEN "idle" ELSE fontRun
    /\ UNCHANGED <<book, blob, choice, genSeen, opening, repaint, booting, picked, left, loads, worker>>

\* Mutated form: the failed open leaves the earlier book on the page.
Cleared_KeepsBook == UNCHANGED book /\ blob' = NoBook /\ place' = NoPlace

\* clearLoadedBookAfterFailedOpen
Cleared == book' = NoBook /\ blob' = NoBook /\ place' = NoPlace

\* loadBook after its await: only the newest open touches the page.
OpenReply ==
    /\ Hears("opened") /\ Taken
    /\ LET m == Head(inbox)
       IN \/ /\ ~m.live
             /\ UNCHANGED <<book, blob, place, genSeen, pushed, shown, reported, opening>>
          \/ /\ m.live /\ m.ok
             /\ book' = m.book /\ blob' = m.book /\ genSeen' = m.gen
             /\ place' = [spine |-> m.spine, page |-> 0, pages |-> m.pages, complete |-> m.complete]
             /\ pushed' = NoSpec /\ shown' = m.frame /\ reported' = FALSE /\ opening' = FALSE
          \/ /\ m.live /\ ~m.ok
             /\ Cleared /\ reported' = TRUE /\ opening' = FALSE
             /\ UNCHANGED <<genSeen, pushed, shown>>
    /\ UNCHANGED <<choice, faceLoaded, repaint, fontRun, booting, picked, left, loads, worker>>

\* An id-less message counts for its book and for the chapter on screen.
Concerns(m) == m.gen = genSeen /\ m.spine = place.spine

\* Mutated form: progress only changes the total on display.
Progress_TotalOnly ==
    /\ Hears("progress") /\ Taken
    /\ place' = IF Concerns(Head(inbox)) THEN [place EXCEPT !.complete = Head(inbox).done] ELSE place
    /\ UNCHANGED <<book, blob, choice, faceLoaded, pushed, genSeen, shown, reported, opening,
                   repaint, fontRun, booting, picked, left, loads, worker>>

Progress ==
    /\ Hears("progress") /\ Taken
    /\ LET m == Head(inbox)
       IN place' = IF Concerns(m)
                   THEN [place EXCEPT !.pages = IF m.pages > @ THEN m.pages ELSE @, !.complete = m.done]
                   ELSE place
    /\ UNCHANGED <<book, blob, choice, faceLoaded, pushed, genSeen, shown, reported, opening,
                   repaint, fontRun, booting, picked, left, loads, worker>>

SectionError ==
    /\ Hears("sectionError") /\ Taken
    /\ reported' = (reported \/ Concerns(Head(inbox)))
    /\ UNCHANGED <<book, blob, place, choice, faceLoaded, pushed, genSeen, shown, opening,
                   repaint, fontRun, booting, picked, left, loads, worker>>

\* The preset follows the face, and the page is painted again; only then does
\* the page call the face loaded.
FaceReply ==
    /\ Hears("faceTaken")
    /\ LET m  == Head(inbox)
           to == [choice EXCEPT !.font = "custom"]
       IN \/ /\ ~m.ok /\ fontRun' = "idle" /\ Taken
             /\ UNCHANGED <<choice, faceLoaded, worker>>
          \/ /\ m.ok /\ book = NoBook /\ choice' = to
             /\ fontRun' = "idle" /\ faceLoaded' = TRUE /\ Taken
             /\ UNCHANGED worker
          \/ /\ m.ok /\ book # NoBook /\ choice' = to
             /\ fontRun' = "painting" /\ Refresh(place, FALSE, TRUE, to, Tail(inbox))
             /\ UNCHANGED faceLoaded
    /\ UNCHANGED <<book, blob, place, pushed, genSeen, shown, reported, opening,
                   repaint, booting, picked, left, loads>>

-----------------------------------------------------------------------------
(***************************************************************************)
(* The worker dies and is replaced.                                        *)
(***************************************************************************)
Awaited(kind) == \E i \in DOMAIN inbox : inbox[i].kind = kind /\ inbox[i].live

\* respawn: a new worker, and every call still pending is rejected.  A newest
\* open that was pending clears the page, a newest render reports an error, a
\* conversion ends unless it still waits for its debounce; one whose face was
\* taken still calls it loaded.
WorkerDies ==
    /\ ~booting /\ left.restarts > 0
    /\ left' = [left EXCEPT !.restarts = @ - 1]
    /\ worker' = FreshWorker /\ inbox' = <<>> /\ loads' = <<>>
    /\ booting' = TRUE
    /\ book' = NoBook
    /\ IF opening THEN Cleared ELSE UNCHANGED <<blob, place>>
    /\ reported' = (reported \/ opening \/ Awaited("rendered"))
    /\ faceLoaded' = (faceLoaded \/ fontRun = "painting")
    /\ fontRun' \in IF fontRun = "converting" THEN {"idle", "converting"} ELSE {"idle"}
    /\ opening' = FALSE
    /\ UNCHANGED <<choice, pushed, genSeen, shown, repaint, picked>>

\* The new worker answers: the file of the last committed book is opened again,
\* or, if there is none, the one the picker may still hold.
Booted ==
    /\ booting /\ booting' = FALSE
    /\ \/ blob # NoBook /\ Open(blob)
       \/ /\ blob = NoBook /\ left.opens < MaxOpens
          /\ TurnedAway \/ \E b \in Books : Open(b)
       \/ blob = NoBook /\ UNCHANGED <<inbox, loads, worker, genSeen, opening, picked>>
    /\ UNCHANGED <<book, blob, place, choice, faceLoaded, pushed, shown, reported,
                   repaint, fontRun, left>>

-----------------------------------------------------------------------------
WorkerSteps == Continue \/ TimerFires \/ ReadEnds
ReaderSteps == \/ NextPage \/ PrevPage \/ PickChapter \/ PickBook
               \/ TurnKnob \/ ChooseFace \/ PickFace
Replies     == RenderReply \/ OpenReply \/ Progress \/ SectionError \/ FaceReply
PageSteps   == Replies \/ Repaint \/ ConvertEnds \/ SendFace \/ Booted

Next == WorkerSteps \/ ReaderSteps \/ PageSteps \/ WorkerDies
Spec == Init /\ [][Next]_vars

\* The event loops of page and worker run what is queued, the debounce and the
\* conversion end, the browser finishes reading a file or refuses to, and the
\* continuation is called back after every yield.
FairSpec == Spec /\ WF_vars(Replies) /\ WF_vars(ReadEnds) /\ WF_vars(Continue)
                 /\ WF_vars(Repaint) /\ WF_vars(ConvertEnds \/ SendFace) /\ WF_vars(Booted)

-----------------------------------------------------------------------------
TypeOK ==
    /\ {book, blob, picked} \subseteq Books \cup {NoBook}
    /\ place \in [spine : Spines, page : Nat, pages : Nat, complete : BOOLEAN]
    /\ choice \in Settings /\ pushed \in Settings \cup {NoSpec}
    /\ {faceLoaded, reported, opening, repaint, booting} \subseteq BOOLEAN
    /\ genSeen \in Nat \cup {-1}
    /\ fontRun \in {"idle", "converting", "sent", "painting"}
    /\ \A i \in DOMAIN inbox :
          inbox[i].kind \in {"rendered", "opened", "progress", "sectionError", "faceTaken"}
    /\ \A i \in DOMAIN loads : loads[i].book \in Books /\ loads[i].spec \in Settings
    /\ worker.mounted \in Books \cup {NoBook} /\ worker.spine \in Spines \cup {NoSpine}
    /\ worker.spec \in Settings \cup {NoSpec} /\ Len(worker.cache) <= CacheSize

\* A cached frame that a page turn could be answered with (its key carries the
\* book, the settings and the face of now) is what the engine would paint: that
\* page of that chapter, laid out and drawn with the settings and face of now.
\* No change of settings, new face, replaced book or late speculative render
\* leaves another one behind.
CacheIsCurrent ==
    \A i \in DOMAIN worker.cache :
       LET c == worker.cache[i]
       IN <<c.key.gen, c.key.spec, c.key.stamp>> = <<worker.gen, worker.spec, worker.stamp>> =>
             c.frame = [book |-> worker.mounted, spine |-> c.key.spine, page |-> c.key.page,
                        laid |-> Laid(worker.look), look |-> worker.look]

\* The worker's description of the section (currentSpine, currentPages, builtKey,
\* builtFontStamp, sectionEstimates) is true whenever a render would rely on it:
\* if the engine holds a section at all, it is that chapter in that layout.
TrackingIsTrue ==
    LET w == worker
    IN w.loaded /\ ~Stale(w, w.spine) /\ w.section # NoSection =>
          /\ w.section.spine = w.spine /\ w.section.laid = Laid(w.look)
          /\ w.section.avail = w.pages
          /\ w.section.done = (w.est = "complete")

\* applyFont skips the engine only when the engine really has the face, after
\* replacements, uploads and changes of the preset in any order.
AppliedFaceIsTrue ==
    worker.applied # NoFace /\ worker.applied.stamp = worker.stamp =>
       /\ worker.look.font = worker.applied.font
       /\ worker.look.font = "custom" => worker.look.face = worker.custom

\* Once everything in flight has landed, the worker has the book the page shows,
\* at the generation progress reports are matched with.  If the page shows none,
\* neither has one, unless the last file was turned away: then the worker has
\* the book it had or was opening, all of it, or none.
OneBookEverywhere ==
    Settled => IF book # NoBook
               THEN worker.loaded /\ worker.mounted = book /\ genSeen = worker.gen
               ELSE /\ worker.loaded <=> worker.mounted # NoBook
                    /\ picked # NoBook => ~worker.loaded

\* Once everything in flight has landed and no error is on screen, the position
\* the page turns from is the worker's: chapter, pages that exist, and whether
\* the end of the chapter is known.
PositionIsTrue ==
    Settled /\ book # NoBook /\ ~reported =>
       /\ place.spine = worker.spine /\ place.pages = worker.pages
       /\ place.complete = (worker.est = "complete")
       /\ place.page < place.pages
       /\ <<shown.book, shown.spine, shown.page>> = <<book, place.spine, place.page>>

\* A book only ever appears on the page if it is the last one that was asked
\* for, by the reader or to restore a session whose worker died, however many
\* selections are queued in the worker and in whatever order they succeed and fail.
LastChoiceWins == [][book' # book => book' \in {NoBook, picked}]_vars

\* Every file the reader opens is answered: the page shows it or has said that
\* it cannot.
EveryOpenEnds == opening ~> ~opening
=============================================================================
