--------------------------- MODULE WarmExport_proofs ---------------------------
(***************************************************************************)
(* Proofs about the speculative conversion and the export engine           *)
(* (web/app.js, web/ko.worker.js): for any number of spines, settings,     *)
(* openings, faces, preparations and deaths of the engine, everything has  *)
(* its type, a file has one source, and a handler waits only for a warm    *)
(* that is about to end.                                                   *)
(*                                                                         *)
(* Sound says what is true of the worker whenever one of its handlers ends *)
(* or yields.  Each handler is shown to keep it, then each stretch of the  *)
(* page's code, and a step of the system is one or two of these.           *)
(***************************************************************************)
EXTENDS WarmExport, Recursions

(***************************************************************************)
(* Types.                                                                  *)
(***************************************************************************)
Fonts    == {"kopub", "custom"}
Uniform  == {made \in SUBSET Sources : \A x, y \in made : x = y}
SpecType == Settings \cup {NoSpec}
RunType  == [on : BOOLEAN, tok : Nat, key : Keys, snap : Settings, done : 0 .. Spines, made : Uniform]
HandlerType == [cmd : {"load"}] \cup [cmd : {"loadFont"}, id : {0} \cup Preps, face : Faces]
                 \cup [cmd : {"exportBook"}, spec : Settings]
LoadType == [prep : Preps, book : Books]
WorkerType ==
  [alive : BOOLEAN, book : {None} \cup Books, custom : Faces, spec : SpecType, font : Fonts,
   token : Nat, warm : RunType, job : RunType, bytes : Uniform, loads : Seq(LoadType),
   waiting : Seq(HandlerType), woken : Seq(HandlerType)]
MessageType == [re : {"load"}, id : Preps, ok : BOOLEAN]
                 \cup [re : {"loadFont"}, id : {0} \cup Preps, ok : BOOLEAN]
                 \cup [re : {"warm"}, tok : Nat, key : Keys, res : {"ready", "error", "busy", "superseded"}]
                 \cup [re : {"file"}, made : Uniform]

LEMMA NoFileType ==
  NoFile \in Uniform
BY DEF NoFile, Uniform

LEMMA DefaultType ==
  Default \in Settings /\ NoSpec \in SpecType /\ NoKey \in Keys
<1>1. PICK l \in Looks : TRUE
  BY WarmAssumption
<1>2. (CHOOSE x \in Looks : TRUE) \in Looks
  BY <1>1
<1>3. Default \in Settings
  BY <1>2 DEF Default, Settings
<1>4. 0 \in Faces
  BY WarmAssumption DEF Faces
<1> QED
  BY <1>3, <1>4 DEF SpecType, NoKey, Keys, None

LEMMA NoRunType ==
  NoRun \in RunType
<1>1. 0 \in 0 .. Spines
  BY WarmAssumption
<1> QED
  BY <1>1, DefaultType, NoFileType DEF NoRun, RunType

(***************************************************************************)
(* What is true of the worker whenever one of its handlers ends or yields. *)
(***************************************************************************)
\* A conversion under way has a book, and every spine so far is of one source, that of the next.
RunSound(w, run) ==
  /\ run.on => w.book \in Books /\ \A x \in run.made : x = Source(w, run.snap)
  /\ run.done = 0 => run.made = {}

\* Handlers wait only for a warm that was told to stop.
Stops(w) ==
  /\ w.waiting # << >> => w.warm.on /\ w.warm.tok < w.token
  /\ w.warm.on => w.warm.tok <= w.token

\* No load is accepted during an export, and its spines are laid out when nothing else runs or waits.
Alone(w) ==
  /\ w.job.on => w.loads = << >>
  /\ w.job.done > 0 => w.job.on /\ ~w.warm.on /\ w.waiting = << >> /\ w.woken = << >>
  /\ w.woken # << >> => ~w.warm.on

\* An export that waits is behind everything else that waits; a load that waits is in the queue.
InTurn(q, w) == \A n \in DOMAIN q :
  /\ q[n].cmd = "exportBook" => n = Len(q) /\ w.job.on
  /\ q[n].cmd = "load" => w.loads # << >>

Sound(w) ==
  /\ w \in WorkerType /\ RunSound(w, w.warm) /\ RunSound(w, w.job) /\ Stops(w) /\ Alone(w)
  /\ InTurn(w.waiting, w) /\ InTurn(w.woken, w)

\* Nothing that was waiting is about to go on: what the page asks is handled then only.
Calm(w) == Sound(w) /\ w.woken = << >>

LEMMA NoWorkerCalm ==
  Calm(NoWorker) /\ Calm([NoWorker EXCEPT !.alive = TRUE])
<1>1. << >> \in Seq(HandlerType) /\ << >> \in Seq(LoadType) /\ 0 \in Faces /\ FALSE \in BOOLEAN
      /\ TRUE \in BOOLEAN
  BY WarmAssumption DEF Faces
<1>2. NoRun.on = FALSE /\ NoRun.done = 0 /\ NoRun.made = {}
  BY DEF NoRun, NoFile
<1>3. NoWorker \in WorkerType /\ NoWorker.warm = NoRun /\ NoWorker.job = NoRun
      /\ NoWorker.waiting = << >> /\ NoWorker.woken = << >>
  <2>1. NoWorker \in WorkerType
    BY <1>1, DefaultType, NoFileType, NoRunType DEF NoWorker, WorkerType, Fonts
  <2> QED
    BY <2>1 DEF NoWorker
<1> DEFINE v == [NoWorker EXCEPT !.alive = TRUE]
<1>4. v \in WorkerType /\ v.warm = NoRun /\ v.job = NoRun /\ v.waiting = << >> /\ v.woken = << >>
  BY <1>3 DEF WorkerType
<1> HIDE DEF v
<1>5. ASSUME NEW w \in WorkerType, w.warm = NoRun, w.job = NoRun, w.waiting = << >>, w.woken = << >>
      PROVE  Calm(w)
  BY <1>2, <1>5 DEF Calm, Sound, RunSound, Stops, Alone, InTurn
<1> QED
  BY <1>3, <1>4, <1>5 DEF v

-----------------------------------------------------------------------------
(***************************************************************************)
(* The parts of the handlers.                                              *)
(***************************************************************************)
\* What a conversion is made from.
SameSource(v, w) == v.book = w.book /\ v.custom = w.custom

LEMMA SourceKept ==
  ASSUME NEW w, NEW v, SameSource(v, w), NEW run, RunSound(w, run)
  PROVE  RunSound(v, run)
BY DEF SameSource, RunSound, Source

LEMMA SourceType ==
  ASSUME NEW w \in WorkerType, w.book \in Books, NEW snap \in Settings
  PROVE  Source(w, snap) \in Sources
<1>1. snap.font \in Fonts /\ snap.look \in Looks
  BY DEF Settings, Fonts
<1>2. w.custom \in Faces /\ 0 \in Faces
  BY WarmAssumption DEF WorkerType, Faces
<1> QED
  BY <1>1, <1>2 DEF Source, Sources, Fonts

LEMMA NextSpineOK ==
  ASSUME NEW w \in WorkerType, NEW run \in RunType, run.on, RunSound(w, run), run.done < Spines
  PROVE  LET v == NextSpine(w, run)
         IN  v \in RunType /\ v.on /\ v.tok = run.tok /\ v.done > 0 /\ RunSound(w, v)
<1> DEFINE x == Source(w, run.snap)
           made == run.made \cup {x}
           v == NextSpine(w, run)
<1>1. run.snap \in Settings /\ run.done \in Nat /\ Spines \in Nat /\ run.made \in Uniform /\ w.book \in Books
  BY WarmAssumption DEF RunType, RunSound
<1>2. x \in Sources
  BY <1>1, SourceType
<1>3. v = [run EXCEPT !.done = run.done + 1, !.made = made]
  BY DEF NextSpine
<1>4. \A y \in made : y = x
  BY DEF RunSound
<1>5. made \in Uniform
  BY <1>1, <1>2, <1>4 DEF Uniform
<1> HIDE DEF made, v, x
<1>6. run.done + 1 \in 0 .. Spines /\ run.done + 1 > 0
  BY <1>1
<1>7. v \in RunType /\ v.on = run.on /\ v.tok = run.tok /\ v.done = run.done + 1 /\ v.made = made
      /\ v.snap = run.snap
  BY <1>3, <1>5, <1>6 DEF RunType
<1> QED
  BY <1>1, <1>4, <1>6, <1>7 DEF RunSound, v, x

LEMMA AppliedOK ==
  ASSUME NEW w \in WorkerType, NEW spec \in Settings
  PROVE  LET v == Applied(w, spec)
         IN  /\ v \in WorkerType /\ v.alive = w.alive /\ v.book = w.book /\ v.custom = w.custom
             /\ v.token = w.token /\ v.warm = w.warm /\ v.job = w.job /\ v.bytes = w.bytes
             /\ v.loads = w.loads /\ v.waiting = w.waiting /\ v.woken = w.woken
             /\ v.spec = spec
<1>1. CASE w.spec = spec
  BY <1>1 DEF Applied
<1>2. CASE w.spec # spec
  <2>1. Applied(w, spec) = [w EXCEPT !.spec = spec, !.font = spec.font]
    BY <1>2 DEF Applied
  <2>2. spec.font \in Fonts /\ spec \in SpecType
    BY DEF Settings, Fonts, SpecType
  <2> QED
    BY <2>1, <2>2 DEF WorkerType
<1> QED
  BY <1>1, <1>2

\* The handlers answer with messages the page knows.
Talks(r) == r.out \in Seq(MessageType)

LEMMA SaysOK ==
  ASSUME NEW w, NEW m \in MessageType
  PROVE  Says(w, m).w = w /\ Talks(Says(w, m))
BY DEF Says, Talks

LEMMA QuietlyOK ==
  ASSUME NEW w
  PROVE  Quietly(w).w = w /\ Talks(Quietly(w))
BY DEF Quietly, Talks

\* Two workers that differ in nothing that Sound looks at but their types.
Alike(v, w) ==
  /\ v.book = w.book /\ v.custom = w.custom /\ v.warm = w.warm /\ v.job = w.job
  /\ v.loads = w.loads /\ v.waiting = w.waiting /\ v.woken = w.woken

LEMMA AlikeSound ==
  ASSUME NEW w, NEW v \in WorkerType, Sound(w), Alike(v, w), v.token >= w.token
  PROVE  Sound(v) /\ (Calm(w) => Calm(v))
<1>1. RunSound(v, v.warm) /\ RunSound(v, v.job)
  BY DEF Sound, Alike, RunSound, Source
<1>2. w.token \in Nat /\ v.token \in Nat /\ w.warm.tok \in Nat
  BY DEF Sound, WorkerType, RunType
<1>3. Stops(v)
  BY <1>2 DEF Sound, Alike, Stops
<1>4. Alone(v) /\ InTurn(v.waiting, v) /\ InTurn(v.woken, v)
  BY DEF Sound, Alike, Alone, InTurn
<1> QED
  BY <1>1, <1>3, <1>4 DEF Sound, Calm, Alike

\* Nothing is under way and nothing waits: the book may go.
LEMMA BeginLoadOK ==
  ASSUME NEW w, Sound(w), ~w.warm.on, ~w.job.on
  PROVE  Sound(BeginLoad(w)) /\ BeginLoad(w).woken = w.woken
<1> DEFINE v == [w EXCEPT !.bytes = NoFile, !.book = None]
<1>1. v \in WorkerType
  BY NoFileType DEF Sound, WorkerType
<1>2. w \in WorkerType /\ v.warm = w.warm /\ v.job = w.job /\ v.loads = w.loads /\ v.waiting = w.waiting /\ v.woken = w.woken
      /\ v.token = w.token
  BY DEF Sound, WorkerType
<1> HIDE DEF v
<1>3. RunSound(v, v.warm) /\ RunSound(v, v.job) /\ Stops(v) /\ Alone(v)
      /\ InTurn(v.waiting, v) /\ InTurn(v.woken, v)
  BY <1>2 DEF Sound, RunSound, Stops, Alone, InTurn
<1> QED
  BY <1>1, <1>2, <1>3 DEF Sound, BeginLoad, v

\* A handler may wait for a warm that is under way: it comes in turn.
LEMMA WaitOK ==
  ASSUME NEW w, Calm(w), w.warm.on, NEW h \in HandlerType,
         h.cmd = "load" => w.loads # << >>,
         h.cmd # "exportBook", ~w.job.on
  PROVE  Calm(Wait(w, h))
<1> DEFINE v == [w EXCEPT !.token = w.token + 1, !.waiting = Append(w.waiting, h)]
<1>0. w \in WorkerType /\ w.token \in Nat /\ w.waiting \in Seq(HandlerType) /\ w.warm.tok \in Nat
  BY DEF Calm, Sound, WorkerType, RunType
<1> DEFINE q == Append(w.waiting, h)
<1>a. q \in Seq(HandlerType) /\ w.token + 1 \in Nat
  BY <1>0
<1>b. v = [w EXCEPT !.token = w.token + 1, !.waiting = q]
  OBVIOUS
<1> HIDE DEF q
<1>1. v \in WorkerType
  BY <1>0, <1>a, <1>b DEF WorkerType
<1> USE DEF q
<1>2. v.warm = w.warm /\ v.job = w.job /\ v.loads = w.loads /\ v.waiting = Append(w.waiting, h)
      /\ v.woken = w.woken /\ v.token = w.token + 1 /\ v.book = w.book /\ v.custom = w.custom
  BY <1>0 DEF WorkerType
<1>3. Wait(w, h) = v
  BY DEF Wait
<1> HIDE DEF v
<1>4. RunSound(v, v.warm) /\ RunSound(v, v.job)
  BY <1>2 DEF Calm, Sound, RunSound, Source
<1>5. Stops(v) /\ Alone(v)
  BY <1>0, <1>2 DEF Calm, Sound, Stops, Alone
<1>6. InTurn(v.waiting, v)
  <2>1. SUFFICES ASSUME NEW n \in DOMAIN v.waiting
                 PROVE  /\ v.waiting[n].cmd = "exportBook" => n = Len(v.waiting) /\ v.job.on
                        /\ v.waiting[n].cmd = "load" => v.loads # << >>
    BY DEF InTurn
  <2>2. CASE n \in DOMAIN w.waiting
    <3>1. v.waiting[n] = w.waiting[n]
      BY <1>0, <1>2, <2>2
    <3> QED
      BY <1>2, <2>2, <3>1 DEF Calm, Sound, InTurn
  <2>3. CASE n \notin DOMAIN w.waiting
    <3>1. v.waiting[n] = h
      BY <1>0, <1>2, <2>3
    <3> QED
      BY <1>2, <3>1
  <2> QED
    BY <2>2, <2>3
<1>7. InTurn(v.woken, v) /\ v.woken = << >>
  BY <1>2 DEF Calm, InTurn
<1> QED
  BY <1>1, <1>3, <1>4, <1>5, <1>6, <1>7 DEF Calm, Sound

\* exportBook waits last: while it does, no other handler is let in.
LEMMA ExportWaitOK ==
  ASSUME NEW w, Calm(w), w.warm.on, ~w.job.on, w.loads = << >>, w.book \in Books, NEW spec \in Settings
  PROVE  Calm([Wait(w, [cmd |-> "exportBook", spec |-> spec]) EXCEPT !.job = [NoRun EXCEPT !.on = TRUE]])
<1> DEFINE h == [cmd |-> "exportBook", spec |-> spec]
           job == [NoRun EXCEPT !.on = TRUE]
           v == [w EXCEPT !.token = w.token + 1, !.waiting = Append(w.waiting, h), !.job = job]
<1>0. w \in WorkerType /\ w.token \in Nat /\ w.waiting \in Seq(HandlerType) /\ w.warm.tok \in Nat
  BY DEF Calm, Sound, WorkerType, RunType
<1>1. h \in HandlerType /\ h.cmd = "exportBook"
  BY DEF HandlerType
<1>2. job \in RunType /\ job.on /\ job.done = 0 /\ job.made = {}
  <2>1. NoRun.done = 0 /\ NoRun.made = {}
    BY DEF NoRun, NoFile
  <2> QED
    BY <2>1, NoRunType DEF RunType
<1> HIDE DEF h, job
<1> DEFINE q == Append(w.waiting, h)
<1>a. q \in Seq(HandlerType) /\ w.token + 1 \in Nat
  BY <1>0, <1>1
<1>b. v = [w EXCEPT !.token = w.token + 1, !.waiting = q, !.job = job]
  OBVIOUS
<1> HIDE DEF q
<1>3. v \in WorkerType
  BY <1>0, <1>2, <1>a, <1>b DEF WorkerType
<1> USE DEF q
<1>4. v.warm = w.warm /\ v.job = job /\ v.loads = w.loads /\ v.waiting = Append(w.waiting, h)
      /\ v.woken = w.woken /\ v.token = w.token + 1 /\ v.book = w.book /\ v.custom = w.custom
  BY <1>0 DEF WorkerType
<1>5. [Wait(w, h) EXCEPT !.job = job] = v
  BY <1>0 DEF Wait, WorkerType
<1> HIDE DEF v
<1>6. RunSound(v, v.warm) /\ RunSound(v, v.job)
  BY <1>2, <1>4 DEF Calm, Sound, RunSound, Source
<1>7. Stops(v) /\ Alone(v)
  BY <1>0, <1>2, <1>4 DEF Calm, Sound, Stops, Alone
<1>8. InTurn(v.waiting, v)
  <2>1. SUFFICES ASSUME NEW n \in DOMAIN v.waiting
                 PROVE  /\ v.waiting[n].cmd = "exportBook" => n = Len(v.waiting) /\ v.job.on
                        /\ v.waiting[n].cmd = "load" => v.loads # << >>
    BY DEF InTurn
  <2>2. CASE n \in DOMAIN w.waiting
    <3>1. v.waiting[n] = w.waiting[n]
      BY <1>0, <1>4, <2>2
    <3> QED
      BY <1>4, <2>2, <3>1 DEF Calm, Sound, InTurn
  <2>3. CASE n \notin DOMAIN w.waiting
    <3>1. v.waiting[n] = h /\ n = Len(v.waiting)
      BY <1>0, <1>4, <2>3
    <3> QED
      BY <1>1, <1>2, <1>4, <3>1
  <2> QED
    BY <2>2, <2>3
<1>9. InTurn(v.woken, v) /\ v.woken = << >>
  BY <1>4 DEF Calm, InTurn
<1> QED
  BY <1>3, <1>5, <1>6, <1>7, <1>8, <1>9 DEF Calm, Sound, h, job

-----------------------------------------------------------------------------
(***************************************************************************)
(* The handlers.                                                           *)
(***************************************************************************)
Fine(r)   == Calm(r.w) /\ Talks(r)
Sounds(r) == Sound(r.w) /\ Talks(r)

LEMMA HandleLoadOK ==
  ASSUME NEW w, Calm(w), NEW i \in Preps, NEW b \in Books
  PROVE  Fine(HandleLoad(w, i, b))
<1> DEFINE loads == Append(w.loads, [prep |-> i, book |-> b])
           q == [w EXCEPT !.loads = loads]
<1>0. w \in WorkerType /\ Sound(w) /\ w.woken = << >>
  BY DEF Calm, Sound
<1>1. CASE w.job.on
  <2>1. LoadReply(i, FALSE) \in MessageType
    BY DEF LoadReply, MessageType
  <2> QED
    BY <1>1, <2>1, SaysOK DEF HandleLoad, Fine
<1>2. CASE ~w.job.on
  <2>1. loads \in Seq(LoadType) /\ loads # << >>
    BY <1>0 DEF WorkerType, LoadType
  <2>2. q \in WorkerType
    <3> HIDE DEF loads
    <3> QED
      BY <1>0, <2>1 DEF WorkerType
  <2>3. /\ q.book = w.book /\ q.custom = w.custom /\ q.warm = w.warm /\ q.job = w.job /\ q.token = w.token
        /\ q.loads = loads /\ q.waiting = w.waiting /\ q.woken = w.woken
    BY <1>0 DEF WorkerType
  <2>4. HandleLoad(w, i, b) = Quietly(IF Replacing(w) THEN q ELSE StartLoad(q))
    BY <1>2 DEF HandleLoad
  <2> HIDE DEF q, loads
  <2>5. RunSound(q, q.warm) /\ RunSound(q, q.job)
    BY <1>0, <2>3 DEF Sound, RunSound, Source
  <2>6. Stops(q) /\ Alone(q) /\ InTurn(q.waiting, q) /\ InTurn(q.woken, q)
    BY <1>0, <1>2, <2>1, <2>3 DEF Sound, Stops, Alone, InTurn
  <2>7. Calm(q)
    BY <1>0, <2>2, <2>3, <2>5, <2>6 DEF Sound, Calm
  <2>8. CASE q.warm.on
    <3>1. [cmd |-> "load"] \in HandlerType
      BY DEF HandlerType
    <3>2. Calm(Wait(q, [cmd |-> "load"]))
      BY <1>2, <2>1, <2>3, <2>7, <2>8, <3>1, WaitOK
    <3>3. StartLoad(q) = Wait(q, [cmd |-> "load"])
      BY <2>8 DEF StartLoad
    <3> QED
      BY <2>4, <2>7, <3>2, <3>3, QuietlyOK DEF Fine
  <2>9. CASE ~q.warm.on
    <3>1. Calm(BeginLoad(q))
      BY <1>2, <2>3, <2>7, <2>9, BeginLoadOK DEF Calm
    <3>3. StartLoad(q) = BeginLoad(q)
      BY <2>9 DEF StartLoad
    <3> QED
      BY <2>4, <2>7, <3>1, <3>3, QuietlyOK DEF Fine
  <2> QED
    BY <2>8, <2>9
<1> QED
  BY <1>1, <1>2

\* A face is taken only when no spine has been laid out with the one before.
LEMMA TakeFontOK ==
  ASSUME NEW w, Sound(w), ~w.warm.on, w.job.done = 0, NEW i \in {0} \cup Preps, NEW f \in Faces,
         NEW ok \in BOOLEAN
  PROVE  LET r == TakeFont(w, i, f, ok) IN Sounds(r) /\ r.w.woken = w.woken
<1> DEFINE v == [w EXCEPT !.custom = f, !.font = "custom"]
<1>0. w \in WorkerType
  BY DEF Sound
<1>1. v \in WorkerType
  BY <1>0 DEF WorkerType, Fonts
<1>2. /\ v.book = w.book /\ v.warm = w.warm /\ v.job = w.job /\ v.token = w.token
      /\ v.loads = w.loads /\ v.waiting = w.waiting /\ v.woken = w.woken
  BY <1>0 DEF WorkerType
<1>3. TakeFont(w, i, f, ok) = Says(IF ok THEN v ELSE w, FontReply(i, ok))
  BY DEF TakeFont
<1> HIDE DEF v
<1>4. RunSound(v, v.warm) /\ RunSound(v, v.job)
  BY <1>2 DEF Sound, RunSound
<1>5. Stops(v) /\ Alone(v) /\ InTurn(v.waiting, v) /\ InTurn(v.woken, v)
  BY <1>2 DEF Sound, Stops, Alone, InTurn
<1>6. Sound(v)
  BY <1>1, <1>4, <1>5 DEF Sound
<1>7. FontReply(i, ok) \in MessageType
  BY DEF FontReply, MessageType
<1> QED
  BY <1>2, <1>3, <1>6, <1>7, SaysOK DEF Sounds

LEMMA HandleFontOK ==
  ASSUME NEW w, Calm(w), NEW i \in {0} \cup Preps, NEW f \in Faces, NEW ok \in BOOLEAN
  PROVE  Fine(HandleFont(w, i, f, ok))
<1>0. FontReply(i, FALSE) \in MessageType
  BY DEF FontReply, MessageType
<1>1. CASE Replacing(w) \/ w.job.on
  BY <1>0, <1>1, SaysOK DEF HandleFont, Fine
<1>2. CASE ~Replacing(w) /\ ~w.job.on /\ w.warm.on
  <2>1. [cmd |-> "loadFont", id |-> i, face |-> f] \in HandlerType
    BY DEF HandlerType
  <2>2. Calm(Wait(w, [cmd |-> "loadFont", id |-> i, face |-> f]))
    BY <1>2, <2>1, WaitOK
  <2>3. HandleFont(w, i, f, ok) = Quietly(Wait(w, [cmd |-> "loadFont", id |-> i, face |-> f]))
    BY <1>2 DEF HandleFont
  <2> QED
    BY <2>2, <2>3, QuietlyOK DEF Fine
<1>3. CASE ~Replacing(w) /\ ~w.job.on /\ ~w.warm.on
  <2>1. w.job.done = 0
    <3>1. w.job.done \in Nat
      BY DEF Calm, Sound, WorkerType, RunType
    <3> QED
      BY <1>3, <3>1 DEF Calm, Sound, Alone
  <2>2. Sounds(TakeFont(w, i, f, ok)) /\ TakeFont(w, i, f, ok).w.woken = << >>
    BY <1>3, <2>1, TakeFontOK DEF Calm
  <2> QED
    BY <1>3, <2>2 DEF HandleFont, Fine, Sounds, Calm
<1> QED
  BY <1>1, <1>2, <1>3

LEMMA HandleWarmCancelOK ==
  ASSUME NEW w, Calm(w)
  PROVE  Calm(HandleWarmCancel(w)) /\ HandleWarmCancel(w).alive = w.alive
<1> DEFINE v == [w EXCEPT !.token = w.token + 1, !.bytes = NoFile]
<1>1. w \in WorkerType /\ w.token + 1 \in Nat /\ w.token + 1 >= w.token
  BY DEF Calm, Sound, WorkerType
<1>2. v \in WorkerType
  BY <1>1, NoFileType DEF WorkerType
<1>3. Alike(v, w) /\ v.token = w.token + 1 /\ v.alive = w.alive
  BY <1>1 DEF WorkerType, Alike
<1>4. HandleWarmCancel(w) = IF Replacing(w) THEN w ELSE v
  BY DEF HandleWarmCancel
<1> HIDE DEF v
<1> QED
  BY <1>1, <1>2, <1>3, <1>4, AlikeSound DEF Calm

LEMMA HandleFetchOK ==
  ASSUME NEW w, Calm(w)
  PROVE  Fine(HandleFetch(w))
<1> DEFINE v == [w EXCEPT !.bytes = NoFile]
<1>1. w \in WorkerType /\ w.token \in Nat /\ w.bytes \in Uniform
  BY DEF Calm, Sound, WorkerType
<1>2. v \in WorkerType
  BY <1>1, NoFileType DEF WorkerType
<1>3. Alike(v, w) /\ v.token = w.token
  BY <1>1 DEF WorkerType, Alike
<1>4. HandleFetch(w) = IF Replacing(w) THEN Says(w, FileReply(NoFile)) ELSE Says(v, FileReply(w.bytes))
  BY DEF HandleFetch
<1> HIDE DEF v
<1>5. Calm(v)
  BY <1>1, <1>2, <1>3, AlikeSound DEF Calm
<1>6. FileReply(NoFile) \in MessageType /\ FileReply(w.bytes) \in MessageType
  BY <1>1, NoFileType DEF FileReply, MessageType
<1> QED
  BY <1>4, <1>5, <1>6, SaysOK DEF Fine

-----------------------------------------------------------------------------
\* A conversion starts with the settings of the engine and without a spine.
LEMMA RunOK ==
  ASSUME NEW w \in WorkerType, w.book \in Books, w.spec \in Settings, NEW m, m.tok \in Nat, m.key \in Keys
  PROVE  LET v == NextSpine(w, Run(w, m))
         IN  v \in RunType /\ v.on /\ v.tok = m.tok /\ v.done > 0 /\ RunSound(w, v)
<1> DEFINE snap == [font |-> w.font, look |-> w.spec.look]
           run == [NoRun EXCEPT !.on = TRUE, !.tok = m.tok, !.key = m.key, !.snap = snap]
<1>1. snap \in Settings
  BY DEF Settings, WorkerType, Fonts
<1>2. run = Run(w, m)
  BY DEF Run
<1>3. NoRun.done = 0 /\ NoRun.made = {}
  BY DEF NoRun, NoFile
<1> HIDE DEF snap
<1>4. run \in RunType /\ run.on /\ run.tok = m.tok /\ run.done = 0 /\ run.made = {}
  BY <1>1, <1>3, NoRunType DEF RunType
<1> HIDE DEF run
<1>5. RunSound(w, run) /\ run.done < Spines
  BY <1>4, WarmAssumption DEF RunSound
<1> QED
  BY <1>2, <1>4, <1>5, NextSpineOK

LEMMA WarmBegins ==
  ASSUME NEW w, Calm(w), ~w.warm.on, ~w.job.on, w.book \in Books, w.spec \in Settings,
         NEW m, m.tok = w.token, m.key \in Keys
  PROVE  Calm([w EXCEPT !.warm = NextSpine(w, Run(w, m))])
<1> DEFINE run == NextSpine(w, Run(w, m))
           v == [w EXCEPT !.warm = run]
<1>0. w \in WorkerType /\ w.token \in Nat /\ w.job.done \in Nat
  BY DEF Calm, Sound, WorkerType, RunType
<1>1. run \in RunType /\ run.on /\ run.tok = w.token /\ run.done > 0 /\ RunSound(w, run)
  BY <1>0, RunOK
<1> HIDE DEF run
<1>2. v \in WorkerType
  BY <1>0, <1>1 DEF WorkerType
<1>3. /\ v.book = w.book /\ v.custom = w.custom /\ v.warm = run /\ v.job = w.job /\ v.token = w.token
      /\ v.loads = w.loads /\ v.waiting = w.waiting /\ v.woken = w.woken
  BY <1>0 DEF WorkerType
<1> HIDE DEF v
<1>4. RunSound(v, v.warm) /\ RunSound(v, v.job)
  BY <1>1, <1>3, SourceKept DEF Calm, Sound, SameSource
<1>5. Stops(v) /\ Alone(v) /\ InTurn(v.waiting, v) /\ InTurn(v.woken, v)
  BY <1>0, <1>1, <1>3 DEF Calm, Sound, Stops, Alone, InTurn
<1> QED
  BY <1>2, <1>3, <1>4, <1>5 DEF Calm, Sound, v, run

LEMMA HandleWarmOK ==
  ASSUME NEW w, Calm(w), NEW ok \in BOOLEAN,
         NEW m \in [tok : Nat, key : Keys, spec : Settings]
  PROVE  Fine(HandleWarm(w, m, ok))
<1> DEFINE taken == [w EXCEPT !.token = m.tok]
           b == [taken EXCEPT !.bytes = NoFile]
           a == Applied(b, m.spec)
<1>0. w \in WorkerType /\ w.token \in Nat /\ m.tok \in Nat /\ m.key \in Keys /\ m.spec \in Settings
  BY DEF Calm, Sound, WorkerType
<1>1. WarmReply(m, "error") \in MessageType /\ WarmReply(m, "superseded") \in MessageType
      /\ WarmReply(m, "busy") \in MessageType
  BY <1>0 DEF WarmReply, MessageType
<1>2. CASE Replacing(w) \/ w.book = None
  BY <1>1, <1>2, SaysOK DEF HandleWarm, Fine
<1>3. CASE ~(Replacing(w) \/ w.book = None) /\ m.tok < w.token
  BY <1>1, <1>3, SaysOK DEF HandleWarm, Fine
<1>4. CASE ~(Replacing(w) \/ w.book = None) /\ ~(m.tok < w.token)
  <2>1. taken \in WorkerType /\ Alike(taken, w) /\ taken.token = m.tok
    BY <1>0 DEF WorkerType, Alike
  <2>2. b \in WorkerType /\ Alike(b, w) /\ b.token = m.tok
    <3> HIDE DEF taken
    <3> QED
      BY <2>1, NoFileType DEF WorkerType, Alike
  <2> HIDE DEF taken, b
  <2>3. a \in WorkerType /\ Alike(a, w) /\ a.token = m.tok /\ a.spec = m.spec
    BY <1>0, <2>2, AppliedOK DEF Alike
  <2>4. Calm(taken) /\ Calm(b) /\ Calm(a)
    BY <1>0, <1>4, <2>1, <2>2, <2>3, AlikeSound DEF Calm
  <2> DEFINE r == [a EXCEPT !.warm = NextSpine(a, Run(a, m))]
  <2>5. HandleWarm(w, m, ok) =
          IF w.warm.on THEN Says(taken, WarmReply(m, "busy"))
          ELSE IF ~CanApply(w, m.spec) THEN Says(b, WarmReply(m, "error"))
          ELSE IF w.job.on \/ ~ok THEN Says(a, WarmReply(m, "error"))
          ELSE Quietly(r)
    BY <1>4 DEF HandleWarm, taken, b
  <2> HIDE DEF a
  <2>6. CASE w.warm.on
    BY <1>1, <2>4, <2>5, <2>6, SaysOK DEF Fine
  <2>7. CASE ~w.warm.on /\ ~CanApply(w, m.spec)
    BY <1>1, <2>4, <2>5, <2>7, SaysOK DEF Fine
  <2>8. CASE ~w.warm.on /\ CanApply(w, m.spec) /\ (w.job.on \/ ~ok)
    BY <1>1, <2>4, <2>5, <2>8, SaysOK DEF Fine
  <2>9. CASE ~w.warm.on /\ CanApply(w, m.spec) /\ ~(w.job.on \/ ~ok)
    <3>1. a.book \in Books
      BY <1>0, <1>4, <2>3 DEF Alike, WorkerType
    <3>2. ~a.warm.on /\ ~a.job.on /\ a.spec \in Settings
      BY <1>0, <2>3, <2>9 DEF Alike
    <3>3. Calm(r)
      BY <1>0, <2>3, <2>4, <3>1, <3>2, WarmBegins
    <3>4. HandleWarm(w, m, ok) = Quietly(r)
      BY <2>5, <2>9
    <3> HIDE DEF r
    <3> QED
      BY <3>3, <3>4, QuietlyOK DEF Fine
  <2> QED
    BY <2>6, <2>7, <2>8, <2>9
<1> QED
  BY <1>2, <1>3, <1>4

-----------------------------------------------------------------------------
\* An export that goes on runs alone.
LEMMA JobOK ==
  ASSUME NEW w, Calm(w), ~w.warm.on, w.waiting = << >>, NEW job \in RunType, RunSound(w, job),
         job.on => w.loads = << >>, job.done > 0 => job.on
  PROVE  Calm([w EXCEPT !.job = job])
<1> DEFINE v == [w EXCEPT !.job = job]
<1>0. w \in WorkerType
  BY DEF Calm, Sound
<1>1. v \in WorkerType
  BY <1>0 DEF WorkerType
<1>2. /\ v.book = w.book /\ v.custom = w.custom /\ v.warm = w.warm /\ v.job = job /\ v.token = w.token
      /\ v.loads = w.loads /\ v.waiting = w.waiting /\ v.woken = w.woken
  BY <1>0 DEF WorkerType
<1> HIDE DEF v
<1>3. RunSound(v, v.warm) /\ RunSound(v, v.job)
  BY <1>2, SourceKept DEF Calm, Sound, SameSource
<1>4. Stops(v) /\ Alone(v) /\ InTurn(v.waiting, v) /\ InTurn(v.woken, v) /\ v.woken = << >>
  BY <1>2 DEF Calm, Sound, Stops, Alone, InTurn
<1> QED
  BY <1>1, <1>3, <1>4 DEF Calm, Sound, v

LEMMA ExportFailsOK ==
  ASSUME NEW w, Calm(w), ~w.warm.on, w.waiting = << >>
  PROVE  Fine(ExportFails(w))
<1>1. FileReply(NoFile) \in MessageType
  BY NoFileType DEF FileReply, MessageType
<1>2. NoRun.on = FALSE /\ NoRun.done = 0 /\ NoRun.made = {}
  BY DEF NoRun, NoFile
<1>3. Calm([w EXCEPT !.job = NoRun])
  BY <1>2, NoRunType, JobOK DEF RunSound
<1> QED
  BY <1>1, <1>3, SaysOK DEF ExportFails, Fine

LEMMA BeginExportOK ==
  ASSUME NEW w, Calm(w), ~w.warm.on, w.waiting = << >>, w.loads = << >>, w.book \in Books,
         w.job.done = 0, NEW spec \in Settings, NEW ok \in BOOLEAN
  PROVE  Fine(BeginExport(w, spec, ok))
<1> DEFINE a == Applied(w, spec)
           run == NextSpine(a, Run(a, NoRun))
<1>0. w \in WorkerType /\ w.token \in Nat
  BY DEF Calm, Sound, WorkerType
<1>1. a \in WorkerType /\ Alike(a, w) /\ a.token = w.token /\ a.spec = spec
  BY <1>0, AppliedOK DEF Alike
<1>2. Calm(a)
  BY <1>0, <1>1, AlikeSound DEF Calm
<1>3. BeginExport(w, spec, ok) =
        IF ~CanApply(w, spec) THEN ExportFails(w) ELSE IF ~ok THEN ExportFails(a)
        ELSE Quietly([a EXCEPT !.job = run])
  BY DEF BeginExport
<1> HIDE DEF a
<1>4. Fine(ExportFails(w)) /\ Fine(ExportFails(a))
  BY <1>1, <1>2, ExportFailsOK DEF Alike
<1>5. NoRun.tok \in Nat /\ NoRun.key \in Keys
  BY NoRunType DEF RunType
<1>6. run \in RunType /\ run.on /\ run.done > 0 /\ RunSound(a, run)
  BY <1>1, <1>5, RunOK DEF Alike
<1> HIDE DEF run
<1>7. Calm([a EXCEPT !.job = run])
  BY <1>1, <1>2, <1>6, JobOK DEF Alike
<1>8. Fine(Quietly([a EXCEPT !.job = run]))
  BY <1>7, QuietlyOK DEF Fine
<1> QED
  BY <1>3, <1>4, <1>8

LEMMA HandleExportOK ==
  ASSUME NEW w, Calm(w), NEW spec \in Settings, NEW ok \in BOOLEAN
  PROVE  Fine(HandleExport(w, spec, ok))
<1>0. w \in WorkerType /\ FileReply(NoFile) \in MessageType
  BY NoFileType DEF FileReply, MessageType, Calm, Sound
<1>1. CASE Replacing(w) \/ w.book = None \/ w.job.on
  BY <1>0, <1>1, SaysOK DEF HandleExport, Fine
<1>2. CASE ~(Replacing(w) \/ w.book = None \/ w.job.on)
  <2>1. w.book \in Books /\ w.loads = << >>
    BY <1>0, <1>2 DEF WorkerType, Replacing
  <2>2. CASE w.warm.on
    <3> DEFINE v == [Wait(w, [cmd |-> "exportBook", spec |-> spec]) EXCEPT !.job = [NoRun EXCEPT !.on = TRUE]]
    <3>1. Calm(v)
      BY <1>2, <2>1, <2>2, ExportWaitOK
    <3>2. HandleExport(w, spec, ok) = Quietly(v)
      BY <1>2, <2>2 DEF HandleExport
    <3> HIDE DEF v
    <3> QED
      BY <3>1, <3>2, QuietlyOK DEF Fine
  <2>3. CASE ~w.warm.on
    <3>1. w.job.done \in Nat
      BY <1>0 DEF WorkerType, RunType
    <3>2. w.job.done = 0 /\ w.waiting = << >>
      BY <1>2, <2>3, <3>1 DEF Calm, Sound, Alone, Stops
    <3>3. HandleExport(w, spec, ok) = BeginExport(w, spec, ok)
      BY <1>2, <2>3 DEF HandleExport
    <3> QED
      BY <2>1, <2>3, <3>2, <3>3, BeginExportOK
  <2> QED
    BY <2>2, <2>3
<1> QED
  BY <1>1, <1>2

-----------------------------------------------------------------------------
(***************************************************************************)
(* The steps of the worker.                                                *)
(***************************************************************************)
LEMMA TurnKept ==
  ASSUME NEW w, NEW q \in Seq(HandlerType), InTurn(q, w), q # << >>
  PROVE  Tail(q) \in Seq(HandlerType) /\ Head(q) \in HandlerType /\ InTurn(Tail(q), w)
         /\ (Head(q).cmd = "exportBook" => Tail(q) = << >> /\ w.job.on)
         /\ (Head(q).cmd = "load" => w.loads # << >>)
<1> DEFINE t == Tail(q)
           c == Len(q)
<1>1. t \in Seq(HandlerType) /\ Head(q) \in HandlerType /\ Head(q) = q[1] /\ c \in Nat /\ c >= 1
  OBVIOUS
<1>2. Len(t) = c - 1 /\ DOMAIN t = 1 .. c - 1 /\ DOMAIN q = 1 .. c
  OBVIOUS
<1>3. \A n \in 1 .. c - 1 : t[n] = q[n + 1]
  OBVIOUS
<1>4. c = 1 => t = << >>
  BY <1>1, <1>2
<1> HIDE DEF t
<1>5. \A n \in 1 .. c : /\ q[n].cmd = "exportBook" => n = c /\ w.job.on
                        /\ q[n].cmd = "load" => w.loads # << >>
  BY <1>2 DEF InTurn
<1> HIDE DEF c
<1>6. \A n \in 1 .. c - 1 : /\ t[n].cmd = "exportBook" => n = c - 1 /\ w.job.on
                            /\ t[n].cmd = "load" => w.loads # << >>
  <2>1. TAKE n \in 1 .. c - 1
  <2>2. n \in Int /\ n + 1 \in 1 .. c
    BY <1>1
  <2>3. t[n] = q[n + 1]
    BY <1>3
  <2>4. n + 1 = c => n = c - 1
    BY <1>1, <2>2
  <2> QED
    BY <1>5, <2>2, <2>3, <2>4
<1>7. InTurn(t, w)
  BY <1>2, <1>6 DEF InTurn
<1>8. 1 \in 1 .. c
  BY <1>1
<1>9. /\ q[1].cmd = "exportBook" => c = 1 /\ w.job.on
      /\ q[1].cmd = "load" => w.loads # << >>
  BY <1>5, <1>8
<1> QED
  BY <1>1, <1>4, <1>7, <1>9 DEF t

\* A handler that goes on finds no warm, and an export behind it at most.
LEMMA ResumeOK ==
  ASSUME NEW w, Sound(w), w.woken # << >>, NEW ok \in BOOLEAN
  PROVE  Sounds(Resume([w EXCEPT !.woken = Tail(w.woken)], Head(w.woken), ok))
<1> DEFINE rest == Tail(w.woken)
           h == Head(w.woken)
           v == [w EXCEPT !.woken = rest]
           d == [v EXCEPT !.bytes = NoFile]
<1>0. w \in WorkerType /\ w.woken \in Seq(HandlerType)
  BY DEF Sound, WorkerType
<1>1. rest \in Seq(HandlerType) /\ h \in HandlerType /\ InTurn(rest, w)
      /\ (h.cmd = "exportBook" => rest = << >> /\ w.job.on)
      /\ (h.cmd = "load" => w.loads # << >>)
  BY <1>0, TurnKept DEF Sound
<1>2. d \in WorkerType
  BY <1>0, <1>1, NoFileType DEF WorkerType
<1>3. /\ d.book = w.book /\ d.custom = w.custom /\ d.warm = w.warm /\ d.job = w.job /\ d.token = w.token
      /\ d.loads = w.loads /\ d.waiting = w.waiting /\ d.woken = rest
  BY <1>0 DEF WorkerType
<1>4. Resume(v, h, ok) =
        CASE h.cmd = "load" -> Quietly(BeginLoad(d))
          [] h.cmd = "loadFont" -> TakeFont(d, h.id, h.face, ok)
          [] h.cmd = "exportBook" -> BeginExport(d, h.spec, ok)
  BY DEF Resume
<1> HIDE DEF d, v, h, rest
<1>5. w.job.done \in Nat /\ ~w.warm.on /\ w.job.done = 0 /\ w.waiting = << >>
  BY <1>0 DEF Sound, Alone, Stops, WorkerType, RunType
<1>6. RunSound(d, d.warm) /\ RunSound(d, d.job)
  BY <1>3 DEF Sound, RunSound, Source
<1>7. Stops(d) /\ Alone(d) /\ InTurn(d.waiting, d) /\ InTurn(d.woken, d)
  BY <1>1, <1>3, <1>5 DEF Sound, Stops, Alone, InTurn
<1>8. Sound(d)
  BY <1>2, <1>6, <1>7 DEF Sound
<1>9. CASE h.cmd = "load"
  <2>1. ~d.job.on
    BY <1>1, <1>3, <1>9 DEF Sound, Alone
  <2>2. Sound(BeginLoad(d))
    BY <1>3, <1>5, <1>8, <2>1, BeginLoadOK
  <2>3. Resume(v, h, ok) = Quietly(BeginLoad(d))
    BY <1>4, <1>9
  <2> QED
    BY <2>2, <2>3, QuietlyOK DEF Sounds, v, h, rest
<1>10. CASE h.cmd = "loadFont"
  <2>1. h.id \in {0} \cup Preps /\ h.face \in Faces
    BY <1>1, <1>10 DEF HandlerType
  <2>2. Sounds(TakeFont(d, h.id, h.face, ok))
    BY <1>3, <1>5, <1>8, <2>1, TakeFontOK
  <2>3. Resume(v, h, ok) = TakeFont(d, h.id, h.face, ok)
    BY <1>4, <1>10
  <2> QED
    BY <2>2, <2>3 DEF v, h, rest
<1>11. CASE h.cmd = "exportBook"
  <2>1. h.spec \in Settings
    BY <1>1, <1>11 DEF HandlerType
  <2>2. Calm(d) /\ d.book \in Books /\ d.loads = << >>
    BY <1>1, <1>3, <1>8, <1>11 DEF Calm, Sound, RunSound, Alone
  <2>3. Fine(BeginExport(d, h.spec, ok))
    BY <1>3, <1>5, <2>1, <2>2, BeginExportOK
  <2>4. Resume(v, h, ok) = BeginExport(d, h.spec, ok)
    BY <1>4, <1>11
  <2> QED
    BY <2>3, <2>4 DEF Fine, Calm, Sounds, v, h, rest
<1> QED
  BY <1>1, <1>9, <1>10, <1>11 DEF HandlerType

\* The end of a warm lets those who wait go on.
LEMMA EndWarmOK ==
  ASSUME NEW w, Calm(w), w.warm.on
  PROVE  Sound(EndWarm(w))
<1> DEFINE v == [w EXCEPT !.warm = NoRun, !.woken = w.waiting, !.waiting = << >>]
<1>0. w \in WorkerType
  BY DEF Calm, Sound
<1>1. v \in WorkerType
  <2>1. << >> \in Seq(HandlerType) /\ w.waiting \in Seq(HandlerType)
    BY <1>0 DEF WorkerType
  <2> QED
    BY <1>0, <2>1, NoRunType DEF WorkerType
<1>2. /\ v.book = w.book /\ v.custom = w.custom /\ v.warm = NoRun /\ v.job = w.job /\ v.token = w.token
      /\ v.loads = w.loads /\ v.waiting = << >> /\ v.woken = w.waiting
  BY <1>0 DEF WorkerType
<1>3. EndWarm(w) = v
  BY DEF EndWarm
<1>4. NoRun.on = FALSE /\ NoRun.done = 0 /\ NoRun.made = {}
  BY DEF NoRun, NoFile
<1>5. w.job.done \in Nat
  BY <1>0 DEF WorkerType, RunType
<1> HIDE DEF v
<1>6. RunSound(v, v.warm) /\ RunSound(v, v.job)
  BY <1>2, <1>4 DEF Calm, Sound, RunSound, Source
<1>7. Stops(v) /\ Alone(v) /\ InTurn(v.waiting, v) /\ InTurn(v.woken, v)
  BY <1>2, <1>4, <1>5 DEF Calm, Sound, Stops, Alone, InTurn
<1> QED
  BY <1>1, <1>3, <1>6, <1>7 DEF Sound

LEMMA WarmGoesOnOK ==
  ASSUME NEW w, Calm(w), w.warm.on, NEW ok \in BOOLEAN
  PROVE  Sounds(WarmGoesOn(w, ok))
<1> DEFINE run == NextSpine(w, w.warm)
           v == [w EXCEPT !.warm = run]
           b == [w EXCEPT !.bytes = w.warm.made]
<1>0. w \in WorkerType /\ w.warm \in RunType /\ w.warm.tok \in Nat /\ w.warm.key \in Keys /\ w.token \in Nat
      /\ w.warm.made \in Uniform /\ w.warm.done \in Nat /\ w.job.done \in Nat
  BY DEF Calm, Sound, WorkerType, RunType
<1>1. WarmReply(w.warm, "error") \in MessageType /\ WarmReply(w.warm, "superseded") \in MessageType
      /\ WarmReply(w.warm, "ready") \in MessageType
  BY <1>0 DEF WarmReply, MessageType
<1>2. Sound(EndWarm(w))
  BY EndWarmOK
<1>3. Sound(EndWarm(b))
  <2>1. b \in WorkerType /\ Alike(b, w) /\ b.token = w.token
    BY <1>0 DEF WorkerType, Alike
  <2> HIDE DEF b
  <2>2. Calm(b) /\ b.warm.on
    BY <1>0, <2>1, AlikeSound DEF Calm, Alike
  <2> QED
    BY <2>2, EndWarmOK
<1>4. w.warm.done < Spines => Sound(v)
  <2>1. SUFFICES ASSUME w.warm.done < Spines PROVE Sound(v)
    OBVIOUS
  <2>2. run \in RunType /\ run.on /\ run.tok = w.warm.tok /\ RunSound(w, run)
    BY <1>0, <2>1, NextSpineOK DEF Calm, Sound
  <2> HIDE DEF run
  <2>3. v \in WorkerType
    BY <1>0, <2>2 DEF WorkerType
  <2>4. /\ v.book = w.book /\ v.custom = w.custom /\ v.warm = run /\ v.job = w.job /\ v.token = w.token
        /\ v.loads = w.loads /\ v.waiting = w.waiting /\ v.woken = w.woken
    BY <1>0 DEF WorkerType
  <2> HIDE DEF v
  <2>5. RunSound(v, v.warm) /\ RunSound(v, v.job)
    BY <2>2, <2>4, SourceKept DEF Calm, Sound, SameSource
  <2>6. Stops(v) /\ Alone(v) /\ InTurn(v.waiting, v) /\ InTurn(v.woken, v)
    BY <1>0, <2>2, <2>4 DEF Calm, Sound, Stops, Alone, InTurn
  <2> QED
    BY <2>3, <2>5, <2>6 DEF Sound
<1>5. WarmGoesOn(w, ok) =
        IF w.warm.tok < w.token THEN Says(EndWarm(w), WarmReply(w.warm, "superseded"))
        ELSE IF w.warm.done < Spines
        THEN IF ok THEN Quietly(v) ELSE Says(EndWarm(w), WarmReply(w.warm, "error"))
        ELSE Says(EndWarm(b), WarmReply(w.warm, "ready"))
  BY DEF WarmGoesOn
<1> HIDE DEF v, b
<1>6. CASE w.warm.tok < w.token
  BY <1>1, <1>2, <1>5, <1>6, SaysOK DEF Sounds
<1>7. CASE ~(w.warm.tok < w.token) /\ w.warm.done < Spines /\ ok
  BY <1>4, <1>5, <1>7, QuietlyOK DEF Sounds
<1>8. CASE ~(w.warm.tok < w.token) /\ w.warm.done < Spines /\ ~ok
  BY <1>1, <1>2, <1>5, <1>8, SaysOK DEF Sounds
<1>9. CASE ~(w.warm.tok < w.token) /\ ~(w.warm.done < Spines)
  BY <1>1, <1>3, <1>5, <1>9, SaysOK DEF Sounds
<1> QED
  BY <1>6, <1>7, <1>8, <1>9

LEMMA ExportGoesOnOK ==
  ASSUME NEW w, Calm(w), w.job.done > 0, NEW ok \in BOOLEAN
  PROVE  Sounds(ExportGoesOn(w, ok))
<1> DEFINE run == NextSpine(w, w.job)
<1>0. w \in WorkerType /\ w.job \in RunType /\ w.job.made \in Uniform /\ w.job.done \in 0 .. Spines
  BY DEF Calm, Sound, WorkerType, RunType
<1>1. w.job.on /\ ~w.warm.on /\ w.waiting = << >> /\ w.loads = << >>
  BY DEF Calm, Sound, Alone
<1>2. CASE w.job.done = Spines
  <2>1. FileReply(w.job.made) \in MessageType
    BY <1>0 DEF FileReply, MessageType
  <2>2. NoRun.on = FALSE /\ NoRun.done = 0 /\ NoRun.made = {}
    BY DEF NoRun, NoFile
  <2>3. Calm([w EXCEPT !.job = NoRun])
    BY <1>1, <2>2, NoRunType, JobOK DEF RunSound
  <2>4. ExportGoesOn(w, ok) = Says([w EXCEPT !.job = NoRun], FileReply(w.job.made))
    BY <1>2 DEF ExportGoesOn
  <2> QED
    BY <2>1, <2>3, <2>4, SaysOK DEF Sounds, Calm
<1>3. CASE w.job.done # Spines /\ ok
  <2>1. w.job.done < Spines
    BY <1>0, <1>3, WarmAssumption
  <2>2. run \in RunType /\ run.on /\ run.done > 0 /\ RunSound(w, run)
    BY <1>0, <1>1, <2>1, NextSpineOK DEF Calm, Sound
  <2>3. ExportGoesOn(w, ok) = Quietly([w EXCEPT !.job = run])
    BY <1>3 DEF ExportGoesOn
  <2> HIDE DEF run
  <2>4. Calm([w EXCEPT !.job = run])
    BY <1>1, <2>2, JobOK
  <2> QED
    BY <2>3, <2>4, QuietlyOK DEF Sounds, Calm
<1>4. CASE w.job.done # Spines /\ ~ok
  <2>1. ExportGoesOn(w, ok) = ExportFails(w)
    BY <1>4 DEF ExportGoesOn
  <2> QED
    BY <1>1, <2>1, ExportFailsOK DEF Fine, Calm, Sounds
<1> QED
  BY <1>2, <1>3, <1>4

LEMMA LoadEndsOK ==
  ASSUME NEW w, Calm(w), w.loads # << >>, ~w.warm.on, NEW ok \in BOOLEAN
  PROVE  Sounds(LoadEnds(w, ok))
<1> DEFINE l == Head(w.loads)
           rest == Tail(w.loads)
           book == IF ok THEN l.book ELSE None
           font == IF ok /\ w.spec.font = "custom" THEN "custom" ELSE "kopub"
           read == [w EXCEPT !.loads = rest, !.book = book, !.font = font]
<1>0. w \in WorkerType /\ w.loads \in Seq(LoadType)
  BY DEF Calm, Sound, WorkerType
<1>1. l \in LoadType /\ rest \in Seq(LoadType)
  BY <1>0
<1>2. book \in {None} \cup Books /\ font \in Fonts /\ l.prep \in Preps
  BY <1>1 DEF LoadType, Fonts
<1>3. LoadEnds(w, ok) = Says(IF Replacing(read) THEN BeginLoad(read) ELSE read, LoadReply(l.prep, ok))
  BY DEF LoadEnds
<1> HIDE DEF l, rest, book, font
<1>4. read \in WorkerType
  BY <1>0, <1>1, <1>2 DEF WorkerType
<1>5. /\ read.warm = w.warm /\ read.job = w.job /\ read.token = w.token
      /\ read.loads = rest /\ read.waiting = w.waiting /\ read.woken = w.woken
  BY <1>0 DEF WorkerType
<1>6. ~w.job.on /\ w.waiting = << >> /\ w.woken = << >> /\ w.job.done \in Nat
  BY <1>0 DEF Calm, Sound, Alone, Stops, WorkerType, RunType
<1> HIDE DEF read
<1>7. RunSound(read, read.warm) /\ RunSound(read, read.job)
  BY <1>5, <1>6 DEF Calm, Sound, RunSound
<1>8. Stops(read) /\ Alone(read) /\ InTurn(read.waiting, read) /\ InTurn(read.woken, read)
  BY <1>5, <1>6 DEF Calm, Sound, Stops, Alone, InTurn
<1>9. Sound(read) /\ Sound(BeginLoad(read))
  <2>1. Sound(read)
    BY <1>4, <1>7, <1>8 DEF Sound
  <2> QED
    BY <1>5, <1>6, <2>1, BeginLoadOK
<1>10. LoadReply(l.prep, ok) \in MessageType
  BY <1>2 DEF LoadReply, MessageType
<1> QED
  BY <1>3, <1>9, <1>10, SaysOK DEF Sounds

-----------------------------------------------------------------------------
(***************************************************************************)
(* What is flattened comes from concatenating one sequence after another.  *)
(***************************************************************************)
Flattens(flat, seqs, S) ==
  /\ FlattenSeq(seqs) = flat[Len(seqs)]
  /\ \A i \in 1 .. Len(seqs) : flat[i] \in Seq(S)
  /\ flat[1] = seqs[1] /\ \A i \in 1 .. Len(seqs) - 1 : flat[i + 1] = flat[i] \o seqs[i + 1]

LEMMA FlattenPrefixes ==
  ASSUME NEW S, NEW seqs \in Seq(Seq(S))
  PROVE  /\ Len(seqs) = 0 => FlattenSeq(seqs) = << >>
         /\ Len(seqs) # 0 => \E flat : Flattens(flat, seqs, S)
<1> DEFINE c == Len(seqs)
           Meets(g) == g = [i \in 1 .. c |-> IF i = 1 THEN seqs[i] ELSE g[i-1] \o seqs[i]]
           flat == CHOOSE g : Meets(g)
<1>1. c \in Nat /\ \A i \in 1 .. c : seqs[i] \in Seq(S)
  OBVIOUS
<1>2. CASE c = 0
  <2>1. seqs = << >>
    BY <1>2
  <2> QED
    BY <1>2, <2>1 DEF FlattenSeq
<1>3. ASSUME c # 0 PROVE \E g : Flattens(g, seqs, S)
  <2> DEFINE m == c - 1
             F == [k \in 1 .. m |-> [x \in Seq(S) |-> x \o seqs[k + 1]]]
  <2>0. m \in Nat /\ c = m + 1 /\ 1 \in 1 .. c /\ \A k \in 1 .. m : k + 1 \in 1 .. c
    BY <1>1, <1>3
  <2> HIDE DEF c, m
  <2>1. Steps(F, m, Seq(S))
    <3>1. ASSUME NEW k \in 1 .. m, NEW x \in Seq(S) PROVE x \o seqs[k + 1] \in Seq(S)
      BY <1>1, <2>0
    <3>2. ASSUME NEW k \in 1 .. m PROVE F[k] \in [Seq(S) -> Seq(S)]
      <4>1. F[k] = [x \in Seq(S) |-> x \o seqs[k + 1]]
        OBVIOUS
      <4> HIDE DEF F
      <4> QED
        BY <3>1, <4>1
    <3> HIDE DEF F
    <3> QED
      BY <3>2 DEF Steps
  <2>2. seqs[1] \in Seq(S)
    BY <1>1, <2>0
  <2>3. PICK f : Takes(f, F, seqs[1], m, Seq(S))
    <3> HIDE DEF F
    <3> QED
      BY <2>0, <2>1, <2>2, RecursionExists
  <2> DEFINE g == [i \in 1 .. c |-> f[i - 1]]
  <2>4. Meets(g)
    <3>1. ASSUME NEW i \in 1 .. c, i # 1 PROVE g[i] = g[i-1] \o seqs[i]
      <4>0. i - 1 \in 1 .. m /\ i - 1 \in 1 .. c /\ (i - 1) + 1 = i
        BY <2>0, <3>1
      <4>1. f[i - 1] = F[i - 1][f[(i - 1) - 1]] /\ f[(i - 1) - 1] \in Seq(S)
        <5> HIDE DEF F
        <5> QED
          BY <2>0, <2>3, <4>0 DEF Takes
      <4>2. F[i - 1] = [x \in Seq(S) |-> x \o seqs[(i - 1) + 1]]
        BY <4>0
      <4> HIDE DEF F
      <4>3. f[i - 1] = f[(i - 1) - 1] \o seqs[i]
        BY <4>0, <4>1, <4>2
      <4> QED
        BY <4>0, <4>3
    <3>2. g[1] = seqs[1]
      BY <2>0, <2>3 DEF Takes
    <3> QED
      BY <3>1, <3>2
  <2>5. Meets(flat)
    <3> HIDE DEF g, Meets
    <3> QED
      BY <2>4
  <2>6. FlattenSeq(seqs) = flat[c]
    BY <1>3 DEF FlattenSeq, c
  <2>7. flat[1] = seqs[1] /\ \A i \in 1 .. m : flat[i + 1] = flat[i] \o seqs[i + 1]
    <3> HIDE DEF flat
    <3>1. \A i \in 1 .. c : flat[i] = IF i = 1 THEN seqs[i] ELSE flat[i-1] \o seqs[i]
      BY <2>5
    <3>2. ASSUME NEW i \in 1 .. m PROVE flat[i + 1] = flat[i] \o seqs[i + 1]
      <4>1. i + 1 \in 1 .. c /\ i + 1 # 1 /\ (i + 1) - 1 = i
        BY <2>0
      <4> QED
        BY <3>1, <4>1
    <3> QED
      BY <2>0, <3>1, <3>2
  <2> HIDE DEF flat
  <2> DEFINE T == {i \in Nat : i + 1 \in 1 .. c => flat[i + 1] \in Seq(S)}
  <2>8. 0 \in T
    BY <2>2, <2>7
  <2>9. ASSUME NEW i \in Nat, i \in T PROVE i + 1 \in T
    <3>1. SUFFICES ASSUME (i + 1) + 1 \in 1 .. c PROVE flat[(i + 1) + 1] \in Seq(S)
      OBVIOUS
    <3>2. i + 1 \in 1 .. m /\ i + 1 \in 1 .. c
      BY <2>0, <3>1
    <3>3. flat[i + 1] \in Seq(S) /\ seqs[(i + 1) + 1] \in Seq(S)
      BY <1>1, <2>9, <3>1, <3>2
    <3>4. flat[(i + 1) + 1] = flat[i + 1] \o seqs[(i + 1) + 1]
      BY <2>7, <3>2
    <3> QED
      BY <3>3, <3>4
  <2>10. Nat \subseteq T
    <3> HIDE DEF T
    <3> QED
      BY <2>8, <2>9, NatSet
  <2>11. \A i \in 1 .. c : flat[i] \in Seq(S)
    <3>1. SUFFICES ASSUME NEW i \in 1 .. c PROVE flat[i] \in Seq(S)
      OBVIOUS
    <3>2. i - 1 \in Nat /\ (i - 1) + 1 = i
      BY <2>0
    <3>3. i - 1 \in T
      <4> HIDE DEF T
      <4> QED
        BY <2>10, <3>2
    <3> QED
      BY <3>2, <3>3
  <2> HIDE DEF T
  <2>12. \A i \in 1 .. c - 1 : i \in 1 .. m
    BY <2>0
  <2> QED
    BY <2>6, <2>7, <2>11, <2>12 DEF Flattens, c
<1> QED
  BY <1>2, <1>3

LEMMA FlattenType ==
  ASSUME NEW S, NEW seqs \in Seq(Seq(S))
  PROVE  FlattenSeq(seqs) \in Seq(S)
<1>1. Len(seqs) \in Nat
  OBVIOUS
<1>2. CASE Len(seqs) = 0
  <2>1. FlattenSeq(seqs) = << >>
    BY <1>2, FlattenPrefixes
  <2> QED
    BY <2>1
<1>3. ASSUME Len(seqs) # 0 PROVE FlattenSeq(seqs) \in Seq(S)
  <2>1. PICK flat : Flattens(flat, seqs, S)
    BY <1>3, FlattenPrefixes
  <2>2. Len(seqs) \in 1 .. Len(seqs)
    BY <1>1, <1>3
  <2> QED
    BY <2>1, <2>2 DEF Flattens
<1> QED
  BY <1>2, <1>3

-----------------------------------------------------------------------------
(***************************************************************************)
(* The page: every stretch of its code leaves a good state.                *)
(***************************************************************************)
FontRuns == {"idle", "converting", "preview", "waiting", "sync", "painting"}
Presses  == {"no", "ping", "wait", "fetch", "serial", "pool"}
WantType == [book : {None} \cup Books, spec : Settings, face : Faces, calm : BOOLEAN, ready : BOOLEAN]
PageType ==
  [book : {None} \cup Books, opening : {None} \cup Books, choice : Settings, sig : Faces,
   convert : BOOLEAN, fontRun : FontRuns, faceFor : Faces, face : Faces, faceLoaded : BOOLEAN,
   settle : BOOLEAN, version : Nat, warmKey : Keys, firing : Keys,
   loaded : {None, Ready} \cup Preps, press : Presses, want : WantType]
GoType    == [who : {"font", "export"}] \cup [who : {"warm"}, key : Keys, tok : Nat]
PrepType  == [step : {"off", "load", "font"}, book : {None} \cup Books, waiters : Seq(GoType)]
MicroType == [go : GoType, ok : BOOLEAN]
States ==
  [page : PageType, prep : [Preps -> PrepType], micro : Seq(MicroType), worker : WorkerType,
   inbox : Seq(MessageType)]

\* What an event of the page finds and leaves: its state has its type, the worker is calm.
Good(s) == s \in States /\ Calm(s.worker)

LEMMA NoPrepType ==
  NoPrep \in PrepType /\ NoWant \in WantType /\ \A b \in Books : [step |-> "load", book |-> b, waiters |-> << >>] \in PrepType
<1>1. << >> \in Seq(GoType) /\ 0 \in Faces
  BY WarmAssumption DEF Faces
<1> QED
  BY <1>1, DefaultType DEF NoPrep, PrepType, NoWant, WantType

LEMMA PageOK ==
  ASSUME NEW s, Good(s), NEW p \in PageType
  PROVE  Good([s EXCEPT !.page = p])
BY DEF Good, States

LEMMA ChosenOK ==
  ASSUME NEW p \in PageType
  PROVE  Chosen(p) \in Settings /\ Key(p) \in Keys
<1>1. Chosen(p) \in Settings
  BY DEF PageType, Chosen, Settings
<1>2. 0 \in Faces
  BY WarmAssumption DEF Faces
<1> QED
  BY <1>1, <1>2 DEF PageType, Key, Keys

LEMMA EngineOK ==
  ASSUME NEW s, Good(s)
  PROVE  Calm(Engine(s))
BY NoWorkerCalm DEF Engine, Good

\* A request is handled at once; what the worker posts comes behind what it has posted.
LEMMA CallOK ==
  ASSUME NEW s, Good(s), NEW r, Fine(r)
  PROVE  LET t == Call(s, r) IN Good(t) /\ t.page = s.page /\ t.prep = s.prep /\ t.micro = s.micro
<1> DEFINE posted == s.inbox \o r.out
           t == [s EXCEPT !.worker = r.w, !.inbox = posted]
<1>1. s \in States /\ r.w \in WorkerType /\ s.inbox \in Seq(MessageType) /\ r.out \in Seq(MessageType)
  BY DEF Good, States, Fine, Talks, Calm, Sound
<1>2. posted \in Seq(MessageType)
  BY <1>1
<1>3. Call(s, r) = t
  BY DEF Call
<1> HIDE DEF posted
<1>4. t \in States /\ t.worker = r.w /\ t.page = s.page /\ t.prep = s.prep /\ t.micro = s.micro
  BY <1>1, <1>2 DEF States
<1> QED
  BY <1>3, <1>4 DEF Good, Fine

LEMMA ScheduleWarmOK ==
  ASSUME NEW s, Good(s)
  PROVE  Good(ScheduleWarm(s))
<1>1. s.page \in PageType
  BY DEF Good, States
<1>2. [s.page EXCEPT !.settle = TRUE] \in PageType
  BY <1>1 DEF PageType
<1>3. Good([s EXCEPT !.page = [s.page EXCEPT !.settle = TRUE]])
  BY <1>2, PageOK
<1> QED
  BY <1>3 DEF ScheduleWarm

LEMMA InvalidateWarmOK ==
  ASSUME NEW s, Good(s)
  PROVE  Good(InvalidateWarm(s))
<1> DEFINE p == [s.page EXCEPT !.version = s.page.version + 1, !.warmKey = NoKey]
           t == [s EXCEPT !.page = p]
           u == [t EXCEPT !.worker = HandleWarmCancel(t.worker)]
<1>1. s.page \in PageType /\ s.page.version + 1 \in Nat
  BY DEF Good, States, PageType
<1>2. p \in PageType
  BY <1>1, DefaultType DEF PageType
<1>3. [s EXCEPT !.page.version = s.page.version + 1, !.page.warmKey = NoKey] = t
  OBVIOUS
<1> HIDE DEF p
<1>4. Good(t)
  BY <1>2, PageOK
<1>5. InvalidateWarm(s) = IF s.worker.alive THEN u ELSE t
  BY <1>3 DEF InvalidateWarm
<1> HIDE DEF t
<1>6. Good(u)
  <2>1. Calm(HandleWarmCancel(t.worker)) /\ HandleWarmCancel(t.worker) \in WorkerType
    BY <1>4, HandleWarmCancelOK DEF Good, Calm, Sound
  <2> QED
    BY <1>4, <2>1 DEF Good, States
<1> QED
  BY <1>4, <1>5, <1>6

LEMMA PrepareOK ==
  ASSUME NEW s, Good(s), FreePreps(s) # {}, NEW b \in Books
  PROVE  LET t == Prepare(s, b)
         IN  Good(t) /\ t.page.loaded \in Preps /\ t.page.book = s.page.book /\ t.page.press = s.page.press
<1> DEFINE i == CHOOSE j \in FreePreps(s) : \A k \in FreePreps(s) : j <= k
<1>1. i \in Preps
  <2>1. FreePreps(s) \subseteq Preps /\ FreePreps(s) \subseteq Nat
    BY WarmAssumption DEF FreePreps, Preps
  <2>2. \E j \in FreePreps(s) : \A k \in FreePreps(s) : j <= k
    BY <2>1, LeastOfNats
  <2> QED
    BY <2>1, <2>2
<1> HIDE DEF i
<1> DEFINE new == [step |-> "load", book |-> b, waiters |-> << >>]
           p == [s.page EXCEPT !.loaded = i]
           preps == [s.prep EXCEPT ![i] = new]
           u == [s EXCEPT !.page = p, !.prep = preps]
<1>2. p \in PageType /\ p.loaded = i /\ p.book = s.page.book /\ p.press = s.page.press
  BY <1>1 DEF Good, States, PageType
<1>3. preps \in [Preps -> PrepType]
  BY NoPrepType DEF Good, States
<1>4. Prepare(s, b) = Call(u, HandleLoad(Engine(s), i, b))
  BY DEF Prepare, i
<1> HIDE DEF p, preps
<1>5. Good(u) /\ u.page = p
  BY <1>2, <1>3 DEF Good, States
<1>6. Fine(HandleLoad(Engine(s), i, b))
  BY <1>1, EngineOK, HandleLoadOK
<1> DEFINE t == Call(u, HandleLoad(Engine(s), i, b))
<1>7. Good(t) /\ t.page = p
  <2> HIDE DEF u
  <2> QED
    BY <1>5, <1>6, CallOK
<1> HIDE DEF t
<1> QED
  BY <1>1, <1>2, <1>4, <1>7 DEF t

LEMMA AwaitEngineOK ==
  ASSUME NEW s, Good(s), s.page.loaded \in Preps, NEW k \in GoType
  PROVE  Good(AwaitEngine(s, k))
<1> DEFINE i == s.page.loaded
           waiters == Append(s.prep[i].waiters, k)
           preps == [s.prep EXCEPT ![i] = [s.prep[i] EXCEPT !.waiters = waiters]]
<1>1. s.prep \in [Preps -> PrepType] /\ s.prep[i] \in PrepType
  BY DEF Good, States
<1>2. waiters \in Seq(GoType)
  BY <1>1 DEF PrepType
<1>3. AwaitEngine(s, k) = [s EXCEPT !.prep = preps]
  BY DEF AwaitEngine
<1> HIDE DEF waiters
<1>4. [s.prep[i] EXCEPT !.waiters = waiters] \in PrepType
  BY <1>1, <1>2 DEF PrepType
<1>5. preps \in [Preps -> PrepType]
  BY <1>1, <1>4
<1> QED
  BY <1>3, <1>5 DEF Good, States

LEMMA ContinuedOK ==
  ASSUME NEW waiters \in Seq(GoType), NEW ok \in BOOLEAN
  PROVE  Continued(waiters, ok) \in Seq(MicroType)
<1>1. Len(waiters) \in Nat /\ DOMAIN waiters = 1 .. Len(waiters)
      /\ \A n \in 1 .. Len(waiters) : waiters[n] \in GoType
  OBVIOUS
<1>2. Continued(waiters, ok) = [n \in 1 .. Len(waiters) |-> [go |-> waiters[n], ok |-> ok]]
  BY <1>1 DEF Continued
<1>3. \A n \in 1 .. Len(waiters) : [go |-> waiters[n], ok |-> ok] \in MicroType
  BY <1>1 DEF MicroType
<1> QED
  BY <1>1, <1>2, <1>3

LEMMA PrepEndsOK ==
  ASSUME NEW s, Good(s), NEW i \in Preps, NEW ok \in BOOLEAN, NEW loaded \in {None, Ready} \cup Preps
  PROVE  Good([s EXCEPT !.prep[i] = NoPrep, !.page.loaded = loaded,
                        !.micro = s.micro \o Continued(s.prep[i].waiters, ok)])
<1> DEFINE p == [s.page EXCEPT !.loaded = loaded]
           preps == [s.prep EXCEPT ![i] = NoPrep]
           more == Continued(s.prep[i].waiters, ok)
           micro0 == s.micro \o more
<1>1. s.page \in PageType /\ s.prep \in [Preps -> PrepType] /\ s.micro \in Seq(MicroType)
      /\ s.prep[i].waiters \in Seq(GoType)
  BY DEF Good, States, PrepType
<1>2. more \in Seq(MicroType)
  BY <1>1, ContinuedOK
<1>3. p \in PageType /\ preps \in [Preps -> PrepType]
  BY <1>1, NoPrepType DEF PageType
<1> HIDE DEF more
<1>4. micro0 \in Seq(MicroType)
  BY <1>1, <1>2
<1> HIDE DEF p, preps, micro0
<1>5. Good([s EXCEPT !.prep = preps, !.page = p, !.micro = micro0])
  BY <1>3, <1>4 DEF Good, States
<1> QED
  BY <1>5 DEF p, preps, micro0, more

LEMMA PrepFailsOK ==
  ASSUME NEW s, Good(s), NEW i \in Preps
  PROVE  Good(PrepFails(s, i))
BY PrepEndsOK DEF PrepFails

LEMMA PrepSucceedsOK ==
  ASSUME NEW s, Good(s), NEW i \in Preps
  PROVE  Good(PrepSucceeds(s, i))
<1> DEFINE loaded == IF s.page.loaded = i THEN Ready ELSE s.page.loaded
<1>1. loaded \in {None, Ready} \cup Preps
  BY DEF Good, States, PageType
<1>2. PrepSucceeds(s, i) = [s EXCEPT !.prep[i] = NoPrep, !.page.loaded = loaded,
                                     !.micro = s.micro \o Continued(s.prep[i].waiters, TRUE)]
  BY DEF PrepSucceeds
<1> HIDE DEF loaded
<1>3. Good([s EXCEPT !.prep[i] = NoPrep, !.page.loaded = loaded,
                     !.micro = s.micro \o Continued(s.prep[i].waiters, TRUE)])
  BY <1>1, PrepEndsOK
<1> QED
  BY <1>2, <1>3

LEMMA UnlockOK ==
  ASSUME NEW s, Good(s)
  PROVE  Good(Unlock(s)) /\ Unlock(s).page.book = s.page.book
<1> DEFINE p == [s.page EXCEPT !.press = "no", !.want = NoWant]
<1>1. p \in PageType /\ p.book = s.page.book
  BY NoPrepType DEF Good, States, PageType, Presses
<1>2. Unlock(s) = [s EXCEPT !.page = p]
  BY DEF Unlock
<1> HIDE DEF p
<1>3. [s EXCEPT !.page = p].page = p
  BY DEF Good, States
<1> QED
  BY <1>1, <1>2, <1>3, PageOK

LEMMA WarmEndsOK ==
  ASSUME NEW s, Good(s)
  PROVE  Good(WarmEnds(s))
<1>1. [s.page EXCEPT !.firing = NoKey] \in PageType
  BY DefaultType DEF Good, States, PageType
<1>2. Good([s EXCEPT !.page = [s.page EXCEPT !.firing = NoKey]])
  BY <1>1, PageOK
<1> QED
  BY <1>2 DEF WarmEnds

\* Every call that waited for the dead engine, or for its preparation, goes on.
LEMMA KillExportEngineOK ==
  ASSUME NEW s, Good(s)
  PROVE  Good(KillExportEngine(s))
<1> DEFINE syncing == IF s.page.fontRun = "sync" THEN << <<[who |-> "font"]>> >> ELSE << >>
           waits == [i \in Preps |-> s.prep[i].waiters]
           waiting == syncing \o waits
           gone == Continued(FlattenSeq(waiting), FALSE)
           p == [s.page EXCEPT !.loaded = None, !.warmKey = NoKey,
                               !.fontRun = IF s.page.fontRun = "sync" THEN "waiting" ELSE s.page.fontRun]
           preps == [i \in Preps |-> NoPrep]
           micro0 == s.micro \o gone
           dead == [s EXCEPT !.worker = NoWorker, !.inbox = << >>, !.prep = preps, !.page = p, !.micro = micro0]
           warmed == IF s.worker.warm.on \/ \E n \in DOMAIN s.inbox : s.inbox[n].re = "warm"
                     THEN WarmEnds(ScheduleWarm(dead)) ELSE dead
<1>1. s.page \in PageType /\ s.prep \in [Preps -> PrepType] /\ s.micro \in Seq(MicroType)
  BY DEF Good, States
<1>2. waits \in Seq(Seq(GoType))
  <2>1. \A i \in Preps : s.prep[i].waiters \in Seq(GoType)
    BY <1>1 DEF PrepType
  <2> QED
    BY <2>1, WarmAssumption DEF Preps
<1>3. syncing \in Seq(Seq(GoType))
  <2>1. [who |-> "font"] \in GoType
    BY DEF GoType
  <2>2. <<[who |-> "font"]>> \in Seq(GoType)
    BY <2>1
  <2> QED
    BY <2>2
<1> HIDE DEF syncing, waits
<1>4. waiting \in Seq(Seq(GoType))
  BY <1>2, <1>3
<1> HIDE DEF waiting
<1>5. gone \in Seq(MicroType)
  BY <1>4, FlattenType, ContinuedOK
<1> HIDE DEF gone
<1>6. micro0 \in Seq(MicroType)
  BY <1>1, <1>5
<1>7. p \in PageType
  BY <1>1, DefaultType DEF PageType, FontRuns
<1>8. preps \in [Preps -> PrepType]
  BY NoPrepType
<1>0. dead = [s EXCEPT !.worker = NoWorker, !.inbox = << >>, !.prep = [i \in Preps |-> NoPrep],
                      !.page.loaded = None, !.page.warmKey = NoKey,
                      !.page.fontRun = IF @ = "sync" THEN "waiting" ELSE @,
                      !.micro = @ \o Continued(FlattenSeq(waiting), FALSE)]
  BY DEF gone
<1>9. KillExportEngine(s) = IF s.page.press \in {"serial", "fetch"} THEN Unlock(warmed) ELSE warmed
  <2> HIDE DEF dead
  <2> QED
    BY <1>0 DEF KillExportEngine, syncing, waits, waiting
<1> HIDE DEF p, preps, micro0
<1>10. Good(dead)
  <2>1. << >> \in Seq(MessageType) /\ NoWorker \in WorkerType /\ Calm(NoWorker)
    BY NoWorkerCalm DEF Calm, Sound
  <2>2. dead.worker = NoWorker
    BY DEF Good, States
  <2> QED
    BY <1>6, <1>7, <1>8, <2>1, <2>2 DEF Good, States
<1> HIDE DEF dead
<1>11. Good(warmed)
  BY <1>10, ScheduleWarmOK, WarmEndsOK
<1> HIDE DEF warmed
<1> QED
  BY <1>9, <1>11, UnlockOK

\* What fireWarm goes on with.
IsWarm(k) == k.key \in Keys /\ k.tok \in Nat

LEMMA SendWarmOK ==
  ASSUME NEW s, Good(s), NEW k, IsWarm(k), NEW ok \in BOOLEAN
  PROVE  Good(SendWarm(s, k, ok))
<1> DEFINE m == [tok |-> k.tok, key |-> k.key, spec |-> Chosen(s.page)]
<1>1. m \in [tok : Nat, key : Keys, spec : Settings]
  BY ChosenOK DEF Good, States, IsWarm
<1>2. SendWarm(s, k, ok) = Call(s, HandleWarm(Engine(s), m, ok))
  BY DEF SendWarm
<1> HIDE DEF m
<1>3. Fine(HandleWarm(Engine(s), m, ok))
  BY <1>1, EngineOK, HandleWarmOK
<1> QED
  BY <1>2, <1>3, CallOK

LEMMA PaintingOK ==
  ASSUME NEW s, Good(s)
  PROVE  Good(Painting(s))
<1> DEFINE choice == [s.page.choice EXCEPT !.font = "custom"]
           p == [s.page EXCEPT !.fontRun = "painting", !.choice = choice]
<1>1. s.page \in PageType
  BY DEF Good, States
<1>2. choice \in Settings
  BY <1>1 DEF PageType, Settings
<1>3. [s EXCEPT !.page.fontRun = "painting", !.page.choice.font = "custom"] = [s EXCEPT !.page = p]
  OBVIOUS
<1> HIDE DEF choice
<1>4. p \in PageType
  BY <1>1, <1>2 DEF PageType, FontRuns
<1> HIDE DEF p
<1> QED
  BY <1>3, <1>4, PageOK DEF Painting

LEMMA FontRunOK ==
  ASSUME NEW s, Good(s), NEW f \in FontRuns
  PROVE  LET t == [s EXCEPT !.page.fontRun = f]
         IN  Good(t) /\ t.worker = s.worker /\ t.page.face = s.page.face /\ t.page.loaded = s.page.loaded
<1> DEFINE p == [s.page EXCEPT !.fontRun = f]
<1>1. p \in PageType /\ p.face = s.page.face /\ p.loaded = s.page.loaded
  BY DEF Good, States, PageType
<1> HIDE DEF p
<1>2. LET t == [s EXCEPT !.page = p]
      IN  Good(t) /\ t.worker = s.worker /\ t.page = p
  BY <1>1 DEF Good, States
<1> QED
  BY <1>1, <1>2 DEF p

LEMMA SyncFontOK ==
  ASSUME NEW s, Good(s), NEW ok \in BOOLEAN
  PROVE  Good(SyncFont(s, ok))
<1> DEFINE t == [s EXCEPT !.page.fontRun = "sync"]
<1>1. Good(t)
  BY FontRunOK DEF FontRuns
<1>2. s.page.face \in Faces
  BY DEF Good, States, PageType
<1>3. SyncFont(s, ok) = Call(t, HandleFont(Engine(s), 0, s.page.face, ok))
  BY DEF SyncFont
<1> HIDE DEF t
<1>4. Fine(HandleFont(Engine(s), 0, s.page.face, ok))
  BY <1>2, EngineOK, HandleFontOK
<1> QED
  BY <1>1, <1>3, <1>4, CallOK

LEMMA SyncFailsOK ==
  ASSUME NEW s, Good(s)
  PROVE  Good(SyncFails(s))
<1>1. Good([s EXCEPT !.page.fontRun = "waiting"])
  BY FontRunOK DEF FontRuns
<1> QED
  BY <1>1, KillExportEngineOK, PaintingOK DEF SyncFails

LEMMA PressOK ==
  ASSUME NEW s, Good(s), NEW press \in Presses
  PROVE  LET t == [s EXCEPT !.page.press = press]
         IN  Good(t) /\ t.page.loaded = s.page.loaded /\ t.page.book = s.page.book /\ t.prep = s.prep
<1> DEFINE p == [s.page EXCEPT !.press = press]
<1>1. p \in PageType /\ p.loaded = s.page.loaded /\ p.book = s.page.book
  BY DEF Good, States, PageType
<1> HIDE DEF p
<1>2. LET t == [s EXCEPT !.page = p]
      IN  Good(t) /\ t.page = p /\ t.prep = s.prep
  BY <1>1 DEF Good, States
<1> QED
  BY <1>1, <1>2 DEF p

LEMMA AwaitedOK ==
  ASSUME NEW s, Good(s), NEW ready \in BOOLEAN
  PROVE  LET p == [s.page EXCEPT !.want = [s.page.want EXCEPT !.ready = ready]]
         IN  /\ Good(Awaited(s, ready)) /\ Awaited(s, ready) = [s EXCEPT !.page = p] /\ p \in PageType
             /\ \A v \in DOMAIN s.page : v # "want" => p[v] = s.page[v]
<1> DEFINE want == [s.page.want EXCEPT !.ready = ready]
           p == [s.page EXCEPT !.want = want]
<1>1. want \in WantType
  BY DEF Good, States, PageType, WantType
<1> HIDE DEF want
<1>2. p \in PageType
  BY <1>1 DEF Good, States, PageType
<1>3. \A v \in DOMAIN s.page : v # "want" => p[v] = s.page[v]
  BY DEF Good, States, PageType
<1> HIDE DEF p
<1>4. Awaited(s, ready) = [s EXCEPT !.page = p]
  BY DEF Awaited, p, want
<1>5. Good([s EXCEPT !.page = p])
  BY <1>2 DEF Good, States
<1> QED
  BY <1>2, <1>3, <1>4, <1>5 DEF p, want

LEMMA ConvertOK ==
  ASSUME NEW s, Good(s), NEW pool \in BOOLEAN, NEW ok \in BOOLEAN
  PROVE  Good(Convert(s, pool, ok))
<1> DEFINE t == [s EXCEPT !.page.press = "serial"]
<1>1. Chosen(s.page) \in Settings
  BY ChosenOK DEF Good, States
<1>2. Good(t)
  BY PressOK DEF Presses
<1>3. Good([KillExportEngine(s) EXCEPT !.page.press = "pool"])
  <2>1. Good(KillExportEngine(s)) /\ "pool" \in Presses
    BY KillExportEngineOK DEF Presses
  <2> HIDE DEF t
  <2> QED
    BY <2>1, PressOK
<1>4. Convert(s, pool, ok) =
        IF pool THEN [KillExportEngine(s) EXCEPT !.page.press = "pool"]
        ELSE Call(t, HandleExport(Engine(s), Chosen(s.page), ok))
  BY DEF Convert
<1> HIDE DEF t
<1>5. Fine(HandleExport(Engine(s), Chosen(s.page), ok))
  BY <1>1, EngineOK, HandleExportOK
<1> QED
  BY <1>2, <1>3, <1>4, <1>5, CallOK

-----------------------------------------------------------------------------
(***************************************************************************)
(* The inductive invariant.                                                *)
(***************************************************************************)
IdleType == [frame : SUBSET Books, prep : SUBSET Books]
LeftType == [acts : 0 .. MaxActs, opens : 0 .. MaxOpens, deaths : 0 .. MaxDeaths]
InTypes == page \in PageType /\ prep \in [Preps -> PrepType] /\ micro \in Seq(MicroType) /\ inbox \in Seq(MessageType)
Saved == saved.made \in Uniform /\ saved.title \in {None} \cup Books
WarmInv == InTypes /\ Sound(worker) /\ Saved /\ idle \in IdleType /\ left \in LeftType

LEMMA NowOK ==
  ASSUME InTypes, Sound(worker), worker.woken = << >>
  PROVE  /\ Good(Now) /\ Now.page = page /\ Now.prep = prep /\ Now.micro = micro /\ Now.worker = worker
         /\ Now.inbox = inbox
BY DEF InTypes, Sound, Now, Good, Calm, States

LEMMA TurnsOK ==
  ASSUME NEW s, Good(s), Turns(s)
  PROVE  InTypes' /\ Sound(worker)'
<1>1. /\ s.page \in PageType /\ s.prep \in [Preps -> PrepType] /\ s.micro \in Seq(MicroType) /\ Sound(s.worker)
      /\ s.inbox \in Seq(MessageType)
  BY DEF Good, Calm, States
<1>2. page' = s.page /\ prep' = s.prep /\ micro' = s.micro /\ worker' = s.worker /\ inbox' = s.inbox
  BY DEF Turns
<1>3. InTypes'
  BY <1>1, <1>2 DEF InTypes
<1>4. Sound(worker')
  BY <1>1, <1>2
<1> QED
  BY <1>3, <1>4

LEMMA NoSaveOK ==
  saved' = NoSave => Saved'
<1>1. NoSave.made \in Uniform /\ NoSave.title \in {None} \cup Books
  BY NoFileType DEF NoSave
<1> QED
  BY <1>1 DEF Saved

LEMMA BecomesOK ==
  ASSUME NEW s, Good(s), Becomes(s)
  PROVE  InTypes' /\ Sound(worker)' /\ Saved'
BY TurnsOK, NoSaveOK DEF Becomes

LEMMA LessLeft ==
  ASSUME left \in LeftType
  PROVE  /\ left.acts > 0 => [left EXCEPT !.acts = @ - 1] \in LeftType
         /\ left.deaths > 0 => [left EXCEPT !.deaths = @ - 1] \in LeftType
         /\ left.acts > 0 /\ left.opens > 0 => [left EXCEPT !.acts = @ - 1, !.opens = @ - 1] \in LeftType
<1>1. /\ left.acts > 0 => left.acts - 1 \in 0 .. MaxActs
      /\ left.deaths > 0 => left.deaths - 1 \in 0 .. MaxDeaths
      /\ left.opens > 0 => left.opens - 1 \in 0 .. MaxOpens
  BY WarmAssumption DEF LeftType
<1> QED
  BY <1>1 DEF LeftType

-----------------------------------------------------------------------------
LEMMA OpenBookOK ==
  ASSUME WarmInv, OpenBook
  PROVE  WarmInv'
<1> DEFINE s == KillExportEngine(InvalidateWarm(Now))
           b == 1 + MaxOpens - left.opens
           p == [s.page EXCEPT !.opening = b]
<1>1. Good(Now)
  BY NowOK DEF WarmInv, OpenBook, Acts, Idle
<1>2. Good(s)
  BY <1>1, InvalidateWarmOK, KillExportEngineOK
<1>3. b \in Books
  <2>1. left.opens \in 0 .. MaxOpens /\ left.opens > 0 /\ MaxOpens \in Nat
    BY WarmAssumption DEF WarmInv, LeftType, OpenBook
  <2> QED
    BY <2>1 DEF Books
<1>4. Becomes([s EXCEPT !.page = p]) /\ idle' = idle /\ left' \in LeftType
  BY LessLeft DEF OpenBook, Acts, WarmInv
<1> HIDE DEF b, s
<1>5. p \in PageType
  BY <1>2, <1>3 DEF Good, States, PageType
<1> HIDE DEF p
<1>6. InTypes' /\ Sound(worker)' /\ Saved'
  BY <1>2, <1>4, <1>5, PageOK, BecomesOK
<1> QED
  BY <1>4, <1>6 DEF WarmInv

LEMMA BookOpenedOK ==
  ASSUME WarmInv, BookOpened
  PROVE  WarmInv'
<1> DEFINE p == [page EXCEPT !.book = page.opening, !.opening = None]
           t == [Now EXCEPT !.page = p]
<1>1. Good(Now) /\ Now.page = page
  BY NowOK DEF WarmInv, BookOpened, Idle
<1>2. p \in PageType
  BY DEF WarmInv, InTypes, PageType
<1>3. [Now EXCEPT !.page.book = page.opening, !.page.opening = None] = t
  BY DEF Now
<1>4. Good(t)
  BY <1>1, <1>2, PageOK
<1>5. Becomes(InvalidateWarm(t)) /\ left' = left /\ idle' = [idle EXCEPT !.frame = @ \cup {page.opening}]
  BY <1>3 DEF BookOpened
<1> HIDE DEF p, t
<1>6. InTypes' /\ Sound(worker)' /\ Saved'
  BY <1>4, <1>5, InvalidateWarmOK, BecomesOK
<1>7. idle' \in IdleType
  <2>1. page.opening \in Books
    BY DEF WarmInv, InTypes, PageType, BookOpened
  <2> QED
    BY <1>5, <2>1 DEF WarmInv, IdleType
<1> QED
  BY <1>5, <1>6, <1>7 DEF WarmInv

LEMMA BookFailsOK ==
  ASSUME WarmInv, BookFails
  PROVE  WarmInv'
<1> DEFINE p == [page EXCEPT !.book = None, !.opening = None]
           t == [Now EXCEPT !.page = p]
<1>1. Good(Now) /\ Now.page = page
  BY NowOK DEF WarmInv, BookFails, Idle
<1>2. p \in PageType
  BY DEF WarmInv, InTypes, PageType
<1>3. [Now EXCEPT !.page.book = None, !.page.opening = None] = t
  BY DEF Now
<1>4. Good(t)
  BY <1>1, <1>2, PageOK
<1>5. Becomes(KillExportEngine(t)) /\ left' = left /\ idle' = idle
  BY <1>3 DEF BookFails
<1> HIDE DEF p, t
<1>6. InTypes' /\ Sound(worker)' /\ Saved'
  BY <1>4, <1>5, KillExportEngineOK, BecomesOK
<1> QED
  BY <1>5, <1>6 DEF WarmInv

LEMMA FrameShownOK ==
  ASSUME WarmInv, NEW b \in Books, FrameShown(b)
  PROVE  WarmInv'
<1>1. Good(Now)
  BY NowOK DEF WarmInv, FrameShown, Idle
<1>2. InTypes' /\ Sound(worker)' /\ Saved'
  BY <1>1, ScheduleWarmOK, BecomesOK DEF FrameShown
<1>3. idle' \in IdleType
  BY DEF WarmInv, IdleType, FrameShown
<1> QED
  BY <1>2, <1>3 DEF WarmInv, FrameShown

LEMMA IdlePrepOK ==
  ASSUME WarmInv, NEW b \in Books, IdlePrep(b)
  PROVE  WarmInv'
<1>1. Good(Now) /\ FreePreps(Now) # {}
  BY NowOK DEF WarmInv, IdlePrep, Idle
<1>2. InTypes' /\ Sound(worker)' /\ Saved'
  BY <1>1, PrepareOK, BecomesOK DEF IdlePrep
<1>3. idle' \in IdleType
  BY DEF WarmInv, IdleType, IdlePrep
<1> QED
  BY <1>2, <1>3 DEF WarmInv, IdlePrep

\* A face is of a version of the file and the sliders, and version 0 is that of none.
Numbered(p) ==
  /\ p.face # 0 \/ p.faceFor # 0 => p.sig # 0
  /\ p.fontRun \in {"converting", "preview"} => p.faceFor # 0

\* What the page awaits of its engine is as it was.
Aside(p) ==
  /\ p.press = page.press /\ p.loaded = page.loaded /\ p.face = page.face
  /\ p.fontRun # page.fontRun => {p.fontRun, page.fontRun} \cap {"waiting", "sync"} = {}
  /\ Numbered(page) => Numbered(p)
  /\ p.version = page.version /\ p.warmKey = page.warmKey /\ p.want = page.want
  /\ p.choice.look # page.choice.look => ~Exporting(page)

\* No face has been accepted that the page does not show yet.
Settled(p) == p.fontRun \in {"idle", "converting", "preview"}
\* What is converted stays the same.
SameOutput(p) == Chosen(p) = Chosen(page) /\ (Settled(p) => Settled(page))

\* An action of the reader or the conversion that sets controls and then invalidates, or not.
\* During an export only the conversion does.
Sets ==
  /\ Idle /\ idle' = idle /\ left' \in LeftType
  /\ Exporting(page) => page.convert \/ Converting(page)
  /\ \E p \in PageType :
       /\ Aside(p)
       /\ LET t == [Now EXCEPT !.page = p]
          IN  \/ SameOutput(p) /\ Becomes(t)
              \/ Becomes(InvalidateWarm(t)) \/ Becomes(ScheduleWarm(InvalidateWarm(t)))

LEMMA SetsOK ==
  ASSUME WarmInv, Sets
  PROVE  WarmInv'
<1>0. PICK p \in PageType :
        LET t == [Now EXCEPT !.page = p]
        IN  \/ Becomes(t) \/ Becomes(InvalidateWarm(t)) \/ Becomes(ScheduleWarm(InvalidateWarm(t)))
  BY DEF Sets
<1> DEFINE t == [Now EXCEPT !.page = p]
<1>1. Good(t)
  BY NowOK, PageOK DEF WarmInv, Idle, Sets
<1>2. Good(InvalidateWarm(t)) /\ Good(ScheduleWarm(InvalidateWarm(t)))
  BY <1>1, InvalidateWarmOK, ScheduleWarmOK
<1>3. \/ Becomes(t) \/ Becomes(InvalidateWarm(t)) \/ Becomes(ScheduleWarm(InvalidateWarm(t)))
  BY <1>0
<1> HIDE DEF t
<1>4. InTypes' /\ Sound(worker)' /\ Saved'
  BY <1>1, <1>2, <1>3, BecomesOK
<1> QED
  BY <1>4 DEF WarmInv, Sets

LEMMA ChangeLookSets ==
  ASSUME WarmInv, NEW l \in Looks, ChangeLook(l)
  PROVE  Sets
<1> DEFINE choice == [page.choice EXCEPT !.look = l]
           p == [page EXCEPT !.choice = choice]
<1>1. choice \in Settings
  BY DEF WarmInv, InTypes, PageType, Settings
<1>2. [Now EXCEPT !.page.choice.look = l] = [Now EXCEPT !.page = p]
  BY DEF Now
<1> HIDE DEF choice
<1>3. p \in PageType /\ Aside(p)
  BY <1>1 DEF Aside, Numbered, WarmInv, InTypes, PageType, ChangeLook, UseKnob
<1> HIDE DEF p
<1>4. Becomes(ScheduleWarm(InvalidateWarm([Now EXCEPT !.page = p])))
  BY <1>2 DEF ChangeLook
<1>5. idle' = idle /\ left' \in LeftType /\ Idle
  BY LessLeft DEF WarmInv, ChangeLook, UseKnob, Acts
<1>6. ~Exporting(page)
  BY DEF ChangeLook, UseKnob
<1> QED
  BY <1>3, <1>4, <1>5, <1>6 DEF Sets

LEMMA ChooseFontSets ==
  ASSUME WarmInv, NEW f \in {"kopub", "custom"}, ChooseFont(f)
  PROVE  Sets
<1> DEFINE choice == [page.choice EXCEPT !.font = f]
           convert == page.convert \/ (f = "custom" /\ page.faceLoaded /\ page.face # page.sig)
           p == [page EXCEPT !.choice = choice, !.convert = convert]
           s == [Now EXCEPT !.page.choice.font = f,
                            !.page.convert = @ \/ (f = "custom" /\ page.faceLoaded /\ page.face # page.sig)]
<1>1. choice \in Settings /\ choice.look = page.choice.look
  BY DEF WarmInv, InTypes, PageType, Settings
<1>c. ~(f = "kopub" \/ page.faceLoaded) => SameOutput(p)
  <2>1. page.choice \in Settings /\ f # page.choice.font /\ f \in {"kopub", "custom"}
    BY DEF WarmInv, InTypes, PageType, ChooseFont
  <2>2. p.choice = choice /\ p.faceLoaded = page.faceLoaded /\ p.fontRun = page.fontRun
    BY DEF WarmInv, InTypes, PageType
  <2>3. f = "custom" => page.choice.font = "kopub" /\ [choice EXCEPT !.font = "kopub"] = page.choice
    BY <2>1 DEF Settings
  <2>4. choice.font = f
    BY <2>1 DEF Settings
  <2> HIDE DEF p, choice
  <2> QED
    BY <2>1, <2>2, <2>3, <2>4 DEF SameOutput, Chosen, Settled
<1>2. s = [Now EXCEPT !.page = p]
  BY DEF Now
<1>a. Becomes(IF f = "kopub" \/ page.faceLoaded THEN ScheduleWarm(InvalidateWarm(s)) ELSE s)
  BY DEF ChooseFont
<1> HIDE DEF s
<1>b. convert \in BOOLEAN
  BY DEF WarmInv, InTypes, PageType
<1> HIDE DEF choice, convert
<1>3. p \in PageType /\ Aside(p) /\ p.choice.look = page.choice.look
  BY <1>1, <1>b DEF Aside, Numbered, WarmInv, InTypes, PageType
<1> HIDE DEF p
<1>4. \/ SameOutput(p) /\ Becomes([Now EXCEPT !.page = p])
      \/ Becomes(ScheduleWarm(InvalidateWarm([Now EXCEPT !.page = p])))
  BY <1>2, <1>a, <1>c
<1>5. idle' = idle /\ left' \in LeftType /\ Idle /\ ~Exporting(page)
  BY LessLeft DEF WarmInv, ChooseFont, UseKnob, Acts
<1> QED
  BY <1>3, <1>4, <1>5 DEF Sets

LEMMA TurnFontKnobSets ==
  ASSUME WarmInv, TurnFontKnob
  PROVE  Sets
<1> DEFINE choice == [page.choice EXCEPT !.font = "custom"]
           p == [page EXCEPT !.sig = page.sig + 1, !.convert = TRUE, !.choice = choice]
<1>1. choice \in Settings /\ choice.look = page.choice.look
  BY DEF WarmInv, InTypes, PageType, Settings
<1>2. [Now EXCEPT !.page.sig = @ + 1, !.page.convert = TRUE, !.page.choice.font = "custom"] = [Now EXCEPT !.page = p]
  <2>1. Now.page = page
    BY DEF Now
  <2>2. p = [[[page EXCEPT !.sig = page.sig + 1] EXCEPT !.convert = TRUE] EXCEPT !.choice.font = "custom"]
    BY DEF WarmInv, InTypes, PageType
  <2>3. [Now EXCEPT !.page.sig = @ + 1, !.page.convert = TRUE, !.page.choice.font = "custom"]
          = [Now EXCEPT !.page = [[[Now.page EXCEPT !.sig = Now.page.sig + 1] EXCEPT !.convert = TRUE] EXCEPT !.choice.font = "custom"]]
    OBVIOUS
  <2> HIDE DEF p
  <2> QED
    BY <2>1, <2>2, <2>3
<1> HIDE DEF choice
<1>a. page.sig + 1 \in Faces
  BY WarmAssumption DEF WarmInv, InTypes, PageType, Faces, TurnFontKnob
<1>b. page.sig + 1 # 0
  BY DEF WarmInv, InTypes, PageType, Faces
<1>3. p \in PageType /\ Aside(p)
  BY <1>1, <1>a, <1>b DEF Aside, Numbered, WarmInv, InTypes, PageType
<1> HIDE DEF p
<1>4. Becomes(InvalidateWarm([Now EXCEPT !.page = p]))
  BY <1>2 DEF TurnFontKnob
<1>5. idle' = idle /\ left' \in LeftType /\ Idle /\ ~Exporting(page)
  BY LessLeft DEF WarmInv, TurnFontKnob, UseKnob, Acts
<1> QED
  BY <1>3, <1>4, <1>5 DEF Sets

LEMMA ConvertStartsSets ==
  ASSUME WarmInv, ConvertStarts
  PROVE  Sets
<1> DEFINE p == [page EXCEPT !.convert = FALSE]
           q == [p EXCEPT !.fontRun = "converting", !.faceFor = page.sig]
<1>1. /\ p \in PageType /\ q \in PageType /\ Aside(p) /\ (page.sig # page.face => Aside(q))
      /\ SameOutput(p) /\ SameOutput(q)
  BY DEF Aside, Numbered, WarmInv, InTypes, PageType, FontRuns, ConvertStarts, Converting, SameOutput, Chosen, Settled
<1>2. [Now EXCEPT !.page.convert = FALSE] = [Now EXCEPT !.page = p]
  BY DEF Now
<1>3. [[Now EXCEPT !.page.convert = FALSE] EXCEPT !.page.fontRun = "converting", !.page.faceFor = page.sig]
        = [Now EXCEPT !.page = q]
  BY DEF Now
<1> HIDE DEF p, q
<1>4. Becomes([Now EXCEPT !.page = p]) \/ (page.sig # page.face /\ Becomes([Now EXCEPT !.page = q]))
  BY <1>2, <1>3 DEF ConvertStarts
<1>5. idle' = idle /\ left' \in LeftType /\ Idle /\ page.convert
  BY DEF WarmInv, ConvertStarts
<1> QED
  BY <1>1, <1>4, <1>5 DEF Sets

LEMMA FontConvertedSets ==
  ASSUME WarmInv, NEW ok \in BOOLEAN, FontConverted(ok)
  PROVE  Sets
<1> DEFINE p == [page EXCEPT !.fontRun = "preview"]
           convert == page.convert \/ ok
           q == [page EXCEPT !.fontRun = "idle", !.faceFor = 0, !.convert = convert]
<1>1. 0 \in Faces /\ convert \in BOOLEAN
  BY WarmAssumption DEF WarmInv, InTypes, PageType, Faces
<1>2. [Now EXCEPT !.page.fontRun = "preview"] = [Now EXCEPT !.page = p]
  BY DEF Now
<1>3. [Now EXCEPT !.page.fontRun = "idle", !.page.faceFor = 0, !.page.convert = @ \/ ok] = [Now EXCEPT !.page = q]
  <2>1. Now.page = page
    BY DEF Now
  <2>2. [Now EXCEPT !.page.fontRun = "idle", !.page.faceFor = 0, !.page.convert = @ \/ ok]
          = [Now EXCEPT !.page = [Now.page EXCEPT !.fontRun = "idle", !.faceFor = 0, !.convert = Now.page.convert \/ ok]]
    OBVIOUS
  <2> QED
    BY <2>1, <2>2
<1> HIDE DEF convert
<1>6. /\ p \in PageType /\ q \in PageType /\ Aside(p) /\ Aside(q)
      /\ SameOutput(p) /\ SameOutput(q)
  BY <1>1 DEF Aside, Numbered, WarmInv, InTypes, PageType, FontRuns, FontConverted, SameOutput, Chosen, Settled
<1> HIDE DEF p, q
<1>4. Becomes([Now EXCEPT !.page = p]) \/ Becomes([Now EXCEPT !.page = q])
  BY <1>2, <1>3 DEF FontConverted
<1>5. idle' = idle /\ left' \in LeftType /\ Idle /\ Converting(page)
  BY DEF WarmInv, FontConverted, Converting
<1> QED
  BY <1>4, <1>5, <1>6 DEF Sets

LEMMA FacePaintedSets ==
  ASSUME WarmInv, FacePainted
  PROVE  Sets
<1> DEFINE p == [page EXCEPT !.fontRun = "idle", !.faceLoaded = TRUE]
<1>1. p \in PageType /\ Aside(p)
  BY DEF Aside, Numbered, WarmInv, InTypes, PageType, FontRuns, FacePainted
<1>2. [Now EXCEPT !.page.fontRun = "idle", !.page.faceLoaded = TRUE] = [Now EXCEPT !.page = p]
  BY DEF Now
<1> HIDE DEF p
<1>4. Becomes(ScheduleWarm(InvalidateWarm([Now EXCEPT !.page = p])))
  BY <1>2 DEF FacePainted
<1>5. idle' = idle /\ left' \in LeftType /\ Idle /\ Converting(page)
  BY DEF WarmInv, FacePainted, Converting
<1> QED
  BY <1>1, <1>4, <1>5 DEF Sets

-----------------------------------------------------------------------------
\* A step of the page alone.
LEMMA PageStepOK ==
  ASSUME WarmInv, NEW s, Good(s), Becomes(s), UNCHANGED <<idle, left>>
  PROVE  WarmInv'
BY BecomesOK DEF WarmInv

LEMMA FaceAcceptedOK ==
  ASSUME WarmInv, NEW ok \in BOOLEAN, NEW sync \in BOOLEAN, FaceAccepted(ok, sync)
  PROVE  WarmInv'
<1> DEFINE p == [page EXCEPT !.face = page.faceFor, !.faceFor = 0]
           q == [page EXCEPT !.fontRun = "idle", !.faceFor = 0]
           s == [Now EXCEPT !.page = p]
           t == [Now EXCEPT !.page = q]
           u == [s EXCEPT !.page.fontRun = "waiting"]
           k == [who |-> "font"]
<1>1. Good(Now) /\ 0 \in Faces
  BY NowOK, WarmAssumption DEF WarmInv, FaceAccepted, Idle, Faces
<1>2. p \in PageType /\ q \in PageType /\ p.loaded = page.loaded
  BY <1>1 DEF WarmInv, InTypes, PageType, FontRuns
<1>3. [Now EXCEPT !.page.face = page.faceFor, !.page.faceFor = 0] = s
      /\ [Now EXCEPT !.page.fontRun = "idle", !.page.faceFor = 0] = t
  BY DEF Now
<1>4. UNCHANGED <<idle, left>>
      /\ Becomes(CASE ~ok -> t
                   [] ok /\ page.loaded = None -> Painting(s)
                   [] ok /\ page.loaded = Ready -> SyncFont(s, sync)
                   [] OTHER -> AwaitEngine(u, k))
  BY <1>3 DEF FaceAccepted
<1>5. s.page = p
  BY <1>1 DEF Good, States
<1> HIDE DEF p, q
<1>6. Good(s) /\ Good(t)
  BY <1>1, <1>2, PageOK
<1> HIDE DEF s, t
<1>7. Good(u) /\ u.page.loaded = page.loaded
  BY <1>2, <1>5, <1>6, FontRunOK DEF FontRuns
<1>8. k \in GoType
  BY DEF GoType
<1> HIDE DEF u, k
<1>9. CASE ~ok
  BY <1>4, <1>6, <1>9, PageStepOK
<1>10. CASE ok /\ page.loaded = None
  <2>1. Becomes(Painting(s))
    BY <1>4, <1>10 DEF Ready, None
  <2> QED
    BY <1>4, <1>6, <2>1, PaintingOK, PageStepOK
<1>11. CASE ok /\ page.loaded = Ready
  <2>1. Becomes(SyncFont(s, sync))
    BY <1>4, <1>11 DEF Ready, None
  <2> QED
    BY <1>4, <1>6, <2>1, SyncFontOK, PageStepOK
<1>12. CASE ok /\ page.loaded # None /\ page.loaded # Ready
  <2>1. page.loaded \in Preps
    BY <1>12 DEF WarmInv, InTypes, PageType
  <2>2. Good(AwaitEngine(u, k))
    BY <1>7, <1>8, <2>1, AwaitEngineOK
  <2>3. Becomes(AwaitEngine(u, k))
    BY <1>4, <1>12
  <2> QED
    BY <1>4, <2>2, <2>3, PageStepOK
<1> QED
  BY <1>9, <1>10, <1>11, <1>12

LEMMA FireWarmOK ==
  ASSUME WarmInv, NEW ok \in BOOLEAN, FireWarm(ok)
  PROVE  WarmInv'
<1> DEFINE p == [page EXCEPT !.settle = FALSE]
           k == [who |-> "warm", key |-> Key(page), tok |-> page.version]
           q == [p EXCEPT !.firing = k.key]
           s == [Now EXCEPT !.page = p]
           fired == [Now EXCEPT !.page = q]
           skip == \/ page.book = None \/ Exporting(page)
                   \/ k.key \in {page.warmKey, page.firing}
<1>1. Good(Now) /\ page \in PageType
  BY NowOK DEF WarmInv, FireWarm, Idle, InTypes
<1>2. k \in GoType /\ IsWarm(k) /\ k.key \in Keys
  BY <1>1, ChosenOK DEF GoType, IsWarm, PageType
<1>3. p \in PageType
  BY <1>1 DEF PageType
<1>4. [Now EXCEPT !.page.settle = FALSE] = s
      /\ [[Now EXCEPT !.page.settle = FALSE] EXCEPT !.page.firing = k.key] = fired
  BY DEF Now
<1>a. UNCHANGED <<idle, left>>
      /\ Becomes(CASE skip -> s
                   [] OTHER -> CASE page.loaded = None -> WarmEnds(fired)
                                 [] page.loaded = Ready -> SendWarm(fired, k, ok)
                                 [] OTHER -> AwaitEngine(fired, k))
  <2> HIDE DEF p, q, k
  <2> QED
    BY <1>4 DEF FireWarm, k
<1> HIDE DEF k, skip
<1>5. q \in PageType /\ q.loaded = page.loaded
  BY <1>1, <1>2, <1>3 DEF PageType
<1>6. fired.page = q
  BY <1>1 DEF Good, States
<1> HIDE DEF p, q
<1>7. Good(s) /\ Good(fired)
  BY <1>1, <1>3, <1>5, PageOK
<1> HIDE DEF s, fired
<1>8. CASE skip
  BY <1>a, <1>7, <1>8, PageStepOK
<1>9. CASE ~skip /\ page.loaded = None
  <2>1. Becomes(WarmEnds(fired))
    BY <1>a, <1>9 DEF Ready, None
  <2> QED
    BY <1>a, <1>7, <2>1, WarmEndsOK, PageStepOK
<1>10. CASE ~skip /\ page.loaded = Ready
  <2>1. Becomes(SendWarm(fired, k, ok))
    BY <1>a, <1>10 DEF Ready, None
  <2> QED
    BY <1>a, <1>2, <1>7, <2>1, SendWarmOK, PageStepOK
<1>11. CASE ~skip /\ page.loaded # None /\ page.loaded # Ready
  <2>1. page.loaded \in Preps
    BY <1>1, <1>11 DEF PageType
  <2>2. Good(AwaitEngine(fired, k))
    BY <1>2, <1>5, <1>6, <1>7, <2>1, AwaitEngineOK
  <2>3. Becomes(AwaitEngine(fired, k))
    BY <1>a, <1>11
  <2> QED
    BY <1>a, <2>2, <2>3, PageStepOK
<1> QED
  BY <1>8, <1>9, <1>10, <1>11

LEMMA PressStepOK ==
  ASSUME WarmInv, Press
  PROVE  WarmInv'
<1>1. page' \in PageType
  BY DEF WarmInv, InTypes, PageType, Presses, Press
<1>2. left' \in LeftType
  BY LessLeft DEF WarmInv, Press, Acts
<1>3. Saved'
  BY NoSaveOK DEF Press
<1> QED
  BY <1>1, <1>2, <1>3 DEF WarmInv, InTypes, Press

LEMMA PingReplyOK ==
  ASSUME WarmInv, NEW pool \in BOOLEAN, NEW ok \in BOOLEAN, PingReply(pool, ok)
  PROVE  WarmInv'
<1> DEFINE want == [book |-> page.book, spec |-> Chosen(page), face |-> page.face,
                    calm |-> ~(page.convert \/ Converting(page)), ready |-> page.loaded # None \/ page.book # None]
           p == [page EXCEPT !.want = want]
           s == [Now EXCEPT !.page = p]
           w == [s EXCEPT !.page.press = "wait"]
           f == [s EXCEPT !.page.press = "fetch"]
           k == [who |-> "export"]
<1>1. Good(Now) /\ page \in PageType /\ Now.prep = prep
  BY NowOK DEF WarmInv, PingReply, Idle, InTypes
<1>2. want \in WantType
  BY <1>1, ChosenOK DEF WantType, PageType
<1>3. UNCHANGED <<idle, left>> /\ (page.loaded = None => FreePreps(Now) # {})
      /\ Becomes(IF page.warmKey = Key(page) THEN Call(f, HandleFetch(Engine(s))) ELSE PingAnswered(s, pool, ok))
  <2>1. [Now EXCEPT !.page.want = want] = s
    BY DEF Now
  <2> HIDE DEF s
  <2> QED
    BY <2>1 DEF PingReply
<1> HIDE DEF want
<1>4. p \in PageType /\ p.loaded = page.loaded /\ p.book = page.book
  BY <1>1, <1>2 DEF PageType
<1>5. s.page = p /\ s.prep = prep
  BY <1>1 DEF Good, States
<1> HIDE DEF p
<1>6. Good(s)
  BY <1>1, <1>4, PageOK
<1> HIDE DEF s
<1>7. Good(w) /\ w.page.loaded = page.loaded /\ w.page.book = page.book /\ w.prep = prep /\ Good(f)
  BY <1>4, <1>5, <1>6, PressOK DEF Presses
<1>8. k \in GoType
  BY DEF GoType
<1>9. PingAnswered(s, pool, ok) =
        CASE page.loaded = Ready \/ (page.loaded = None /\ page.book = None) -> Convert(w, pool, ok)
          [] page.loaded = None /\ page.book # None -> AwaitEngine(Prepare(w, page.book), k)
          [] OTHER -> AwaitEngine(w, k)
  BY <1>4, <1>5 DEF PingAnswered
<1>b. Good(Call(f, HandleFetch(Engine(s))))
  <2>1. Fine(HandleFetch(Engine(s)))
    BY <1>6, EngineOK, HandleFetchOK
  <2> HIDE DEF f
  <2> QED
    BY <1>7, <2>1, CallOK
<1> HIDE DEF w, f, k
<1>10. Good(PingAnswered(s, pool, ok))
  <2>1. CASE page.loaded = Ready \/ (page.loaded = None /\ page.book = None)
    <3>1. PingAnswered(s, pool, ok) = Convert(w, pool, ok)
      BY <1>9, <2>1 DEF Ready, None
    <3> QED
      BY <1>7, <3>1, ConvertOK
  <2>2. CASE ~(page.loaded = Ready \/ (page.loaded = None /\ page.book = None)) /\ page.loaded = None
    <3>1. page.book \in Books /\ FreePreps(w) # {}
      BY <1>1, <1>3, <1>7, <2>2 DEF PageType, FreePreps
    <3>2. Good(Prepare(w, page.book)) /\ Prepare(w, page.book).page.loaded \in Preps
      BY <1>7, <3>1, PrepareOK
    <3>3. Good(AwaitEngine(Prepare(w, page.book), k))
      BY <1>8, <3>2, AwaitEngineOK
    <3>4. PingAnswered(s, pool, ok) = AwaitEngine(Prepare(w, page.book), k)
      BY <1>9, <2>2
    <3> QED
      BY <3>3, <3>4
  <2>3. CASE ~(page.loaded = Ready \/ (page.loaded = None /\ page.book = None)) /\ page.loaded # None
    <3>1. page.loaded \in Preps
      BY <1>1, <2>3 DEF PageType
    <3>2. PingAnswered(s, pool, ok) = AwaitEngine(w, k)
      BY <1>9, <2>3
    <3> QED
      BY <1>7, <1>8, <3>1, <3>2, AwaitEngineOK
  <2> QED
    BY <2>1, <2>2, <2>3
<1> QED
  BY <1>3, <1>b, <1>10, PageStepOK

LEMMA PoolEndsOK ==
  ASSUME WarmInv, PoolEnds
  PROVE  WarmInv'
<1>1. Good(Unlock(Now))
  BY NowOK, UnlockOK DEF WarmInv, PoolEnds, Idle
<1> QED
  BY <1>1, PageStepOK DEF PoolEnds

LEMMA EngineDiesOK ==
  ASSUME WarmInv, EngineDies
  PROVE  WarmInv'
<1>1. Good(KillExportEngine(Now))
  BY NowOK, KillExportEngineOK DEF WarmInv, EngineDies, Idle
<1>2. left' \in LeftType /\ idle' = idle
  BY LessLeft DEF WarmInv, EngineDies
<1> QED
  BY <1>1, <1>2, BecomesOK DEF WarmInv, EngineDies

LEMMA ContinueOK ==
  ASSUME WarmInv, NEW pool \in BOOLEAN, NEW ok \in BOOLEAN, Continue(pool, ok)
  PROVE  WarmInv'
<1> DEFINE c == Head(micro)
           rest == Tail(micro)
           s == [Now EXCEPT !.micro = rest]
<1>1. Good(Now) /\ micro \in Seq(MicroType) /\ micro # << >>
  BY NowOK DEF WarmInv, Continue, InTypes
<1>2. c \in MicroType /\ rest \in Seq(MicroType)
  BY <1>1
<1>3. UNCHANGED <<idle, left>>
      /\ Becomes(CASE c.go.who = "warm" -> IF c.ok THEN SendWarm(s, c.go, ok) ELSE WarmEnds(s)
                   [] c.go.who = "font" -> IF c.ok THEN SyncFont(s, ok) ELSE SyncFails(s)
                   [] c.go.who = "export" -> Convert(Awaited(s, c.ok), pool, ok))
  BY DEF Continue, Now
<1> HIDE DEF c, rest
<1>4. Good(s)
  BY <1>1, <1>2 DEF Good, States
<1> HIDE DEF s
<1>5. CASE c.go.who = "warm"
  <2>1. IsWarm(c.go)
    BY <1>2, <1>5 DEF MicroType, GoType, IsWarm
  <2>2. Good(SendWarm(s, c.go, ok)) /\ Good(WarmEnds(s))
    BY <1>4, <2>1, SendWarmOK, WarmEndsOK
  <2>3. Becomes(SendWarm(s, c.go, ok)) \/ Becomes(WarmEnds(s))
    BY <1>3, <1>5
  <2> QED
    BY <1>3, <2>2, <2>3, PageStepOK
<1>6. CASE c.go.who = "font"
  <2>1. Good(SyncFont(s, ok)) /\ Good(SyncFails(s))
    BY <1>4, SyncFontOK, SyncFailsOK
  <2>2. Becomes(SyncFont(s, ok)) \/ Becomes(SyncFails(s))
    BY <1>3, <1>6
  <2> QED
    BY <1>3, <2>1, <2>2, PageStepOK
<1>7. CASE c.go.who = "export"
  <2>1. Becomes(Convert(Awaited(s, c.ok), pool, ok))
    BY <1>3, <1>7
  <2>2. Good(Awaited(s, c.ok))
    BY <1>2, <1>4, AwaitedOK DEF MicroType
  <2> QED
    BY <1>3, <2>1, <2>2, ConvertOK, PageStepOK
<1> QED
  BY <1>2, <1>5, <1>6, <1>7 DEF MicroType, GoType

-----------------------------------------------------------------------------
\* An answer is taken from the inbox.
LEMMA TakenOK ==
  ASSUME WarmInv, NEW re, Answered(re)
  PROVE  Good(Taken) /\ Taken.page = page /\ Taken.worker = worker /\ Head(inbox) \in MessageType /\ Head(inbox).re = re
<1> DEFINE rest == Tail(inbox)
<1>1. /\ Good(Now) /\ Now.page = page /\ Now.worker = worker /\ Now.inbox = inbox
      /\ inbox \in Seq(MessageType) /\ inbox # << >> /\ Head(inbox).re = re
  BY NowOK DEF WarmInv, Answered, Idle, InTypes
<1>2. Head(inbox) \in MessageType /\ rest \in Seq(MessageType)
  BY <1>1
<1>3. Taken = [Now EXCEPT !.inbox = rest]
  BY <1>1 DEF Taken
<1> HIDE DEF rest
<1>4. Good(Taken) /\ Taken.page = Now.page /\ Taken.worker = Now.worker
  BY <1>1, <1>2, <1>3 DEF Good, States
<1> QED
  BY <1>1, <1>2, <1>4

LEMMA LoadAnsweredOK ==
  ASSUME WarmInv, NEW ok \in BOOLEAN, LoadAnswered(ok)
  PROVE  WarmInv'
<1> DEFINE m == Head(inbox)
           t == [Taken EXCEPT !.prep[m.id].step = "font"]
           r == HandleFont(worker, m.id, page.face, ok)
<1>1. Good(Taken) /\ Taken.page = page /\ Taken.worker = worker /\ m \in MessageType /\ m.re = "load"
  BY TakenOK DEF LoadAnswered
<1>2. m.id \in Preps /\ m.ok \in BOOLEAN
  BY <1>1 DEF MessageType
<1>3. UNCHANGED <<idle, left>>
      /\ Becomes(CASE ~m.ok -> PrepFails(Taken, m.id)
                   [] m.ok /\ page.face = 0 -> PrepSucceeds(Taken, m.id)
                   [] OTHER -> Call(t, r))
  BY DEF LoadAnswered
<1>4. Good(PrepFails(Taken, m.id)) /\ Good(PrepSucceeds(Taken, m.id))
  BY <1>1, <1>2, PrepFailsOK, PrepSucceedsOK
<1>5. Good(Call(t, r))
  <2> HIDE DEF m
  <2> DEFINE new == [Taken.prep[m.id] EXCEPT !.step = "font"]
             preps == [Taken.prep EXCEPT ![m.id] = new]
  <2>1. new \in PrepType
    BY <1>1, <1>2 DEF Good, States, PrepType
  <2>2. t = [Taken EXCEPT !.prep = preps]
    OBVIOUS
  <2> HIDE DEF new
  <2>3. preps \in [Preps -> PrepType]
    BY <1>1, <2>1 DEF Good, States
  <2> HIDE DEF preps, t
  <2>4. Good(t)
    BY <1>1, <2>2, <2>3 DEF Good, States
  <2>5. Calm(worker) /\ page.face \in Faces
    BY <1>1 DEF Good, WarmInv, InTypes, PageType
  <2>6. Fine(r)
    BY <1>2, <2>5, HandleFontOK
  <2> HIDE DEF r
  <2> QED
    BY <2>4, <2>6, CallOK
<1> HIDE DEF m, t, r
<1>6. \/ Becomes(PrepFails(Taken, m.id)) \/ Becomes(PrepSucceeds(Taken, m.id)) \/ Becomes(Call(t, r))
  BY <1>2, <1>3
<1> QED
  BY <1>3, <1>4, <1>5, <1>6, PageStepOK

LEMMA FontAnsweredOK ==
  ASSUME WarmInv, FontAnswered
  PROVE  WarmInv'
<1> DEFINE m == Head(inbox)
<1>1. Good(Taken) /\ m \in MessageType /\ m.re = "loadFont"
  BY TakenOK DEF FontAnswered
<1>2. m.id \in {0} \cup Preps /\ m.ok \in BOOLEAN
  BY <1>1 DEF MessageType
<1>3. UNCHANGED <<idle, left>>
      /\ Becomes(CASE m.id # 0 /\ m.ok -> PrepSucceeds(Taken, m.id)
                   [] m.id # 0 /\ ~m.ok -> PrepFails(Taken, m.id)
                   [] m.id = 0 /\ m.ok -> Painting(Taken)
                   [] m.id = 0 /\ ~m.ok -> SyncFails(Taken))
  BY DEF FontAnswered
<1> HIDE DEF m
<1>4. CASE m.id # 0
  <2>1. Good(PrepFails(Taken, m.id)) /\ Good(PrepSucceeds(Taken, m.id))
    BY <1>1, <1>2, <1>4, PrepFailsOK, PrepSucceedsOK
  <2>2. Becomes(PrepFails(Taken, m.id)) \/ Becomes(PrepSucceeds(Taken, m.id))
    BY <1>2, <1>3, <1>4
  <2> QED
    BY <1>3, <2>1, <2>2, PageStepOK
<1>5. CASE m.id = 0
  <2>1. Good(Painting(Taken)) /\ Good(SyncFails(Taken))
    BY <1>1, PaintingOK, SyncFailsOK
  <2>2. Becomes(Painting(Taken)) \/ Becomes(SyncFails(Taken))
    BY <1>2, <1>3, <1>5
  <2> QED
    BY <1>3, <2>1, <2>2, PageStepOK
<1> QED
  BY <1>4, <1>5

LEMMA WarmAnsweredOK ==
  ASSUME WarmInv, WarmAnswered
  PROVE  WarmInv'
<1> DEFINE m == Head(inbox)
           t == [Taken EXCEPT !.page.warmKey = m.key]
           s == CASE m.res = "error" -> ScheduleWarm(Taken)
                  [] m.res = "busy" /\ Current(m) -> ScheduleWarm(Taken)
                  [] m.res = "ready" /\ Current(m) -> t
                  [] OTHER -> Taken
<1>1. Good(Taken) /\ m \in MessageType /\ m.re = "warm"
  BY TakenOK DEF WarmAnswered
<1>2. m.key \in Keys
  BY <1>1 DEF MessageType
<1>3. UNCHANGED <<idle, left>> /\ Becomes(WarmEnds(s))
  BY DEF WarmAnswered
<1>4. Good(t)
  <2> HIDE DEF m
  <2> DEFINE p == [Taken.page EXCEPT !.warmKey = m.key]
  <2>1. p \in PageType
    BY <1>1, <1>2 DEF Good, States, PageType
  <2>2. t = [Taken EXCEPT !.page = p]
    OBVIOUS
  <2> HIDE DEF p, t
  <2> QED
    BY <1>1, <2>1, <2>2, PageOK
<1>5. Good(ScheduleWarm(Taken))
  BY <1>1, ScheduleWarmOK
<1> HIDE DEF t, m
<1>6. Good(s)
  BY <1>1, <1>4, <1>5
<1> HIDE DEF s
<1> QED
  BY <1>3, <1>6, WarmEndsOK, PageStepOK

LEMMA FileAnsweredOK ==
  ASSUME WarmInv, FileAnswered
  PROVE  WarmInv'
<1> DEFINE m == Head(inbox)
           t == [Taken EXCEPT !.page.warmKey = NoKey]
<1>1. Good(Taken) /\ m \in MessageType /\ m.re = "file"
  BY TakenOK DEF FileAnswered
<1>2. m.made \in Uniform
  BY <1>1 DEF MessageType
<1>3. Good(t)
  <2> DEFINE p == [Taken.page EXCEPT !.warmKey = NoKey]
  <2>1. p \in PageType
    BY <1>1, DefaultType DEF Good, States, PageType
  <2>2. t = [Taken EXCEPT !.page = p]
    OBVIOUS
  <2> HIDE DEF p, t
  <2> QED
    BY <1>1, <2>1, <2>2, PageOK
<1>4. CASE m.made = NoFile
  <2>1. Becomes(Unlock(Taken)) /\ UNCHANGED <<idle, left>>
    BY <1>4 DEF FileAnswered
  <2> QED
    BY <1>1, <2>1, UnlockOK, PageStepOK
<1>5. CASE m.made # NoFile
  <2>1. /\ Turns(Unlock(t)) /\ UNCHANGED <<idle, left>>
        /\ saved' = [made |-> m.made, title |-> page.book, want |-> page.want]
    BY <1>5 DEF FileAnswered
  <2>2. page.book \in {None} \cup Books
    BY DEF WarmInv, InTypes, PageType
  <2> HIDE DEF m, t
  <2>3. Saved'
    BY <1>2, <2>1, <2>2 DEF Saved
  <2>4. InTypes' /\ Sound(worker)'
    BY <1>3, <2>1, UnlockOK, TurnsOK
  <2> QED
    BY <2>1, <2>3, <2>4 DEF WarmInv
<1> QED
  BY <1>4, <1>5

-----------------------------------------------------------------------------
LEMMA WorksOK ==
  ASSUME WarmInv, NEW r, Sounds(r), Works(r)
  PROVE  WarmInv'
<1>1. inbox \in Seq(MessageType) /\ r.out \in Seq(MessageType)
  BY DEF WarmInv, InTypes, Sounds, Talks
<1>2. inbox' \in Seq(MessageType)
  BY <1>1 DEF Works
<1>3. Sound(worker') /\ Saved'
  BY NoSaveOK DEF Works, Sounds
<1> QED
  BY <1>2, <1>3 DEF WarmInv, InTypes, Works

LEMMA WorkerStepsOK ==
  ASSUME WarmInv, NEW ok \in BOOLEAN, WakeNext(ok) \/ BookRead(ok) \/ WarmStep(ok) \/ ExportStep(ok)
  PROVE  WarmInv'
<1>0. Sound(worker)
  BY DEF WarmInv
<1>1. CASE WakeNext(ok)
  <2>1. Sounds(Resume([worker EXCEPT !.woken = Tail(worker.woken)], Head(worker.woken), ok))
    BY <1>0, <1>1, ResumeOK DEF WakeNext
  <2>2. Works(Resume([worker EXCEPT !.woken = Tail(worker.woken)], Head(worker.woken), ok))
    BY <1>1 DEF WakeNext
  <2> QED
    BY <2>1, <2>2, WorksOK
<1>2. CASE BookRead(ok)
  <2>1. Sounds(LoadEnds(worker, ok))
    BY <1>0, <1>2, LoadEndsOK DEF BookRead, Calm, Replacing
  <2> QED
    BY <1>2, <2>1, WorksOK DEF BookRead
<1>3. CASE WarmStep(ok)
  <2>1. Sounds(WarmGoesOn(worker, ok))
    BY <1>0, <1>3, WarmGoesOnOK DEF WarmStep, Calm
  <2> QED
    BY <1>3, <2>1, WorksOK DEF WarmStep
<1>4. CASE ExportStep(ok)
  <2>1. Sounds(ExportGoesOn(worker, ok))
    BY <1>0, <1>4, ExportGoesOnOK DEF ExportStep, Calm
  <2> QED
    BY <1>4, <2>1, WorksOK DEF ExportStep
<1> QED
  BY <1>1, <1>2, <1>3, <1>4

-----------------------------------------------------------------------------
LEMMA OutcomeType ==
  ASSUME NEW what
  PROVE  Outcome(what) \subseteq BOOLEAN
BY DEF Outcome

LEMMA WarmInit ==
  Init => WarmInv
<1>1. SUFFICES ASSUME Init PROVE WarmInv
  OBVIOUS
<1>2. 0 \in Faces /\ 0 \in Nat /\ MaxActs \in 0 .. MaxActs /\ MaxOpens \in 0 .. MaxOpens
      /\ MaxDeaths \in 0 .. MaxDeaths
  BY WarmAssumption DEF Faces
<1>3. page \in PageType
  BY <1>1, <1>2, DefaultType, NoPrepType DEF Init, PageType, FontRuns, Presses
<1>4. prep \in [Preps -> PrepType]
  BY <1>1, NoPrepType DEF Init
<1>5. Sound(worker)
  BY <1>1, NoWorkerCalm DEF Init, Calm
<1>6. Saved
  BY <1>1, NoFileType DEF Init, Saved, NoSave
<1>7. idle \in IdleType /\ left \in LeftType
  BY <1>1, <1>2 DEF Init, IdleType, LeftType
<1>8. micro \in Seq(MicroType) /\ inbox \in Seq(MessageType)
  BY <1>1 DEF Init
<1> QED
  BY <1>3, <1>4, <1>5, <1>6, <1>7, <1>8 DEF WarmInv, InTypes

LEMMA WarmStepOK ==
  WarmInv /\ [Next]_vars => WarmInv'
<1>1. SUFFICES ASSUME WarmInv, [Next]_vars PROVE WarmInv'
  OBVIOUS
<1>a. Pool \subseteq BOOLEAN
  BY WarmAssumption
<1>2. CASE Reader
  BY <1>1, <1>2, OpenBookOK, PressStepOK, SetsOK, TurnFontKnobSets, ChangeLookSets, ChooseFontSets DEF Reader
<1>3. CASE OpeningEnds
  BY <1>1, <1>3, BookOpenedOK, BookFailsOK DEF OpeningEnds
<1>4. CASE IdleTime
  BY <1>1, <1>4, FrameShownOK, IdlePrepOK DEF IdleTime
<1>5. CASE Timers
  BY <1>1, <1>5, OutcomeType, FireWarmOK DEF Timers
<1>6. CASE Conversion
  BY <1>1, <1>6, OutcomeType, SetsOK, ConvertStartsSets, FacePaintedSets, FontConvertedSets, FaceAcceptedOK DEF Conversion
<1>7. CASE Ping
  BY <1>1, <1>7, <1>a, OutcomeType, PingReplyOK DEF Ping
<1>8. CASE PoolEnds \/ EngineDies
  BY <1>1, <1>8, PoolEndsOK, EngineDiesOK
<1>9. CASE Continues
  BY <1>1, <1>9, <1>a, OutcomeType, ContinueOK DEF Continues
<1>10. CASE Answers
  BY <1>1, <1>10, OutcomeType, LoadAnsweredOK, FontAnsweredOK, WarmAnsweredOK, FileAnsweredOK DEF Answers
<1>11. CASE Wakes \/ Reads \/ Spine
  BY <1>1, <1>11, OutcomeType, WorkerStepsOK DEF Wakes, Reads, Spine
<1>12. CASE UNCHANGED vars
  BY <1>1, <1>12 DEF vars, WarmInv, InTypes, Saved
<1> QED
  BY <1>1, <1>2, <1>3, <1>4, <1>5, <1>6, <1>7, <1>8, <1>9, <1>10, <1>11, <1>12 DEF Next

LEMMA WarmInvHolds ==
  Spec => []WarmInv
BY WarmInit, WarmStepOK, PTL DEF Spec

-----------------------------------------------------------------------------
(***************************************************************************)
(* The theorems.                                                           *)
(***************************************************************************)
\* Whatever the reader does and wherever the engine dies, every variable keeps its type: each
\* answer is of a call the page knows, each continuation of one it can go on with.
THEOREM WarmTypeCorrect ==
  Spec => []TypeOK
<1>1. WarmInv => TypeOK
  <2>1. SUFFICES ASSUME WarmInv PROVE TypeOK
    OBVIOUS
  <2>2. page \in PageType /\ prep \in [Preps -> PrepType] /\ micro \in Seq(MicroType) /\ inbox \in Seq(MessageType)
        /\ worker \in WorkerType /\ Saved /\ idle \in IdleType
    BY <2>1 DEF WarmInv, InTypes, Sound
  <2>3. \A i \in Preps : /\ prep[i].step \in {"off", "load", "font"}
                         /\ \A n \in DOMAIN prep[i].waiters : prep[i].waiters[n].who \in Waiters
    <3>1. TAKE i \in Preps
    <3>2. prep[i].step \in {"off", "load", "font"} /\ prep[i].waiters \in Seq(GoType)
      BY <2>2 DEF PrepType
    <3>3. ASSUME NEW n \in DOMAIN prep[i].waiters PROVE prep[i].waiters[n].who \in Waiters
      <4>1. prep[i].waiters[n] \in GoType
        BY <3>2
      <4> QED
        BY <4>1 DEF GoType, Waiters
    <3> QED
      BY <3>2, <3>3
  <2>4. \A n \in DOMAIN micro : micro[n].go.who \in Waiters /\ micro[n].ok \in BOOLEAN
    <3>1. TAKE n \in DOMAIN micro
    <3>2. micro[n] \in MicroType
      BY <2>2
    <3> QED
      BY <3>2 DEF MicroType, GoType, Waiters
  <2>5. \A n \in DOMAIN inbox : inbox[n].re \in {"load", "loadFont", "warm", "file"}
    <3>1. TAKE n \in DOMAIN inbox
    <3>2. inbox[n] \in MessageType
      BY <2>2
    <3> QED
      BY <3>2 DEF MessageType
  <2>6. \A q \in Seq(HandlerType) : \A n \in DOMAIN q : q[n].cmd \in Handlers
    <3>1. ASSUME NEW q \in Seq(HandlerType), NEW n \in DOMAIN q PROVE q[n].cmd \in Handlers
      <4>1. q[n] \in HandlerType
        OBVIOUS
      <4> QED
        BY <4>1 DEF HandlerType, Handlers
    <3> QED
      BY <3>1
  <2>7. \A n \in DOMAIN worker.loads : worker.loads[n] \in [prep : Preps, book : Books]
    <3>1. worker.loads \in Seq(LoadType)
      BY <2>2 DEF WorkerType
    <3>2. ASSUME NEW n \in DOMAIN worker.loads PROVE worker.loads[n] \in LoadType
      BY <3>1
    <3> QED
      BY <3>2 DEF LoadType
  <2>8. RunType \subseteq Runs /\ Uniform \subseteq SUBSET Sources
    BY DEF RunType, Runs, Uniform
  <2>9. /\ worker.alive \in BOOLEAN /\ worker.book \in {None} \cup Books /\ worker.custom \in Faces
        /\ worker.spec \in Settings \cup {NoSpec} /\ worker.font \in {"kopub", "custom"}
        /\ worker.token \in Nat /\ {worker.warm, worker.job} \subseteq Runs
        /\ worker.bytes \in SUBSET Sources
    BY <2>2, <2>8 DEF WorkerType, SpecType, Fonts
  <2>10. worker.waiting \in Seq(HandlerType) /\ worker.woken \in Seq(HandlerType)
    BY <2>2 DEF WorkerType
  <2>11. /\ page.book \in {None} \cup Books /\ page.opening \in {None} \cup Books
         /\ page.choice \in Settings /\ {page.sig, page.face, page.faceFor} \subseteq Faces
         /\ {page.convert, page.faceLoaded, page.settle} \subseteq BOOLEAN
         /\ page.fontRun \in {"idle", "converting", "preview", "waiting", "sync", "painting"}
         /\ page.version \in Nat /\ {page.warmKey, page.firing} \subseteq Keys
         /\ page.loaded \in {None, Ready} \cup Preps
         /\ page.press \in {"no", "ping", "wait", "fetch", "serial", "pool"}
    BY <2>2 DEF PageType, FontRuns, Presses
  <2>12. /\ idle.frame \subseteq Books /\ idle.prep \subseteq Books
         /\ saved.made \in SUBSET Sources /\ saved.title \in {None} \cup Books
    BY <2>2, <2>8 DEF IdleType, Saved
  <2> QED
    BY <2>3, <2>4, <2>5, <2>6, <2>7, <2>9, <2>10, <2>11, <2>12 DEF TypeOK
<1> QED
  BY <1>1, WarmInvHolds, PTL

\* What arrives between two spines (a book, a face, a press of the button, a newer warm) waits
\* or is refused, so a file that is kept or saved has all its spines from one source.
THEOREM FilesHaveOneSource ==
  Spec => []OneSourcePerFile
<1>1. WarmInv => OneSourcePerFile
  BY DEF WarmInv, Sound, WorkerType, Saved, Uniform, OneSourcePerFile
<1> QED
  BY <1>1, WarmInvHolds, PTL

\* stopWarmBeforeMutation raises the token before it waits, and nothing lowers it below that of
\* the running warm: whoever waits for a warm waits for one that ends at its next yield.
THEOREM WaitsAreShort ==
  Spec => []WaitersWillGo
<1>1. WarmInv => WaitersWillGo
  BY DEF WarmInv, Sound, Stops, WaitersWillGo
<1> QED
  BY <1>1, WarmInvHolds, PTL

===============================================================================
