---------------------------- MODULE WarmFiles_proofs ----------------------------
(***************************************************************************)
(* Proofs about what is in the file an export saves (web/app.js: outputKey,*)
(* scheduleWarm, fireWarm, invalidateWarm, applyCustomFont,                *)
(* exportAndDownload; web/ko.worker.js: warm, fetchWarm, exportBook,       *)
(* loadFont): it was made for the settings on the screen when it was asked *)
(* for, and where these draw with the custom face, with the face the page  *)
(* owned then, also when it is the result of a warm that was started long  *)
(* before.                                                                 *)
(*                                                                         *)
(* Goals say what a conversion is to be made from.  A warm of the page's   *)
(* present version has the goal of the page, and so have the bytes the     *)
(* engine keeps while the page remembers a key or is about to; an export   *)
(* has the goal it was asked for with.  The worker is shown to keep to any *)
(* two goals, one for its warm and one for its export.                     *)
(*                                                                         *)
(* The look is part of every request; the face is what the engine has when *)
(* a conversion begins.  Whoever waits for the engine and wants the face   *)
(* of the page finds it there, because no older one comes after the call   *)
(* it waits for, or finds an engine without a book, which converts nothing *)
(* before it is prepared again.                                            *)
(***************************************************************************)
EXTENDS WarmCalls_proofs

-----------------------------------------------------------------------------
(***************************************************************************)
(* Goals: the settings, and where strict, the face.                        *)
(***************************************************************************)
As(x, g)       == x.look = g.look /\ (g.strict => x.font = "custom" /\ x.face = g.face)
MadeAs(made, g) == \A x \in made : As(x, g)
SpecAs(spec, g) == spec.look = g.look /\ (g.strict => spec.font = "custom")
\* A conversion under way made g and will make g.
RunAs(w, run, g) == MadeAs(run.made, g) /\ As(Source(w, run.snap), g)
\* The engine would draw g when told to use spec.
Draws(w, spec, g) ==
  SpecAs(spec, g) /\ (g.strict => w.custom = g.face /\ (w.spec.font = "custom" => w.font = "custom"))

\* A warm is of no later version than v, and one of v makes g.
WarmAs(w, v, g) == w.warm.on => w.alive /\ w.warm.tok <= v /\ (w.warm.tok = v => RunAs(w, w.warm, g))
\* An export that waits or is under way makes h.
ExportsAs(q, h) == \A n \in DOMAIN q : q[n].cmd = "exportBook" => SpecAs(q[n].spec, h)
JobAs(w, h) ==
  /\ ExportsAs(w.waiting, h) /\ ExportsAs(w.woken, h)
  /\ w.job.done > 0 => RunAs(w, w.job, h)
Heeds(w, v, g, h) == WarmAs(w, v, g) /\ JobAs(w, h)

\* The bytes of the engine are of g, and no warm of an earlier version will replace them.
Fresh(w, v, g) == w.alive /\ w.token >= v /\ MadeAs(w.bytes, g)

\* Answers: no warm of a later version than v, no file but of h; and whether a warm of v has ended.
Told(out, v, h) == \A n \in DOMAIN out :
  /\ out[n].re = "warm" => out[n].tok <= v
  /\ out[n].re = "file" => MadeAs(out[n].made, h)
Ripe(out, v) == \E n \in DOMAIN out : out[n].re = "warm" /\ out[n].res = "ready" /\ out[n].tok = v

\* A handler keeps to the goals.
Stays(r, w, v, g, h) ==
  /\ Heeds(r.w, v, g, h) /\ Told(r.out, v, h)
  /\ Fresh(w, v, g) \/ Ripe(r.out, v) => Fresh(r.w, v, g)

LEMMA SourceIs ==
  ASSUME NEW w, NEW snap
  PROVE  /\ Source(w, snap).look = snap.look /\ Source(w, snap).font = snap.font
         /\ Source(w, snap).face = IF snap.font = "custom" THEN w.custom ELSE 0
BY DEF Source

LEMMA RunAsSame ==
  ASSUME NEW w, NEW v, v.custom = w.custom, NEW run, NEW g, RunAs(w, run, g)
  PROVE  RunAs(v, run, g)
BY SourceIs DEF RunAs, As

LEMMA NextSpineAs ==
  ASSUME NEW w, NEW run, run \in RunType, NEW g, RunAs(w, run, g)
  PROVE  LET next == NextSpine(w, run)
         IN  RunAs(w, next, g) /\ next.on = run.on /\ next.tok = run.tok
<1> DEFINE next == NextSpine(w, run)
<1>1. /\ next.made = run.made \cup {Source(w, run.snap)} /\ next.snap = run.snap
      /\ next.on = run.on /\ next.tok = run.tok
  BY DEF NextSpine, RunType
<1> HIDE DEF next
<1>2. RunAs(w, next, g)
  BY <1>1 DEF RunAs, MadeAs
<1> QED
  BY <1>1, <1>2 DEF next

\* The first spine of a run that keeps the settings in force.
LEMMA FirstSpineAs ==
  ASSUME NEW w \in WorkerType, NEW m, NEW g, w.spec.look = g.look,
         g.strict => w.font = "custom" /\ w.custom = g.face
  PROVE  LET next == NextSpine(w, Run(w, m))
         IN  RunAs(w, next, g) /\ next.on /\ next.tok = m.tok
<1> DEFINE run == Run(w, m)
           next == NextSpine(w, run)
<1>1. run.made = {} /\ run.snap = [font |-> w.font, look |-> w.spec.look] /\ run.on /\ run.tok = m.tok
  BY DEF Run, NoRun, NoFile
<1>2. DOMAIN run = DOMAIN NoRun
  BY DEF Run, NoRun
<1> HIDE DEF run
<1>3. /\ next.made = run.made \cup {Source(w, run.snap)} /\ next.snap = run.snap
      /\ next.on = run.on /\ next.tok = run.tok
  BY <1>2 DEF NextSpine, NoRun
<1> HIDE DEF next
<1>4. As(Source(w, run.snap), g)
  BY <1>1, SourceIs DEF As
<1>5. RunAs(w, next, g)
  BY <1>1, <1>3, <1>4 DEF RunAs, MadeAs
<1> QED
  BY <1>1, <1>3, <1>5 DEF next, run

LEMMA MadeAsNone ==
  ASSUME NEW g
  PROVE  MadeAs(NoFile, g)
BY DEF MadeAs, NoFile

-----------------------------------------------------------------------------
(***************************************************************************)
(* The handlers of the worker.                                             *)
(***************************************************************************)
\* What is under way goes on as before, and the bytes are kept or dropped.
Bides(x, w, h) ==
  /\ x.alive = w.alive /\ x.warm = w.warm /\ x.job = w.job /\ x.custom = w.custom
  /\ x.token >= w.token /\ x.bytes \in {w.bytes, NoFile}
  /\ ExportsAs(w.waiting, h) => ExportsAs(x.waiting, h)
  /\ ExportsAs(w.woken, h) => ExportsAs(x.woken, h)
\* The bytes are as good as they were.
Saves(x, w) == x.alive = w.alive /\ x.token >= w.token /\ x.bytes \in {w.bytes, NoFile}

LEMMA SavesFresh ==
  ASSUME NEW w, NEW x, Saves(x, w), w.token \in Nat, x.token \in Nat, NEW v \in Nat, NEW g
  PROVE  Fresh(w, v, g) => Fresh(x, v, g)
BY MadeAsNone DEF Saves, Fresh

LEMMA BidesHeeds ==
  ASSUME NEW w, NEW x, NEW v \in Nat, NEW g, NEW h, Bides(x, w, h), Heeds(w, v, g, h)
  PROVE  Heeds(x, v, g, h) /\ Saves(x, w)
BY RunAsSame DEF Bides, Heeds, WarmAs, JobAs, Saves

LEMMA QuietStays ==
  ASSUME NEW w, NEW x, NEW v \in Nat, NEW g, NEW h, Heeds(x, v, g, h), Fresh(w, v, g) => Fresh(x, v, g)
  PROVE  Stays(Quietly(x), w, v, g, h)
BY DEF Quietly, Stays, Told, Ripe

LEMMA SayStays ==
  ASSUME NEW w, NEW x, NEW v \in Nat, NEW g, NEW h, Heeds(x, v, g, h), Fresh(w, v, g) => Fresh(x, v, g),
         NEW m, m.re = "warm" => m.tok <= v /\ (m.res = "ready" /\ m.tok = v => Fresh(x, v, g)),
         m.re = "file" => MadeAs(m.made, h)
  PROVE  Stays(Says(x, m), w, v, g, h)
<1>1. Says(x, m).w = x /\ Says(x, m).out = <<m>>
  BY DEF Says
<1>2. DOMAIN <<m>> = {1} /\ <<m>>[1] = m
  OBVIOUS
<1> QED
  BY <1>1, <1>2 DEF Stays, Told, Ripe

\* The two together, for a handler that only bides.
LEMMA BidesStays ==
  ASSUME NEW w, NEW x, w.token \in Nat, x.token \in Nat, NEW v \in Nat, NEW g, NEW h,
         Bides(x, w, h), Heeds(w, v, g, h)
  PROVE  /\ Stays(Quietly(x), w, v, g, h)
         /\ \A i, ok : Stays(Says(x, LoadReply(i, ok)), w, v, g, h) /\ Stays(Says(x, FontReply(i, ok)), w, v, g, h)
         /\ \A m, res : m.tok <= v /\ res # "ready" => Stays(Says(x, WarmReply(m, res)), w, v, g, h)
<1>1. Heeds(x, v, g, h) /\ (Fresh(w, v, g) => Fresh(x, v, g))
  BY BidesHeeds, SavesFresh
<1>2. Stays(Quietly(x), w, v, g, h)
  BY <1>1, QuietStays
<1>3. \A i, ok : Stays(Says(x, LoadReply(i, ok)), w, v, g, h) /\ Stays(Says(x, FontReply(i, ok)), w, v, g, h)
  BY <1>1, ReplyKinds, SayStays
<1>4. ASSUME NEW m, NEW res, m.tok <= v, res # "ready"
      PROVE  Stays(Says(x, WarmReply(m, res)), w, v, g, h)
  <2>1. WarmReply(m, res).re = "warm" /\ WarmReply(m, res).tok = m.tok /\ WarmReply(m, res).res = res
    BY DEF WarmReply
  <2> QED
    BY <1>1, <1>4, <2>1, SayStays
<1> QED
  BY <1>2, <1>3, <1>4

LEMMA ExportsAppend ==
  ASSUME NEW q \in Seq(HandlerType), NEW k, NEW h, k.cmd = "exportBook" => SpecAs(k.spec, h), ExportsAs(q, h)
  PROVE  ExportsAs(Append(q, k), h)
<1>1. /\ DOMAIN Append(q, k) = 1 .. Len(q) + 1 /\ DOMAIN q = 1 .. Len(q) /\ Len(q) \in Nat
      /\ \A n \in 1 .. Len(q) : Append(q, k)[n] = q[n]
      /\ Append(q, k)[Len(q) + 1] = k
  OBVIOUS
<1> QED
  BY <1>1 DEF ExportsAs

LEMMA WaitBides ==
  ASSUME NEW w \in WorkerType, NEW k, NEW h, k.cmd = "exportBook" => SpecAs(k.spec, h)
  PROVE  Bides(Wait(w, k), w, h) /\ Wait(w, k).token \in Nat
<1> DEFINE x == Wait(w, k)
<1>1. /\ x.alive = w.alive /\ x.warm = w.warm /\ x.job = w.job /\ x.custom = w.custom
      /\ x.token = w.token + 1 /\ x.bytes = w.bytes /\ x.waiting = Append(w.waiting, k) /\ x.woken = w.woken
  BY DEF Wait, WorkerType
<1>2. w.token \in Nat /\ w.waiting \in Seq(HandlerType)
  BY DEF WorkerType
<1> HIDE DEF x
<1>3. Bides(x, w, h) /\ x.token \in Nat
  BY <1>1, <1>2, ExportsAppend DEF Bides
<1> QED
  BY <1>3 DEF x

LEMMA BidesSelf ==
  ASSUME NEW w \in WorkerType, NEW h
  PROVE  Bides(w, w, h) /\ w.token \in Nat
<1>1. w.token \in Nat
  BY DEF WorkerType
<1> QED
  BY <1>1 DEF Bides

LEMMA BidesTrans ==
  ASSUME NEW w, NEW x, NEW y, NEW h, w.token \in Nat, x.token \in Nat, y.token \in Nat, Bides(x, w, h), Bides(y, x, h)
  PROVE  Bides(y, w, h)
BY DEF Bides

LEMMA BeginLoadBides ==
  ASSUME NEW w \in WorkerType, NEW h
  PROVE  Bides(BeginLoad(w), w, h) /\ BeginLoad(w).token \in Nat
<1> DEFINE x == BeginLoad(w)
<1>1. /\ x.alive = w.alive /\ x.warm = w.warm /\ x.job = w.job /\ x.custom = w.custom
      /\ x.token = w.token /\ x.bytes = NoFile /\ x.waiting = w.waiting /\ x.woken = w.woken /\ w.token \in Nat
  BY DEF BeginLoad, WorkerType
<1> HIDE DEF x
<1>2. Bides(x, w, h) /\ x.token \in Nat
  BY <1>1 DEF Bides
<1> QED
  BY <1>2 DEF x

LEMMA HandleLoadStays ==
  ASSUME NEW w \in WorkerType, NEW i \in Preps, NEW b \in Books, NEW v \in Nat, NEW g, NEW h, Heeds(w, v, g, h)
  PROVE  Stays(HandleLoad(w, i, b), w, v, g, h)
<1> DEFINE loads == Append(w.loads, [prep |-> i, book |-> b])
           q == [w EXCEPT !.loads = loads]
<1>1. [prep |-> i, book |-> b] \in LoadType /\ w.loads \in Seq(LoadType)
  BY DEF LoadType, WorkerType
<1>2. loads \in Seq(LoadType)
  BY <1>1
<1>3. HandleLoad(w, i, b) = IF w.job.on THEN Says(w, LoadReply(i, FALSE))
                            ELSE Quietly(IF Replacing(w) THEN q ELSE StartLoad(q))
  BY DEF HandleLoad
<1> HIDE DEF loads
<1>4. /\ q \in WorkerType /\ q.alive = w.alive /\ q.warm = w.warm /\ q.job = w.job /\ q.custom = w.custom
      /\ q.token = w.token /\ q.bytes = w.bytes /\ q.waiting = w.waiting /\ q.woken = w.woken
  BY <1>2 DEF WorkerType
<1> HIDE DEF q
<1>5. Bides(w, w, h) /\ w.token \in Nat /\ Bides(q, w, h) /\ q.token \in Nat
  BY <1>4, BidesSelf DEF Bides
<1>6. [cmd |-> "load"].cmd # "exportBook"
  OBVIOUS
<1>7. Bides(StartLoad(q), q, h) /\ StartLoad(q).token \in Nat
  BY <1>4, <1>6, WaitBides, BeginLoadBides DEF StartLoad
<1>8. Bides(StartLoad(q), w, h)
  BY <1>5, <1>7, BidesTrans
<1> QED
  BY <1>3, <1>5, <1>7, <1>8, BidesStays

\* A face is taken when no warm runs and no spine of an export has been laid out.
LEMMA TakeFontStays ==
  ASSUME NEW w \in WorkerType, ~w.warm.on, w.job.done = 0, NEW i, NEW f, NEW ok \in BOOLEAN,
         NEW v \in Nat, NEW g, NEW h, Heeds(w, v, g, h)
  PROVE  Stays(TakeFont(w, i, f, ok), w, v, g, h)
<1> DEFINE x == [w EXCEPT !.custom = f, !.font = "custom"]
<1>1. /\ x.alive = w.alive /\ x.warm = w.warm /\ x.job = w.job
      /\ x.token = w.token /\ x.bytes = w.bytes /\ x.waiting = w.waiting /\ x.woken = w.woken /\ w.token \in Nat
  BY DEF WorkerType
<1>2. TakeFont(w, i, f, ok) = Says(IF ok THEN x ELSE w, FontReply(i, ok))
  BY DEF TakeFont
<1> HIDE DEF x
<1>3. Heeds(x, v, g, h)
  BY <1>1 DEF Heeds, WarmAs, JobAs
<1>4. Fresh(w, v, g) => Fresh(x, v, g)
  BY <1>1 DEF Fresh
<1>5. Stays(Says(x, FontReply(i, ok)), w, v, g, h) /\ Stays(Says(w, FontReply(i, ok)), w, v, g, h)
  BY <1>3, <1>4, ReplyKinds, SayStays
<1> QED
  BY <1>2, <1>5

LEMMA HandleFontStays ==
  ASSUME NEW w, Calm(w), NEW i, NEW f, NEW ok \in BOOLEAN, NEW v \in Nat, NEW g, NEW h, Heeds(w, v, g, h)
  PROVE  Stays(HandleFont(w, i, f, ok), w, v, g, h)
<1> DEFINE k == [cmd |-> "loadFont", id |-> i, face |-> f]
<1>1. w \in WorkerType /\ (w.job.done > 0 => w.job.on) /\ w.job.done \in 0 .. Spines
  BY DEF Calm, Sound, Alone, WorkerType, RunType
<1>2. Bides(w, w, h) /\ w.token \in Nat
  BY <1>1, BidesSelf
<1>3. k.cmd # "exportBook"
  OBVIOUS
<1>4. HandleFont(w, i, f, ok) = IF Replacing(w) \/ w.job.on THEN Says(w, FontReply(i, FALSE))
                                ELSE IF w.warm.on THEN Quietly(Wait(w, k)) ELSE TakeFont(w, i, f, ok)
  BY DEF HandleFont
<1> HIDE DEF k
<1>5. Stays(Says(w, FontReply(i, FALSE)), w, v, g, h)
  BY <1>2, BidesStays
<1>6. Stays(Quietly(Wait(w, k)), w, v, g, h)
  BY <1>1, <1>2, <1>3, WaitBides, BidesStays
<1>7. ~w.job.on => w.job.done = 0
  BY <1>1, WarmAssumption
<1>8. ~w.job.on /\ ~w.warm.on => Stays(TakeFont(w, i, f, ok), w, v, g, h)
  BY <1>1, <1>7, TakeFontStays
<1> QED
  BY <1>4, <1>5, <1>6, <1>8

LEMMA AppliedBides ==
  ASSUME NEW w \in WorkerType, NEW spec \in Settings, NEW h
  PROVE  LET a == Applied(w, spec)
         IN  /\ Bides(a, w, h) /\ a \in WorkerType /\ a.token = w.token /\ a.spec = spec /\ a.custom = w.custom
             /\ a.font = IF w.spec = spec THEN w.font ELSE spec.font
<1> DEFINE x == [w EXCEPT !.spec = spec, !.font = spec.font]
<1>1. spec.font \in Fonts /\ spec \in SpecType
  BY DEF Settings, Fonts, SpecType
<1>2. /\ x \in WorkerType /\ x.alive = w.alive /\ x.warm = w.warm /\ x.job = w.job /\ x.custom = w.custom
      /\ x.token = w.token /\ x.bytes = w.bytes /\ x.waiting = w.waiting /\ x.woken = w.woken /\ w.token \in Nat
      /\ x.spec = spec /\ x.font = spec.font
  BY <1>1 DEF WorkerType
<1>3. Applied(w, spec) = IF w.spec = spec THEN w ELSE x
  BY DEF Applied
<1> HIDE DEF x
<1>4. Bides(x, w, h) /\ Bides(w, w, h)
  BY <1>2, BidesSelf DEF Bides
<1> QED
  BY <1>2, <1>3, <1>4

\* The engine that was told to use spec draws the goal with its first spine.
LEMMA DrawsFirst ==
  ASSUME NEW w \in WorkerType, NEW spec \in Settings, NEW m, NEW g, Draws(w, spec, g)
  PROVE  LET a == Applied(w, spec)
             next == NextSpine(a, Run(a, m))
         IN  RunAs(a, next, g) /\ next.on /\ next.tok = m.tok
<1> DEFINE a == Applied(w, spec)
<1>1. a \in WorkerType /\ a.spec = spec /\ a.custom = w.custom /\ a.font = IF w.spec = spec THEN w.font ELSE spec.font
  BY AppliedBides
<1> HIDE DEF a
<1>2. a.spec.look = g.look /\ (g.strict => a.font = "custom" /\ a.custom = g.face)
  BY <1>1 DEF Draws, SpecAs
<1>3. LET next == NextSpine(a, Run(a, m)) IN RunAs(a, next, g) /\ next.on /\ next.tok = m.tok
  BY <1>1, <1>2, FirstSpineAs
<1> QED
  BY <1>3 DEF a

LEMMA HandleWarmStays ==
  ASSUME NEW w \in WorkerType, w.alive, NEW m, m.tok \in Nat, m.spec \in Settings, NEW ok \in BOOLEAN,
         NEW v \in Nat, NEW g, NEW h, Heeds(w, v, g, h), m.tok <= v, m.tok = v /\ w.book # None => Draws(w, m.spec, g)
  PROVE  Stays(HandleWarm(w, m, ok), w, v, g, h)
<1> DEFINE taken == [w EXCEPT !.token = m.tok]
           b == [taken EXCEPT !.bytes = NoFile]
           a == Applied(b, m.spec)
           run == NextSpine(a, Run(a, m))
           x == [a EXCEPT !.warm = run]
<1>1. /\ taken \in WorkerType /\ taken.alive = w.alive /\ taken.warm = w.warm /\ taken.job = w.job
      /\ taken.custom = w.custom /\ taken.token = m.tok /\ taken.bytes = w.bytes /\ taken.waiting = w.waiting
      /\ taken.woken = w.woken /\ taken.spec = w.spec /\ taken.font = w.font
  BY DEF WorkerType
<1> HIDE DEF taken
<1>2. /\ b \in WorkerType /\ b.alive = w.alive /\ b.warm = w.warm /\ b.job = w.job
      /\ b.custom = w.custom /\ b.token = m.tok /\ b.bytes = NoFile /\ b.waiting = w.waiting
      /\ b.woken = w.woken /\ b.spec = w.spec /\ b.font = w.font
  BY <1>1, NoFileType DEF WorkerType
<1> HIDE DEF b
<1>3. Bides(a, b, h) /\ a \in WorkerType /\ a.token = m.tok /\ a.custom = w.custom
  BY <1>2, AppliedBides
<1>4. m.tok = v /\ w.book # None => RunAs(a, run, g)
  <2>1. m.tok = v /\ w.book # None => Draws(b, m.spec, g)
    BY <1>2 DEF Draws
  <2> QED
    BY <1>2, <2>1, DrawsFirst
<1>5. run.on /\ run.tok = m.tok
  <2> DEFINE first == Run(a, m)
  <2>1. first.on /\ first.tok = m.tok /\ DOMAIN first = DOMAIN NoRun
    BY DEF Run, NoRun
  <2> HIDE DEF first
  <2>2. NextSpine(a, first).on /\ NextSpine(a, first).tok = m.tok
    BY <2>1 DEF NextSpine, NoRun
  <2> QED
    BY <2>2 DEF first
<1>6. HandleWarm(w, m, ok) =
        IF Replacing(w) \/ w.book = None THEN Says(w, WarmReply(m, "error"))
        ELSE IF m.tok < w.token THEN Says(w, WarmReply(m, "superseded"))
        ELSE IF w.warm.on THEN Says(taken, WarmReply(m, "busy"))
        ELSE IF ~CanApply(w, m.spec) THEN Says(b, WarmReply(m, "error"))
        ELSE IF w.job.on \/ ~ok THEN Says(a, WarmReply(m, "error"))
        ELSE Quietly(x)
  BY DEF HandleWarm, taken, b
<1> HIDE DEF a, run
<1>7. /\ x.alive = a.alive /\ x.warm = run /\ x.job = a.job /\ x.custom = a.custom /\ x.token = a.token
      /\ x.bytes = a.bytes /\ x.waiting = a.waiting /\ x.woken = a.woken
  BY <1>3 DEF WorkerType
<1> HIDE DEF x
<1>8. Bides(w, w, h) /\ w.token \in Nat
  BY BidesSelf
<1>9. ~(m.tok < w.token) => Bides(taken, w, h) /\ Bides(b, w, h) /\ Bides(a, w, h)
  <2>1. ~(m.tok < w.token) => Bides(taken, w, h) /\ Bides(b, w, h)
    BY <1>1, <1>2, <1>8 DEF Bides
  <2> QED
    BY <1>2, <1>3, <1>8, <2>1, BidesTrans
<1>10. Stays(Says(w, WarmReply(m, "error")), w, v, g, h) /\ Stays(Says(w, WarmReply(m, "superseded")), w, v, g, h)
  BY <1>8, BidesStays
<1>11. ~(m.tok < w.token) =>
         /\ Stays(Says(taken, WarmReply(m, "busy")), w, v, g, h) /\ Stays(Says(b, WarmReply(m, "error")), w, v, g, h)
         /\ Stays(Says(a, WarmReply(m, "error")), w, v, g, h)
  BY <1>1, <1>2, <1>3, <1>8, <1>9, BidesStays
<1>12. ASSUME ~(m.tok < w.token), w.book # None
       PROVE  Stays(Quietly(x), w, v, g, h)
  <2>1. Heeds(a, v, g, h) /\ Saves(a, w)
    BY <1>9, <1>12, BidesHeeds
  <2>2. m.tok = v => RunAs(x, run, g)
    BY <1>4, <1>7, <1>12, RunAsSame
  <2>3. WarmAs(x, v, g)
    BY <1>5, <1>7, <2>1, <2>2 DEF WarmAs, Saves
  <2>4. JobAs(x, h)
    BY <1>7, <2>1, RunAsSame DEF Heeds, JobAs
  <2>5. Fresh(w, v, g) => Fresh(x, v, g)
    <3>1. Fresh(w, v, g) => Fresh(a, v, g)
      BY <1>3, <1>8, <2>1, SavesFresh
    <3> QED
      BY <1>7, <3>1 DEF Fresh
  <2> QED
    BY <2>3, <2>4, <2>5, QuietStays DEF Heeds
<1> QED
  BY <1>6, <1>10, <1>11, <1>12

LEMMA CancelBides ==
  ASSUME NEW w \in WorkerType, NEW h
  PROVE  Bides(HandleWarmCancel(w), w, h) /\ HandleWarmCancel(w).token \in Nat
<1> DEFINE x == [w EXCEPT !.token = @ + 1, !.bytes = NoFile]
<1>1. /\ x.alive = w.alive /\ x.warm = w.warm /\ x.job = w.job /\ x.custom = w.custom
      /\ x.token = w.token + 1 /\ x.bytes = NoFile /\ x.waiting = w.waiting /\ x.woken = w.woken /\ w.token \in Nat
  BY DEF WorkerType
<1>2. HandleWarmCancel(w) = IF Replacing(w) THEN w ELSE x
  BY DEF HandleWarmCancel
<1> HIDE DEF x
<1>3. Bides(x, w, h) /\ x.token \in Nat
  BY <1>1 DEF Bides
<1> QED
  BY <1>2, <1>3, BidesSelf

\* The warm result that is handed over is as fresh as the engine's bytes.
LEMMA HandleFetchStays ==
  ASSUME NEW w \in WorkerType, NEW v \in Nat, NEW g, NEW h, Heeds(w, v, g, h), MadeAs(w.bytes, h)
  PROVE  Stays(HandleFetch(w), w, v, g, h)
<1> DEFINE x == [w EXCEPT !.bytes = NoFile]
<1>1. /\ x.alive = w.alive /\ x.warm = w.warm /\ x.job = w.job /\ x.custom = w.custom
      /\ x.token = w.token /\ x.bytes = NoFile /\ x.waiting = w.waiting /\ x.woken = w.woken /\ w.token \in Nat
  BY DEF WorkerType
<1>2. HandleFetch(w) = IF Replacing(w) THEN Says(w, FileReply(NoFile)) ELSE Says(x, FileReply(w.bytes))
  BY DEF HandleFetch
<1> HIDE DEF x
<1>3. Bides(x, w, h)
  BY <1>1 DEF Bides
<1>4. Heeds(x, v, g, h) /\ (Fresh(w, v, g) => Fresh(x, v, g))
  BY <1>1, <1>3, BidesHeeds, SavesFresh
<1>5. \A made : FileReply(made).re = "file" /\ FileReply(made).made = made
  BY DEF FileReply
<1>6. Stays(Says(x, FileReply(w.bytes)), w, v, g, h)
  BY <1>4, <1>5, SayStays
<1>7. Stays(Says(w, FileReply(NoFile)), w, v, g, h)
  BY <1>5, MadeAsNone, SayStays
<1> QED
  BY <1>2, <1>6, <1>7

LEMMA ExportFailsStays ==
  ASSUME NEW w \in WorkerType, NEW v \in Nat, NEW g, NEW h, Heeds(w, v, g, h)
  PROVE  Stays(ExportFails(w), w, v, g, h)
<1> DEFINE x == [w EXCEPT !.job = NoRun]
<1>1. /\ x.alive = w.alive /\ x.warm = w.warm /\ x.job = NoRun /\ x.custom = w.custom
      /\ x.token = w.token /\ x.bytes = w.bytes /\ x.waiting = w.waiting /\ x.woken = w.woken
  BY DEF WorkerType
<1>2. ExportFails(w) = Says(x, FileReply(NoFile))
  BY DEF ExportFails
<1> HIDE DEF x
<1>3. NoRun.done = 0
  BY DEF NoRun
<1>4. WarmAs(x, v, g) /\ JobAs(x, h)
  BY <1>1, <1>3, RunAsSame DEF Heeds, WarmAs, JobAs
<1>5. Fresh(w, v, g) => Fresh(x, v, g)
  BY <1>1 DEF Fresh
<1>6. FileReply(NoFile).re = "file" /\ FileReply(NoFile).made = NoFile
  BY DEF FileReply
<1>7. Stays(Says(x, FileReply(NoFile)), w, v, g, h)
  BY <1>4, <1>5, <1>6, MadeAsNone, SayStays DEF Heeds
<1> QED
  BY <1>2, <1>7

LEMMA StaysFrom ==
  ASSUME NEW w, NEW x, NEW r, NEW v, NEW g, NEW h, Stays(r, x, v, g, h), Fresh(w, v, g) => Fresh(x, v, g)
  PROVE  Stays(r, w, v, g, h)
BY DEF Stays

LEMMA BeginExportStays ==
  ASSUME NEW w \in WorkerType, NEW spec \in Settings, NEW ok \in BOOLEAN,
         NEW v \in Nat, NEW g, NEW h, Heeds(w, v, g, h), Draws(w, spec, h)
  PROVE  Stays(BeginExport(w, spec, ok), w, v, g, h)
<1> DEFINE a == Applied(w, spec)
           run == NextSpine(a, Run(a, NoRun))
           x == [a EXCEPT !.job = run]
<1>1. Bides(a, w, h) /\ a \in WorkerType /\ a.token = w.token /\ w.token \in Nat
  BY AppliedBides, BidesSelf
<1>2. RunAs(a, run, h)
  BY DrawsFirst
<1>3. BeginExport(w, spec, ok) = IF ~CanApply(w, spec) THEN ExportFails(w)
                                 ELSE IF ~ok THEN ExportFails(a) ELSE Quietly(x)
  BY DEF BeginExport
<1> HIDE DEF a, run
<1>4. /\ x.alive = a.alive /\ x.warm = a.warm /\ x.job = run /\ x.custom = a.custom
      /\ x.token = a.token /\ x.bytes = a.bytes /\ x.waiting = a.waiting /\ x.woken = a.woken
  BY <1>1 DEF WorkerType
<1> HIDE DEF x
<1>5. Heeds(a, v, g, h) /\ (Fresh(w, v, g) => Fresh(a, v, g))
  BY <1>1, BidesHeeds, SavesFresh
<1>6. Stays(ExportFails(w), w, v, g, h) /\ Stays(ExportFails(a), w, v, g, h)
  BY <1>1, <1>5, ExportFailsStays, StaysFrom
<1>7. WarmAs(x, v, g) /\ JobAs(x, h)
  BY <1>2, <1>4, <1>5, RunAsSame DEF Heeds, WarmAs, JobAs
<1>8. Fresh(w, v, g) => Fresh(x, v, g)
  BY <1>4, <1>5 DEF Fresh
<1>9. Stays(Quietly(x), w, v, g, h)
  BY <1>7, <1>8, QuietStays DEF Heeds
<1> QED
  BY <1>3, <1>6, <1>9

LEMMA HandleExportStays ==
  ASSUME NEW w \in WorkerType, NEW spec \in Settings, NEW ok \in BOOLEAN,
         NEW v \in Nat, NEW g, NEW h, Heeds(w, v, g, h), SpecAs(spec, h), w.book # None => Draws(w, spec, h)
  PROVE  Stays(HandleExport(w, spec, ok), w, v, g, h)
<1> DEFINE k == [cmd |-> "exportBook", spec |-> spec]
           y == Wait(w, k)
           job == [NoRun EXCEPT !.on = TRUE]
           x == [y EXCEPT !.job = job]
<1>1. job.done = 0
  BY DEF NoRun
<1>2. k.spec = spec /\ k \in HandlerType
  BY DEF HandlerType
<1>3. HandleExport(w, spec, ok) =
        IF Replacing(w) \/ w.book = None \/ w.job.on THEN Says(w, FileReply(NoFile))
        ELSE IF w.warm.on THEN Quietly(x) ELSE BeginExport(w, spec, ok)
  BY DEF HandleExport
<1>4. DOMAIN y = DOMAIN w
  BY DEF Wait
<1> HIDE DEF job, k
<1>5. Bides(y, w, h) /\ y.token \in Nat /\ w.token \in Nat
  BY <1>2, WaitBides, BidesSelf
<1> HIDE DEF y
<1>6. /\ x.alive = y.alive /\ x.warm = y.warm /\ x.job = job /\ x.custom = y.custom
      /\ x.token = y.token /\ x.bytes = y.bytes /\ x.waiting = y.waiting /\ x.woken = y.woken
  BY <1>4, WorkerDomain DEF NoWorker
<1> HIDE DEF x
<1>7. Heeds(y, v, g, h) /\ (Fresh(w, v, g) => Fresh(y, v, g))
  BY <1>5, BidesHeeds, SavesFresh
<1>8. WarmAs(x, v, g) /\ JobAs(x, h)
  BY <1>1, <1>6, <1>7, RunAsSame DEF Heeds, WarmAs, JobAs
<1>9. Fresh(w, v, g) => Fresh(x, v, g)
  BY <1>6, <1>7 DEF Fresh
<1>10. Stays(Quietly(x), w, v, g, h)
  BY <1>8, <1>9, QuietStays DEF Heeds
<1>11. FileReply(NoFile).re = "file" /\ FileReply(NoFile).made = NoFile
  BY DEF FileReply
<1>12. Stays(Says(w, FileReply(NoFile)), w, v, g, h)
  BY <1>11, MadeAsNone, SayStays
<1>13. w.book # None => Stays(BeginExport(w, spec, ok), w, v, g, h)
  BY BeginExportStays
<1> QED
  BY <1>3, <1>10, <1>12, <1>13

\* A handler that waited goes on when no warm runs and no spine of an export has been laid out.
LEMMA ResumeStays ==
  ASSUME NEW w \in WorkerType, ~w.warm.on, w.job.done = 0, NEW k \in HandlerType, NEW ok \in BOOLEAN,
         NEW v \in Nat, NEW g, NEW h, Heeds(w, v, g, h), k.cmd = "exportBook" => Draws(w, k.spec, h)
  PROVE  Stays(Resume(w, k, ok), w, v, g, h)
<1> DEFINE d == [w EXCEPT !.bytes = NoFile]
<1>1. /\ d \in WorkerType /\ d.alive = w.alive /\ d.warm = w.warm /\ d.job = w.job /\ d.custom = w.custom
      /\ d.token = w.token /\ d.bytes = NoFile /\ d.waiting = w.waiting /\ d.woken = w.woken
      /\ d.spec = w.spec /\ d.font = w.font /\ w.token \in Nat
  BY NoFileType DEF WorkerType
<1>2. /\ k.cmd = "load" => Resume(w, k, ok) = Quietly(BeginLoad(d))
      /\ k.cmd = "loadFont" => Resume(w, k, ok) = TakeFont(d, k.id, k.face, ok)
      /\ k.cmd = "exportBook" => Resume(w, k, ok) = BeginExport(d, k.spec, ok)
  BY DEF Resume
<1>3. k.cmd \in {"load", "loadFont", "exportBook"} /\ (k.cmd = "exportBook" => k.spec \in Settings)
  BY DEF HandlerType
<1> HIDE DEF d
<1>4. Bides(d, w, h)
  BY <1>1 DEF Bides
<1>5. Heeds(d, v, g, h) /\ (Fresh(w, v, g) => Fresh(d, v, g))
  BY <1>1, <1>4, BidesHeeds, SavesFresh
<1>6. Stays(Quietly(BeginLoad(d)), d, v, g, h)
  BY <1>1, <1>5, BeginLoadBides, BidesStays
<1>7. Stays(TakeFont(d, k.id, k.face, ok), d, v, g, h)
  BY <1>1, <1>5, TakeFontStays
<1>8. k.cmd = "exportBook" => Stays(BeginExport(d, k.spec, ok), d, v, g, h)
  <2>1. k.cmd = "exportBook" => Draws(d, k.spec, h)
    BY <1>1 DEF Draws
  <2> QED
    BY <1>1, <1>3, <1>5, <2>1, BeginExportStays
<1>9. Stays(Resume(w, k, ok), d, v, g, h)
  BY <1>2, <1>3, <1>6, <1>7, <1>8
<1> QED
  BY <1>5, <1>9, StaysFrom

LEMMA WakeStays ==
  ASSUME NEW w, Sound(w), w.woken # << >>, NEW ok \in BOOLEAN,
         NEW v \in Nat, NEW g, NEW h, Heeds(w, v, g, h),
         Head(w.woken).cmd = "exportBook" => Draws(w, Head(w.woken).spec, h)
  PROVE  Stays(Resume([w EXCEPT !.woken = Tail(w.woken)], Head(w.woken), ok), w, v, g, h)
<1> DEFINE k == Head(w.woken)
           rest == Tail(w.woken)
           x == [w EXCEPT !.woken = rest]
<1>1. w \in WorkerType /\ w.woken \in Seq(HandlerType) /\ ~w.warm.on /\ (w.job.done > 0 => w.woken = << >>)
      /\ w.job.done \in 0 .. Spines
  BY DEF Sound, Alone, WorkerType, RunType
<1>2. /\ k \in HandlerType /\ rest \in Seq(HandlerType) /\ DOMAIN rest = 1 .. Len(w.woken) - 1
      /\ DOMAIN w.woken = 1 .. Len(w.woken) /\ Len(w.woken) \in Nat
      /\ \A n \in 1 .. Len(w.woken) - 1 : rest[n] = w.woken[n + 1]
  BY <1>1
<1>3. w.job.done = 0
  BY <1>1, WarmAssumption
<1>4. ExportsAs(w.woken, h) => ExportsAs(rest, h)
  BY <1>2 DEF ExportsAs
<1> HIDE DEF rest
<1>5. /\ x \in WorkerType /\ x.alive = w.alive /\ x.warm = w.warm /\ x.job = w.job /\ x.custom = w.custom
      /\ x.token = w.token /\ x.bytes = w.bytes /\ x.waiting = w.waiting /\ x.woken = rest
      /\ x.spec = w.spec /\ x.font = w.font /\ w.token \in Nat
  BY <1>1, <1>2 DEF WorkerType
<1> HIDE DEF x
<1>6. Bides(x, w, h)
  BY <1>4, <1>5 DEF Bides
<1>7. Heeds(x, v, g, h) /\ (Fresh(w, v, g) => Fresh(x, v, g))
  BY <1>5, <1>6, BidesHeeds, SavesFresh
<1>8. k.cmd = "exportBook" => Draws(x, k.spec, h)
  BY <1>5 DEF Draws
<1>9. ~x.warm.on /\ x.job.done = 0
  BY <1>1, <1>3, <1>5
<1> HIDE DEF k
<1>10. Stays(Resume(x, k, ok), x, v, g, h)
  BY <1>2, <1>5, <1>7, <1>8, <1>9, ResumeStays
<1>11. Stays(Resume(x, k, ok), w, v, g, h)
  BY <1>7, <1>10, StaysFrom
<1> QED
  BY <1>11 DEF x, k, rest

\* Those who waited for a warm go on.
LEMMA EndWarmAs ==
  ASSUME NEW w \in WorkerType, NEW bytes, NEW v \in Nat, NEW g, NEW h, Heeds(w, v, g, h)
  PROVE  LET x == EndWarm([w EXCEPT !.bytes = bytes])
         IN  Heeds(x, v, g, h) /\ x.alive = w.alive /\ x.token = w.token /\ x.bytes = bytes
<1> DEFINE x == EndWarm([w EXCEPT !.bytes = bytes])
<1>1. /\ x.alive = w.alive /\ x.warm = NoRun /\ x.job = w.job /\ x.custom = w.custom
      /\ x.token = w.token /\ x.bytes = bytes /\ x.waiting = << >> /\ x.woken = w.waiting
  BY DEF EndWarm, WorkerType
<1> HIDE DEF x
<1>2. ~NoRun.on /\ ExportsAs(<< >>, h)
  BY DEF NoRun, ExportsAs
<1>3. Heeds(x, v, g, h)
  BY <1>1, <1>2, RunAsSame DEF Heeds, WarmAs, JobAs
<1> QED
  BY <1>1, <1>3 DEF x

\* A warm that ends well is of the newest version: its file replaces no fresher one.
LEMMA WarmGoesOnStays ==
  ASSUME NEW w, Sound(w), w.warm.on, NEW ok \in BOOLEAN, NEW v \in Nat, NEW g, NEW h, Heeds(w, v, g, h)
  PROVE  Stays(WarmGoesOn(w, ok), w, v, g, h)
<1> DEFINE e == EndWarm([w EXCEPT !.bytes = w.bytes])
           f == EndWarm([w EXCEPT !.bytes = w.warm.made])
           run == NextSpine(w, w.warm)
           x == [w EXCEPT !.warm = run]
<1>1. /\ w \in WorkerType /\ w.warm \in RunType /\ w.token \in Nat /\ w.warm.tok \in Nat
      /\ w.warm.tok <= w.token
  BY DEF Sound, Stops, WorkerType, RunType
<1>2. w.alive /\ w.warm.tok <= v /\ (w.warm.tok = v => RunAs(w, w.warm, g))
  BY DEF Heeds, WarmAs
<1>3. [w EXCEPT !.bytes = w.bytes] = w
  BY <1>1 DEF WorkerType
<1>4. WarmGoesOn(w, ok) =
        IF w.warm.tok < w.token THEN Says(e, WarmReply(w.warm, "superseded"))
        ELSE IF w.warm.done < Spines
        THEN IF ok THEN Quietly(x) ELSE Says(e, WarmReply(w.warm, "error"))
        ELSE Says(f, WarmReply(w.warm, "ready"))
  BY <1>3 DEF WarmGoesOn
<1>5. Heeds(e, v, g, h) /\ e.alive = w.alive /\ e.token = w.token /\ e.bytes = w.bytes
  BY <1>1, EndWarmAs
<1>6. Heeds(f, v, g, h) /\ f.alive = w.alive /\ f.token = w.token /\ f.bytes = w.warm.made
  BY <1>1, EndWarmAs
<1> HIDE DEF e, f
<1>7. \A res : /\ WarmReply(w.warm, res).re = "warm" /\ WarmReply(w.warm, res).tok = w.warm.tok
               /\ WarmReply(w.warm, res).res = res
  BY DEF WarmReply
<1>8. Fresh(w, v, g) => Fresh(e, v, g)
  BY <1>5 DEF Fresh
<1>9. Stays(Says(e, WarmReply(w.warm, "superseded")), w, v, g, h) /\ Stays(Says(e, WarmReply(w.warm, "error")), w, v, g, h)
  BY <1>2, <1>5, <1>7, <1>8, SayStays
<1>10. ~(w.warm.tok < w.token) => Stays(Says(f, WarmReply(w.warm, "ready")), w, v, g, h)
  <2>1. ASSUME ~(w.warm.tok < w.token)
        PROVE  Stays(Says(f, WarmReply(w.warm, "ready")), w, v, g, h)
    <3>1. w.warm.tok = v => Fresh(f, v, g)
      BY <1>1, <1>2, <1>6 DEF Fresh, RunAs
    <3>2. Fresh(w, v, g) => w.warm.tok = v
      BY <1>1, <1>2, <2>1 DEF Fresh
    <3> QED
      BY <1>2, <1>6, <1>7, <3>1, <3>2, SayStays
  <2> QED
    BY <2>1
<1>11. Stays(Quietly(x), w, v, g, h)
  <2>1. w.warm.tok = v => RunAs(w, run, g)
    BY <1>1, <1>2, NextSpineAs
  <2>2. run.on /\ run.tok = w.warm.tok
    BY <1>1 DEF NextSpine, RunType
  <2> HIDE DEF run
  <2>3. /\ x.alive = w.alive /\ x.warm = run /\ x.job = w.job /\ x.custom = w.custom
        /\ x.token = w.token /\ x.bytes = w.bytes /\ x.waiting = w.waiting /\ x.woken = w.woken
    BY <1>1 DEF WorkerType
  <2> HIDE DEF x
  <2>4. WarmAs(x, v, g) /\ JobAs(x, h)
    BY <1>2, <2>1, <2>2, <2>3, RunAsSame DEF Heeds, WarmAs, JobAs
  <2>5. Fresh(w, v, g) => Fresh(x, v, g)
    BY <2>3 DEF Fresh
  <2> QED
    BY <2>4, <2>5, QuietStays DEF Heeds
<1> QED
  BY <1>4, <1>9, <1>10, <1>11

LEMMA ExportGoesOnStays ==
  ASSUME NEW w \in WorkerType, w.job.done > 0, NEW ok \in BOOLEAN, NEW v \in Nat, NEW g, NEW h, Heeds(w, v, g, h)
  PROVE  Stays(ExportGoesOn(w, ok), w, v, g, h)
<1> DEFINE x == [w EXCEPT !.job = NoRun]
           run == NextSpine(w, w.job)
           y == [w EXCEPT !.job = run]
<1>1. ExportGoesOn(w, ok) = IF w.job.done = Spines THEN Says(x, FileReply(w.job.made))
                            ELSE IF ok THEN Quietly(y) ELSE ExportFails(w)
  BY DEF ExportGoesOn
<1>2. w.job \in RunType /\ RunAs(w, w.job, h)
  BY DEF WorkerType, Heeds, JobAs
<1>3. RunAs(w, run, h)
  BY <1>2, NextSpineAs
<1> HIDE DEF run
<1>4. /\ x.alive = w.alive /\ x.warm = w.warm /\ x.job = NoRun /\ x.custom = w.custom
      /\ x.token = w.token /\ x.bytes = w.bytes /\ x.waiting = w.waiting /\ x.woken = w.woken
  BY DEF WorkerType
<1>5. /\ y.alive = w.alive /\ y.warm = w.warm /\ y.job = run /\ y.custom = w.custom
      /\ y.token = w.token /\ y.bytes = w.bytes /\ y.waiting = w.waiting /\ y.woken = w.woken
  BY DEF WorkerType
<1> HIDE DEF x, y
<1>6. NoRun.done = 0
  BY DEF NoRun
<1>7. Heeds(x, v, g, h)
  BY <1>4, <1>6, RunAsSame DEF Heeds, WarmAs, JobAs
<1>8. Heeds(y, v, g, h)
  BY <1>3, <1>5, RunAsSame DEF Heeds, WarmAs, JobAs
<1>9. Fresh(w, v, g) => Fresh(x, v, g) /\ Fresh(y, v, g)
  BY <1>4, <1>5 DEF Fresh
<1>10. FileReply(w.job.made).re = "file" /\ FileReply(w.job.made).made = w.job.made
  BY DEF FileReply
<1>11. Stays(Says(x, FileReply(w.job.made)), w, v, g, h)
  BY <1>2, <1>7, <1>9, <1>10, SayStays DEF RunAs
<1>12. Stays(Quietly(y), w, v, g, h)
  BY <1>8, <1>9, QuietStays
<1> QED
  BY <1>1, <1>11, <1>12, ExportFailsStays

LEMMA LoadEndsStays ==
  ASSUME NEW w \in WorkerType, w.loads # << >>, NEW ok \in BOOLEAN, NEW v \in Nat, NEW g, NEW h, Heeds(w, v, g, h)
  PROVE  Stays(LoadEnds(w, ok), w, v, g, h)
<1> DEFINE l == Head(w.loads)
           loads == Tail(w.loads)
           book == IF ok THEN l.book ELSE None
           font == IF ok /\ w.spec.font = "custom" THEN "custom" ELSE "kopub"
           read == [w EXCEPT !.loads = loads, !.book = book, !.font = font]
<1>1. LoadEnds(w, ok) = Says(IF Replacing(read) THEN BeginLoad(read) ELSE read, LoadReply(l.prep, ok))
  BY DEF LoadEnds
<1>2. w.loads \in Seq(LoadType)
  BY DEF WorkerType
<1>3. l \in LoadType /\ loads \in Seq(LoadType)
  BY <1>2
<1>4. book \in {None} \cup Books /\ font \in Fonts
  BY <1>3 DEF LoadType, Fonts
<1> HIDE DEF loads, book, font
<1>5. /\ read \in WorkerType /\ read.alive = w.alive /\ read.warm = w.warm /\ read.job = w.job /\ read.custom = w.custom
      /\ read.token = w.token /\ read.bytes = w.bytes /\ read.waiting = w.waiting /\ read.woken = w.woken
  BY <1>3, <1>4 DEF WorkerType
<1> HIDE DEF read, l
<1>6. Bides(read, w, h) /\ read.token \in Nat /\ w.token \in Nat
  BY <1>5, BidesSelf DEF Bides
<1>7. Bides(BeginLoad(read), read, h) /\ BeginLoad(read).token \in Nat
  BY <1>5, BeginLoadBides
<1>8. Bides(BeginLoad(read), w, h)
  BY <1>6, <1>7, BidesTrans
<1> QED
  BY <1>1, <1>6, <1>7, <1>8, BidesStays

-----------------------------------------------------------------------------
(***************************************************************************)
(* The page keeps to the goals: v is the version of the page, g what its   *)
(* warms make, h what its export makes.                                    *)
(***************************************************************************)
\* Who waits and who goes on; a warm among them is of no later version than v.
Early(v)      == {k \in GoType : k.who = "warm" => k.tok <= v}
EarlyMicro(v) == [go : Early(v), ok : BOOLEAN]
Tokens(s, v)  == (\A i \in Preps : s.prep[i].waiters \in Seq(Early(v))) /\ s.micro \in Seq(EarlyMicro(v))

OnCourse(s, v, g, h) ==
  /\ Tokens(s, v) /\ Heeds(s.worker, v, g, h) /\ Told(s.inbox, v, h)
  /\ s.page.warmKey # NoKey \/ Ripe(s.inbox, v) => Fresh(s.worker, v, g)

\* The variables of the page that say what is to be converted, and those of a face on its way.
Shows(p, q) ==
  /\ p.choice = q.choice /\ p.faceLoaded = q.faceLoaded /\ p.face = q.face
  /\ p.fontRun = q.fontRun /\ p.convert = q.convert
\* The variables of the page the goals are read from, and a press that waits for the engine.
SameAsk(p, q) ==
  /\ p.version = q.version /\ p.choice.look = q.choice.look /\ p.want.spec = q.want.spec
  /\ p.press = "wait" => q.press = "wait"
\* What a stretch of the page does that is neither a conversion nor a new version.
Steers(t, s) ==
  /\ SameAsk(t.page, s.page)
  /\ \A v \in Nat : \A g, h : OnCourse(s, v, g, h) => OnCourse(t, v, g, h)

LEMMA SteersTrans ==
  ASSUME NEW s, NEW t, NEW u, Steers(t, s), Steers(u, t)
  PROVE  Steers(u, s)
BY DEF Steers, SameAsk

LEMMA EarlyLater ==
  ASSUME NEW v \in Nat, NEW u \in Nat, v <= u
  PROVE  Early(v) \subseteq Early(u) /\ EarlyMicro(v) \subseteq EarlyMicro(u)
<1>1. Early(v) \subseteq Early(u)
  BY DEF Early, GoType
<1> QED
  BY <1>1 DEF EarlyMicro

LEMMA SeqMonotone ==
  ASSUME NEW S, NEW T, S \subseteq T, NEW q \in Seq(S)
  PROVE  q \in Seq(T)
OBVIOUS

LEMMA TokensLater ==
  ASSUME NEW s, NEW v \in Nat, NEW u \in Nat, v <= u, Tokens(s, v)
  PROVE  Tokens(s, u)
<1>1. Early(v) \subseteq Early(u) /\ EarlyMicro(v) \subseteq EarlyMicro(u)
  BY EarlyLater
<1>2. \A i \in Preps : s.prep[i].waiters \in Seq(Early(u))
  BY <1>1, SeqMonotone DEF Tokens
<1>3. s.micro \in Seq(EarlyMicro(u))
  BY <1>1, SeqMonotone DEF Tokens
<1> QED
  BY <1>2, <1>3 DEF Tokens

LEMMA FieldsCourse ==
  ASSUME NEW s, NEW t, SameQueues(t, s), t.worker = s.worker, t.inbox = s.inbox,
         t.page.warmKey \in {s.page.warmKey, NoKey}, NEW v, NEW g, NEW h, OnCourse(s, v, g, h)
  PROVE  OnCourse(t, v, g, h)
BY DEF OnCourse, Tokens, SameQueues

LEMMA FieldsSteer ==
  ASSUME NEW s, NEW t, SameQueues(t, s), t.worker = s.worker, t.inbox = s.inbox,
         t.page.warmKey \in {s.page.warmKey, NoKey}, SameAsk(t.page, s.page)
  PROVE  Steers(t, s)
BY FieldsCourse DEF Steers

\* A change of the page's variables alone.
LEMMA SetPageSteers ==
  ASSUME NEW s, Good(s), NEW p \in PageType, p.warmKey \in {s.page.warmKey, NoKey}, SameAsk(p, s.page)
  PROVE  Steers([s EXCEPT !.page = p], s)
<1> DEFINE t == [s EXCEPT !.page = p]
<1>1. SameQueues(t, s) /\ t.worker = s.worker /\ t.inbox = s.inbox /\ t.page = p
  BY DEF Good, States, SameQueues
<1> HIDE DEF t
<1>2. Steers(t, s)
  BY <1>1, FieldsSteer
<1> QED
  BY <1>2 DEF t

LEMMA PaintingSteers ==
  ASSUME NEW s, Good(s)
  PROVE  Steers(Painting(s), s)
<1> DEFINE t == Painting(s)
           choice == [s.page.choice EXCEPT !.font = "custom"]
           p == [s.page EXCEPT !.fontRun = "painting", !.choice = choice]
<1>1. s.page \in PageType /\ s.page.choice \in Settings
  BY DEF Good, States, PageType
<1>2. choice.look = s.page.choice.look
  BY <1>1 DEF Settings
<1>3. t = [s EXCEPT !.page = p]
  BY DEF Painting
<1> HIDE DEF choice
<1>4. p.warmKey = s.page.warmKey /\ SameAsk(p, s.page)
  BY <1>1, <1>2 DEF PageType, SameAsk
<1>5. t.page = p
  BY <1>3 DEF Good, States
<1> HIDE DEF p
<1>6. SameQueues(t, s) /\ t.worker = s.worker /\ t.inbox = s.inbox
  BY PaintingFields
<1> HIDE DEF t
<1>7. Steers(t, s)
  BY <1>4, <1>5, <1>6, FieldsSteer
<1> QED
  BY <1>7 DEF t

\* The next version: nothing is of it yet, whatever it is to be made from.
LEMMA InvalidateCourse ==
  ASSUME NEW s, Good(s), NEW v \in Nat, NEW g, NEW h, OnCourse(s, v, g, h), NEW goal
  PROVE  LET t == InvalidateWarm(s)
         IN  /\ OnCourse(t, v + 1, goal, h)
             /\ t.page.version = s.page.version + 1 /\ t.page.choice = s.page.choice
             /\ t.page.want = s.page.want /\ t.page.press = s.page.press /\ Shows(t.page, s.page)
<1> DEFINE t == InvalidateWarm(s)
<1>1. /\ t.page.version = s.page.version + 1 /\ t.page.choice = s.page.choice
      /\ t.page.want = s.page.want /\ t.page.press = s.page.press /\ t.page.warmKey = NoKey
      /\ Shows(t.page, s.page)
  BY DEF Good, States, PageType, InvalidateWarm, Shows
<1>2. /\ SameQueues(t, s) /\ t.inbox = s.inbox
      /\ t.worker = IF s.worker.alive THEN HandleWarmCancel(s.worker) ELSE s.worker
  BY InvalidateFields
<1> HIDE DEF t
<1>3. s.worker \in WorkerType /\ s.inbox \in Seq(MessageType) /\ s.worker.warm.tok \in Nat
  BY DEF Good, States, WorkerType, RunType
<1>4. Bides(t.worker, s.worker, h)
  BY <1>2, <1>3, CancelBides, BidesSelf
<1>5. Heeds(t.worker, v, g, h)
  BY <1>4, BidesHeeds DEF OnCourse
<1>6. t.worker.warm.on => t.worker.alive /\ t.worker.warm.tok <= v /\ t.worker.warm.tok \in Nat
  BY <1>3, <1>4, <1>5 DEF Bides, Heeds, WarmAs
<1>7. Heeds(t.worker, v + 1, goal, h)
  BY <1>5, <1>6 DEF Heeds, WarmAs
<1>8. \A n \in DOMAIN t.inbox : t.inbox[n].re = "warm" => t.inbox[n].tok \in Nat /\ t.inbox[n].tok <= v
  <2>1. ASSUME NEW n \in DOMAIN s.inbox, s.inbox[n].re = "warm"
        PROVE  s.inbox[n].tok \in Nat
    <3>1. s.inbox[n] \in MessageType
      BY <1>3
    <3> QED
      BY <2>1, <3>1 DEF MessageType
  <2> QED
    BY <1>2, <2>1 DEF OnCourse, Told
<1>9. Told(t.inbox, v + 1, h) /\ ~Ripe(t.inbox, v + 1)
  BY <1>2, <1>8 DEF OnCourse, Told, Ripe
<1>10. v + 1 \in Nat /\ v <= v + 1
  OBVIOUS
<1>11. Tokens(t, v)
  BY <1>2 DEF OnCourse, Tokens, SameQueues
<1>12. Tokens(t, v + 1)
  BY <1>10, <1>11, TokensLater
<1>13. OnCourse(t, v + 1, goal, h)
  BY <1>1, <1>7, <1>9, <1>12 DEF OnCourse
<1> QED
  BY <1>1, <1>13 DEF t

LEMMA ToldConcat ==
  ASSUME NEW q \in Seq(MessageType), NEW out \in Seq(MessageType), NEW v, NEW h, Told(q, v, h), Told(out, v, h)
  PROVE  Told(q \o out, v, h) /\ (Ripe(q \o out, v) => Ripe(q, v) \/ Ripe(out, v))
<1>1. /\ Len(q) \in Nat /\ Len(out) \in Nat /\ DOMAIN q = 1 .. Len(q) /\ DOMAIN out = 1 .. Len(out)
      /\ DOMAIN (q \o out) = 1 .. Len(q) + Len(out)
      /\ \A n \in 1 .. Len(q) + Len(out) : (q \o out)[n] = IF n <= Len(q) THEN q[n] ELSE out[n - Len(q)]
  OBVIOUS
<1>2. ASSUME NEW n \in DOMAIN (q \o out)
      PROVE  \/ \E k \in DOMAIN q : (q \o out)[n] = q[k]
             \/ \E k \in DOMAIN out : (q \o out)[n] = out[k]
  <2>1. CASE n <= Len(q)
    BY <1>1, <2>1
  <2>2. CASE ~(n <= Len(q))
    <3>1. n - Len(q) \in DOMAIN out /\ (q \o out)[n] = out[n - Len(q)]
      BY <1>1, <2>2
    <3> QED
      BY <3>1
  <2> QED
    BY <2>1, <2>2
<1> QED
  BY <1>2 DEF Told, Ripe

LEMMA EngineCourse ==
  ASSUME NEW s, Good(s), NEW v \in Nat, NEW g, NEW h, OnCourse(s, v, g, h)
  PROVE  Heeds(Engine(s), v, g, h) /\ (Fresh(s.worker, v, g) => Fresh(Engine(s), v, g))
<1>1. CASE s.worker.alive
  BY <1>1 DEF Engine, OnCourse
<1>2. CASE ~s.worker.alive
  <2>1. /\ Engine(s).warm = NoRun /\ Engine(s).job = NoRun /\ Engine(s).waiting = << >> /\ Engine(s).woken = << >>
    BY <1>2 DEF Engine, NoWorker
  <2>2. ~NoRun.on /\ NoRun.done = 0
    BY DEF NoRun
  <2>3. Heeds(Engine(s), v, g, h)
    BY <2>1, <2>2 DEF Heeds, WarmAs, JobAs, ExportsAs
  <2> QED
    BY <1>2, <2>3 DEF Fresh
<1> QED
  BY <1>1, <1>2

\* A call whose handler keeps to the goals.
LEMMA ReplyCourse ==
  ASSUME NEW s, Good(s), NEW v \in Nat, NEW g, NEW h, OnCourse(s, v, g, h), NEW r, Fine(r),
         NEW w, Fresh(s.worker, v, g) => Fresh(w, v, g), Stays(r, w, v, g, h)
  PROVE  OnCourse(Call(s, r), v, g, h) /\ Call(s, r).page = s.page
<1> DEFINE t == Call(s, r)
<1>1. t.page = s.page /\ SameQueues(t, s) /\ t.worker = r.w /\ t.inbox = s.inbox \o r.out
  BY CallFields
<1> HIDE DEF t
<1>2. s.inbox \in Seq(MessageType) /\ r.out \in Seq(MessageType)
  BY DEF Good, States, Fine, Talks
<1>3. Told(t.inbox, v, h) /\ (Ripe(t.inbox, v) => Ripe(s.inbox, v) \/ Ripe(r.out, v))
  BY <1>1, <1>2, ToldConcat DEF OnCourse, Stays
<1>4. Tokens(t, v)
  BY <1>1 DEF OnCourse, Tokens, SameQueues
<1>5. s.page.warmKey # NoKey \/ Ripe(t.inbox, v) => Fresh(t.worker, v, g)
  BY <1>1, <1>3 DEF OnCourse, Stays
<1>6. OnCourse(t, v, g, h)
  BY <1>1, <1>3, <1>4, <1>5 DEF OnCourse, Stays
<1> QED
  BY <1>1, <1>6 DEF t

LEMMA CallCourse ==
  ASSUME NEW s, Good(s), NEW v \in Nat, NEW g, NEW h, OnCourse(s, v, g, h), NEW r, Fine(r), Stays(r, Engine(s), v, g, h)
  PROVE  OnCourse(Call(s, r), v, g, h) /\ Call(s, r).page = s.page
BY EngineCourse, ReplyCourse

LEMMA CallSteers ==
  ASSUME NEW s, Good(s), NEW r, Fine(r),
         \A v \in Nat : \A g, h : Heeds(Engine(s), v, g, h) => Stays(r, Engine(s), v, g, h)
  PROVE  Steers(Call(s, r), s) /\ Call(s, r).page = s.page
<1>1. Call(s, r).page = s.page
  BY CallFields
<1>2. ASSUME NEW v \in Nat, NEW g, NEW h, OnCourse(s, v, g, h) PROVE OnCourse(Call(s, r), v, g, h)
  BY <1>2, EngineCourse, CallCourse
<1> QED
  BY <1>1, <1>2 DEF Steers, SameAsk

-----------------------------------------------------------------------------
(* Preparations, and those who wait for them. *)

\* The same engine, and a queue of those who wait that is as early as before.
LEMMA QueuesSteer ==
  ASSUME NEW s, NEW t, t.worker = s.worker, t.inbox = s.inbox, t.page.warmKey = s.page.warmKey,
         SameAsk(t.page, s.page), \A v \in Nat : Tokens(s, v) => Tokens(t, v)
  PROVE  Steers(t, s)
BY DEF Steers, OnCourse

LEMMA PrepareSteers ==
  ASSUME NEW s, Sane(s), FreePreps(s) # {}, NEW b \in Books
  PROVE  Steers(Prepare(s, b), s)
<1> DEFINE i == CHOOSE j \in FreePreps(s) : \A k \in FreePreps(s) : j <= k
<1>1. i \in Preps /\ s.prep[i].step = "off"
  BY FreePrep
<1> HIDE DEF i
<1> DEFINE new == [step |-> "load", book |-> b, waiters |-> << >>]
           p == [s.page EXCEPT !.loaded = i]
           preps == [s.prep EXCEPT ![i] = new]
           u == [s EXCEPT !.page = p, !.prep = preps]
           r == HandleLoad(Engine(s), i, b)
<1>0. Good(s)
  BY DEF Sane
<1>2. p \in PageType /\ p.warmKey = s.page.warmKey /\ SameAsk(p, s.page)
  BY <1>0, <1>1 DEF Good, States, PageType, SameAsk
<1>3. /\ preps \in [Preps -> PrepType] /\ preps[i].waiters = << >>
      /\ \A j \in Preps : j # i => preps[j] = s.prep[j]
  BY <1>0, <1>1, NoPrepType DEF Good, States
<1>4. Prepare(s, b) = Call(u, r)
  BY DEF Prepare, i
<1> HIDE DEF p, preps
<1>5. Good(u) /\ u.page = p /\ u.prep = preps /\ u.micro = s.micro /\ u.worker = s.worker /\ u.inbox = s.inbox
  BY <1>0, <1>2, <1>3 DEF Good, States
<1> HIDE DEF u
<1>6. ASSUME NEW v \in Nat, Tokens(s, v) PROVE Tokens(u, v)
  <2>1. << >> \in Seq(Early(v))
    OBVIOUS
  <2> QED
    BY <1>3, <1>5, <1>6, <2>1 DEF Tokens
<1>7. Steers(u, s)
  BY <1>2, <1>5, <1>6, QueuesSteer
<1>8. Engine(u) = Engine(s)
  BY <1>5 DEF Engine
<1>9. Engine(s) \in WorkerType /\ Fine(r)
  BY <1>1, EngineFacts, HandleLoadOK
<1>10. ASSUME NEW v \in Nat, NEW g, NEW h, Heeds(Engine(u), v, g, h)
       PROVE  Stays(r, Engine(u), v, g, h)
  BY <1>1, <1>8, <1>9, <1>10, HandleLoadStays
<1> HIDE DEF r
<1>11. Steers(Call(u, r), u)
  BY <1>5, <1>9, <1>10, CallSteers
<1> QED
  BY <1>4, <1>7, <1>11, SteersTrans

\* Somebody waits for the engine: a warm that does has the version it was fired for.
LEMMA AwaitTokens ==
  ASSUME NEW s, Good(s), s.page.loaded \in Preps, NEW v \in Nat, NEW k \in Early(v), Tokens(s, v)
  PROVE  Tokens(AwaitEngine(s, k), v)
<1> DEFINE t == AwaitEngine(s, k)
           i == s.page.loaded
<1>1. k \in GoType
  BY DEF Early
<1>2. /\ t.micro = s.micro
      /\ \A j \in Preps : j # i => t.prep[j].waiters = s.prep[j].waiters
      /\ t.prep[i].waiters = Append(s.prep[i].waiters, k)
  BY <1>1, AwaitFields
<1> HIDE DEF t
<1>3. \A j \in Preps : s.prep[j].waiters \in Seq(Early(v))
  BY DEF Tokens
<1>4. Append(s.prep[i].waiters, k) \in Seq(Early(v))
  BY <1>3
<1>5. \A j \in Preps : t.prep[j].waiters \in Seq(Early(v))
  BY <1>2, <1>3, <1>4
<1>6. Tokens(t, v)
  BY <1>2, <1>5 DEF Tokens
<1> QED
  BY <1>6 DEF t

LEMMA AwaitWarmCourse ==
  ASSUME NEW s, Good(s), s.page.loaded \in Preps, NEW v \in Nat, NEW k \in Early(v), NEW g, NEW h,
         OnCourse(s, v, g, h)
  PROVE  OnCourse(AwaitEngine(s, k), v, g, h) /\ AwaitEngine(s, k).page = s.page
<1> DEFINE t == AwaitEngine(s, k)
<1>1. k \in GoType
  BY DEF Early
<1>2. t.page = s.page /\ t.worker = s.worker /\ t.inbox = s.inbox
  BY <1>1, AwaitFields
<1>3. Tokens(t, v)
  BY AwaitTokens DEF OnCourse
<1> HIDE DEF t
<1>4. OnCourse(t, v, g, h)
  BY <1>2, <1>3 DEF OnCourse
<1> QED
  BY <1>2, <1>4 DEF t

LEMMA ContinuedTokens ==
  ASSUME NEW v \in Nat, NEW waiters \in Seq(Early(v)), NEW ok \in BOOLEAN
  PROVE  Continued(waiters, ok) \in Seq(EarlyMicro(v))
<1>1. DOMAIN waiters = 1 .. Len(waiters) /\ Len(waiters) \in Nat
  OBVIOUS
<1>2. Continued(waiters, ok) \in [1 .. Len(waiters) -> EarlyMicro(v)]
  BY <1>1 DEF Continued, EarlyMicro
<1> QED
  BY <1>1, <1>2

LEMMA PrepEndsSteers ==
  ASSUME NEW s, Good(s), NEW i \in Preps, NEW ok \in BOOLEAN, NEW loaded \in {None, Ready} \cup Preps
  PROVE  Steers(PrepEnds(s, i, loaded, ok), s)
<1> DEFINE t == PrepEnds(s, i, loaded, ok)
<1>1. t.page = [s.page EXCEPT !.loaded = loaded]
  BY DEF PrepEnds, Good, States
<1>2. Ended(t, s, i, loaded, ok)
  BY PrepEndsFields
<1> HIDE DEF t
<1>3. /\ \A j \in Preps : t.prep[j] = IF j = i THEN NoPrep ELSE s.prep[j]
      /\ t.micro = s.micro \o Continued(s.prep[i].waiters, ok)
      /\ t.worker = s.worker /\ t.inbox = s.inbox
  BY <1>2 DEF Ended
<1>4. t.page.warmKey = s.page.warmKey /\ SameAsk(t.page, s.page)
  BY <1>1 DEF Good, States, PageType, SameAsk
<1>5. ASSUME NEW v \in Nat, Tokens(s, v) PROVE Tokens(t, v)
  <2>1. NoPrep.waiters \in Seq(Early(v))
    BY DEF NoPrep
  <2>2. \A j \in Preps : t.prep[j].waiters \in Seq(Early(v))
    BY <1>3, <1>5, <2>1 DEF Tokens
  <2>3. Continued(s.prep[i].waiters, ok) \in Seq(EarlyMicro(v)) /\ s.micro \in Seq(EarlyMicro(v))
    BY <1>5, ContinuedTokens DEF Tokens
  <2>4. t.micro \in Seq(EarlyMicro(v))
    BY <1>3, <2>3
  <2> QED
    BY <2>2, <2>4 DEF Tokens
<1>6. Steers(t, s)
  BY <1>3, <1>4, <1>5, QueuesSteer
<1> QED
  BY <1>6 DEF t

-----------------------------------------------------------------------------
(* The end of an engine, and of an export. *)

\* What the page asks for is the same after a warm has been scheduled, or has ended.
LEMMA ScheduleAsk ==
  ASSUME NEW s, Good(s)
  PROVE  LET p == ScheduleWarm(s).page
         IN  /\ p.version = s.page.version /\ p.choice = s.page.choice /\ p.want = s.page.want
             /\ p.press = s.page.press /\ p.warmKey = s.page.warmKey /\ Shows(p, s.page)
BY DEF Good, States, PageType, ScheduleWarm, Shows

LEMMA WarmEndsAsk ==
  ASSUME NEW s, Good(s)
  PROVE  LET p == WarmEnds(s).page
         IN  /\ p.version = s.page.version /\ p.choice = s.page.choice /\ p.want = s.page.want
             /\ p.press = s.page.press /\ p.warmKey = s.page.warmKey /\ Shows(p, s.page)
BY DEF Good, States, PageType, WarmEnds, Shows

LEMMA UnlockAsk ==
  ASSUME NEW s, Good(s)
  PROVE  LET p == Unlock(s).page
         IN  /\ p.version = s.page.version /\ p.choice = s.page.choice /\ p.want = NoWant
             /\ p.press = "no" /\ p.warmKey = s.page.warmKey /\ Shows(p, s.page)
BY DEF Good, States, PageType, Unlock, Shows

LEMMA KillAsk ==
  ASSUME NEW s, Good(s)
  PROVE  LET p == KillExportEngine(s).page
         IN  /\ p.version = s.page.version /\ p.choice = s.page.choice /\ p.warmKey = NoKey
             /\ p.convert = s.page.convert /\ p.faceLoaded = s.page.faceLoaded /\ p.face = s.page.face
             /\ p.fontRun = IF s.page.fontRun = "sync" THEN "waiting" ELSE s.page.fontRun
             /\ s.page.press \notin {"serial", "fetch"} => p.want = s.page.want /\ p.press = s.page.press
             /\ s.page.press \in {"serial", "fetch"} => p.press = "no"
<1> DEFINE gone == Continued(Gone(s), FALSE)
           p == [s.page EXCEPT !.loaded = None, !.warmKey = NoKey,
                               !.fontRun = IF s.page.fontRun = "sync" THEN "waiting" ELSE s.page.fontRun]
           preps == [i \in Preps |-> NoPrep]
           micro0 == s.micro \o gone
           dead == [s EXCEPT !.worker = NoWorker, !.inbox = << >>, !.prep = preps, !.page = p, !.micro = micro0]
           warmed == IF s.worker.warm.on \/ \E n \in DOMAIN s.inbox : s.inbox[n].re = "warm"
                     THEN WarmEnds(ScheduleWarm(dead)) ELSE dead
<1>1. s.page \in PageType /\ s.prep \in [Preps -> PrepType] /\ s.micro \in Seq(MicroType)
  BY DEF Good, States
<1>2. gone \in Seq(MicroType)
  BY WaitsType, ContinuedOK
<1>3. KillExportEngine(s) = IF s.page.press \in {"serial", "fetch"} THEN Unlock(warmed) ELSE warmed
  <2>1. dead = [s EXCEPT !.worker = NoWorker, !.inbox = << >>, !.prep = preps,
                         !.page.loaded = None, !.page.warmKey = NoKey,
                         !.page.fontRun = IF @ = "sync" THEN "waiting" ELSE @,
                         !.micro = @ \o gone]
    BY <1>1 DEF PageType, Good, States
  <2> QED
    BY <2>1 DEF KillExportEngine, Gone, Syncing, Waits, FontAsk
<1> HIDE DEF gone
<1>4. micro0 \in Seq(MicroType)
  BY <1>1, <1>2
<1>5. /\ p \in PageType /\ p.version = s.page.version /\ p.choice = s.page.choice /\ p.want = s.page.want
      /\ p.press = s.page.press /\ p.warmKey = NoKey
  BY <1>1, DefaultType DEF PageType, FontRuns
<1>a. /\ p.convert = s.page.convert /\ p.faceLoaded = s.page.faceLoaded /\ p.face = s.page.face
      /\ p.fontRun = IF s.page.fontRun = "sync" THEN "waiting" ELSE s.page.fontRun
  BY <1>1 DEF PageType
<1>6. preps \in [Preps -> PrepType]
  BY NoPrepType
<1> HIDE DEF p, preps, micro0
<1>7. Good(dead) /\ dead.page = p
  <2>1. << >> \in Seq(MessageType) /\ NoWorker \in WorkerType /\ Calm(NoWorker)
    BY NoWorkerCalm DEF Calm, Sound
  <2>2. dead.worker = NoWorker /\ dead.page = p
    BY DEF Good, States
  <2> QED
    BY <1>4, <1>5, <1>6, <2>1, <2>2 DEF Good, States
<1> HIDE DEF dead
<1>8. Good(ScheduleWarm(dead)) /\ Good(WarmEnds(ScheduleWarm(dead)))
  BY <1>7, ScheduleWarmOK, WarmEndsOK
<1>9. /\ Good(warmed) /\ warmed.page.version = s.page.version /\ warmed.page.choice = s.page.choice
      /\ warmed.page.want = s.page.want /\ warmed.page.press = s.page.press /\ warmed.page.warmKey = NoKey
      /\ Shows(warmed.page, p)
  <2>1. Shows(p, p)
    BY DEF Shows
  <2>2. Shows(ScheduleWarm(dead).page, p) /\ Shows(WarmEnds(ScheduleWarm(dead)).page, p)
    BY <1>7, <1>8, ScheduleAsk, WarmEndsAsk DEF Shows
  <2> QED
    BY <1>5, <1>7, <1>8, <2>1, <2>2, ScheduleAsk, WarmEndsAsk
<1> HIDE DEF warmed
<1>10. Good(warmed) => Shows(Unlock(warmed).page, warmed.page)
  BY UnlockAsk
<1> QED
  BY <1>3, <1>9, <1>a, <1>10, UnlockAsk DEF Shows

\* Nothing is left of an engine that was killed but those who were told so.
LEMMA KillCourse ==
  ASSUME NEW s, Good(s), NEW v \in Nat, Tokens(s, v), NEW g, NEW h
  PROVE  OnCourse(KillExportEngine(s), v, g, h)
<1> DEFINE t == KillExportEngine(s)
<1>1. /\ t.worker = NoWorker /\ t.inbox = << >> /\ t.prep = [i \in Preps |-> NoPrep]
      /\ t.micro = s.micro \o Continued(Gone(s), FALSE)
  BY KillFields DEF Killed
<1>2. t.page.warmKey = NoKey
  BY KillAsk
<1> HIDE DEF t
<1>3. \A i \in Preps : s.prep[i].waiters \in Seq(Early(v))
  BY DEF Tokens
<1>4. Waits(s) \in Seq(Seq(Early(v)))
  BY <1>3, WarmAssumption DEF Preps, Waits
<1>5. Syncing(s) \in Seq(Seq(Early(v)))
  <2>1. FontAsk \in Early(v)
    BY DEF FontAsk, Early, GoType
  <2>2. <<FontAsk>> \in Seq(Early(v))
    BY <2>1
  <2> QED
    BY <2>2 DEF Syncing
<1>6. Syncing(s) \o Waits(s) \in Seq(Seq(Early(v)))
  BY <1>4, <1>5
<1>7. Gone(s) \in Seq(Early(v))
  BY <1>6, FlattenType DEF Gone
<1>8. Continued(Gone(s), FALSE) \in Seq(EarlyMicro(v)) /\ s.micro \in Seq(EarlyMicro(v))
  BY <1>7, ContinuedTokens DEF Tokens
<1>9. t.micro \in Seq(EarlyMicro(v))
  <2> DEFINE a == s.micro
             b == Continued(Gone(s), FALSE)
             S == EarlyMicro(v)
  <2>1. a \in Seq(S) /\ b \in Seq(S) /\ t.micro = a \o b
    BY <1>1, <1>8
  <2> HIDE DEF a, b, S
  <2>2. t.micro \in Seq(S)
    BY <2>1
  <2> QED
    BY <2>2 DEF S
<1>10. NoPrep.waiters \in Seq(Early(v))
  BY DEF NoPrep
<1>11. Tokens(t, v)
  BY <1>1, <1>9, <1>10 DEF Tokens
<1>12. /\ NoWorker.warm = NoRun /\ NoWorker.job = NoRun /\ NoWorker.waiting = << >> /\ NoWorker.woken = << >>
       /\ ~NoRun.on /\ NoRun.done = 0
  BY DEF NoWorker, NoRun
<1>13. Heeds(t.worker, v, g, h)
  BY <1>1, <1>12 DEF Heeds, WarmAs, JobAs, ExportsAs
<1>14. Told(t.inbox, v, h) /\ ~Ripe(t.inbox, v)
  BY <1>1 DEF Told, Ripe
<1>15. OnCourse(t, v, g, h)
  BY <1>2, <1>11, <1>13, <1>14 DEF OnCourse
<1> QED
  BY <1>15 DEF t

\* When no export waits, is under way or has been answered, the goal of the next may be any.
LEMMA NewWish ==
  ASSUME NEW s, Vacant(s), NEW v, NEW g, NEW h, OnCourse(s, v, g, h), NEW wish
  PROVE  OnCourse(s, v, g, wish)
<1>1. Sound(s.worker) /\ s.worker.woken = << >> /\ ~s.worker.job.on /\ Files(s.inbox) = {}
  BY DEF Vacant, Sane, Good, Calm
<1>2. ExportsAs(s.worker.waiting, wish) /\ ExportsAs(s.worker.woken, wish)
  BY <1>1 DEF ExportsAs, Sound, InTurn
<1>3. s.worker.job.done \in 0 .. Spines /\ ~(s.worker.job.done > 0)
  BY <1>1 DEF Sound, Alone, WorkerType, RunType
<1>4. JobAs(s.worker, wish)
  BY <1>2, <1>3 DEF JobAs
<1>5. Told(s.inbox, v, wish)
  BY <1>1 DEF OnCourse, Told, Files
<1> QED
  BY <1>4, <1>5 DEF OnCourse, Heeds

-----------------------------------------------------------------------------
(* What the page does with its engine. *)

LEMMA PressAsk ==
  ASSUME NEW s, Good(s), NEW press \in Presses
  PROVE  LET t == [s EXCEPT !.page.press = press]
         IN  /\ Good(t) /\ SameQueues(t, s) /\ t.worker = s.worker /\ t.inbox = s.inbox
             /\ t.page.version = s.page.version /\ t.page.choice = s.page.choice /\ t.page.want = s.page.want
             /\ t.page.press = press /\ t.page.warmKey = s.page.warmKey /\ Shows(t.page, s.page)
<1> DEFINE p == [s.page EXCEPT !.press = press]
           t == [s EXCEPT !.page = p]
<1>1. /\ p \in PageType /\ p.version = s.page.version /\ p.choice = s.page.choice /\ p.want = s.page.want
      /\ p.press = press /\ p.warmKey = s.page.warmKey /\ Shows(p, s.page)
  BY DEF Good, States, PageType, Shows
<1> HIDE DEF p
<1>2. Good(t) /\ t.page = p /\ t.worker = s.worker /\ t.inbox = s.inbox /\ SameQueues(t, s)
  BY <1>1, PageOK DEF Good, States, SameQueues
<1> HIDE DEF t
<1> QED
  BY <1>1, <1>2 DEF t, p

LEMMA PressCourse ==
  ASSUME NEW s, Good(s), NEW press \in Presses, NEW v, NEW g, NEW h, OnCourse(s, v, g, h)
  PROVE  OnCourse([s EXCEPT !.page.press = press], v, g, h)
<1> DEFINE t == [s EXCEPT !.page.press = press]
<1>1. SameQueues(t, s) /\ t.worker = s.worker /\ t.inbox = s.inbox /\ t.page.warmKey = s.page.warmKey
  BY PressAsk
<1> HIDE DEF t
<1>2. OnCourse(t, v, g, h)
  BY <1>1, FieldsCourse
<1> QED
  BY <1>2 DEF t

\* The warm that is sent is of the version it was fired for.
LEMMA SendWarmCourse ==
  ASSUME NEW s, Sane(s), NEW k, IsWarm(k), NEW ok \in BOOLEAN, NEW v \in Nat, NEW g, NEW h, OnCourse(s, v, g, h),
         k.tok <= v, k.tok = v /\ Engine(s).book # None => Draws(Engine(s), Chosen(s.page), g)
  PROVE  OnCourse(SendWarm(s, k, ok), v, g, h) /\ SendWarm(s, k, ok).page = s.page
<1> DEFINE m == [tok |-> k.tok, key |-> k.key, spec |-> Chosen(s.page)]
<1>0. Good(s)
  BY DEF Sane
<1>1. m \in [tok : Nat, key : Keys, spec : Settings] /\ m.tok = k.tok /\ m.spec = Chosen(s.page)
  BY <1>0, ChosenOK DEF Good, States, IsWarm
<1>2. SendWarm(s, k, ok) = Call(s, HandleWarm(Engine(s), m, ok))
  BY DEF SendWarm
<1> HIDE DEF m
<1>3. Fine(HandleWarm(Engine(s), m, ok))
  BY <1>0, <1>1, EngineOK, HandleWarmOK
<1>4. Engine(s) \in WorkerType /\ Engine(s).alive /\ Heeds(Engine(s), v, g, h)
  BY <1>0, EngineFacts, EngineCourse
<1>5. m.tok \in Nat /\ m.spec \in Settings
  BY <1>1
<1>6. Stays(HandleWarm(Engine(s), m, ok), Engine(s), v, g, h)
  BY <1>1, <1>4, <1>5, HandleWarmStays
<1> QED
  BY <1>0, <1>2, <1>3, <1>6, CallCourse

LEMMA FontRunAsk ==
  ASSUME NEW s, Good(s), NEW f \in FontRuns
  PROVE  LET t == [s EXCEPT !.page.fontRun = f]
         IN  /\ Good(t) /\ Steers(t, s) /\ t.worker = s.worker /\ t.inbox = s.inbox /\ SameQueues(t, s)
             /\ t.page.version = s.page.version /\ t.page.choice = s.page.choice /\ t.page.want = s.page.want
             /\ t.page.press = s.page.press
<1> DEFINE p == [s.page EXCEPT !.fontRun = f]
           t == [s EXCEPT !.page = p]
<1>1. /\ p \in PageType /\ p.version = s.page.version /\ p.choice = s.page.choice /\ p.want = s.page.want
      /\ p.press = s.page.press /\ p.warmKey = s.page.warmKey
  BY DEF Good, States, PageType
<1> HIDE DEF p
<1>2. Steers(t, s)
  BY <1>1, SetPageSteers DEF SameAsk
<1>3. Good(t) /\ t.page = p /\ t.worker = s.worker /\ t.inbox = s.inbox /\ SameQueues(t, s)
  BY <1>1, PageOK DEF Good, States, SameQueues
<1> HIDE DEF t
<1> QED
  BY <1>1, <1>2, <1>3 DEF t, p

LEMMA SyncFontSteers ==
  ASSUME NEW s, Sane(s), NEW ok \in BOOLEAN
  PROVE  Steers(SyncFont(s, ok), s)
<1> DEFINE t == [s EXCEPT !.page.fontRun = "sync"]
           r == HandleFont(Engine(s), 0, s.page.face, ok)
<1>0. Good(s)
  BY DEF Sane
<1>1. Good(t) /\ Steers(t, s) /\ t.worker = s.worker
  BY <1>0, FontRunAsk DEF FontRuns
<1>2. s.page.face \in Faces
  BY <1>0 DEF Good, States, PageType
<1>3. SyncFont(s, ok) = Call(t, r)
  BY DEF SyncFont
<1> HIDE DEF t
<1>4. Engine(t) = Engine(s)
  BY <1>1 DEF Engine
<1>5. Fine(r)
  BY <1>0, <1>2, EngineOK, HandleFontOK
<1>6. ASSUME NEW v \in Nat, NEW g, NEW h, Heeds(Engine(t), v, g, h) PROVE Stays(r, Engine(t), v, g, h)
  BY <1>4, <1>6, EngineFacts, HandleFontStays
<1> HIDE DEF r
<1>7. Steers(Call(t, r), t)
  BY <1>1, <1>5, <1>6, CallSteers
<1> QED
  BY <1>1, <1>3, <1>7, SteersTrans

LEMMA PaintingAsk ==
  ASSUME NEW s, Good(s)
  PROVE  LET p == Painting(s).page
         IN  /\ p.version = s.page.version /\ p.choice.look = s.page.choice.look /\ p.want = s.page.want
             /\ p.press = s.page.press /\ p.fontRun = "painting" /\ Painting(s).worker = s.worker
<1> DEFINE choice == [s.page.choice EXCEPT !.font = "custom"]
<1>1. s.page \in PageType /\ s.page.choice \in Settings
  BY DEF Good, States, PageType
<1>2. choice.look = s.page.choice.look
  BY <1>1 DEF Settings
<1>3. Painting(s) = [s EXCEPT !.page = [s.page EXCEPT !.fontRun = "painting", !.choice = choice]]
  BY DEF Painting
<1> HIDE DEF choice
<1> QED
  BY <1>1, <1>2, <1>3 DEF Good, States, PageType

\* The engine whose face is unknown goes, and what it was making with it.
LEMMA SyncFailsCourse ==
  ASSUME NEW s, Good(s), NEW v \in Nat, Tokens(s, v), NEW g, NEW h
  PROVE  LET t == SyncFails(s)
         IN  /\ OnCourse(t, v, g, h)
             /\ t.page.version = s.page.version /\ t.page.choice.look = s.page.choice.look
             /\ s.page.press \notin {"serial", "fetch"} => t.page.want = s.page.want /\ t.page.press = s.page.press
             /\ s.page.press \in {"serial", "fetch"} => t.page.press = "no"
             /\ t.page.fontRun = "painting" /\ t.worker = NoWorker
<1> DEFINE u == [s EXCEPT !.page.fontRun = "waiting"]
           d == KillExportEngine(u)
<1>1. /\ Good(u) /\ SameQueues(u, s) /\ u.page.version = s.page.version /\ u.page.choice = s.page.choice
      /\ u.page.want = s.page.want /\ u.page.press = s.page.press
  BY FontRunAsk DEF FontRuns
<1>2. SyncFails(s) = Painting(d)
  BY DEF SyncFails
<1> HIDE DEF u
<1>3. Tokens(u, v)
  BY <1>1 DEF Tokens, SameQueues
<1>4. /\ Good(d) /\ OnCourse(d, v, g, h)
      /\ d.page.version = s.page.version /\ d.page.choice = s.page.choice
      /\ s.page.press \notin {"serial", "fetch"} => d.page.want = s.page.want /\ d.page.press = s.page.press
      /\ s.page.press \in {"serial", "fetch"} => d.page.press = "no"
  BY <1>1, <1>3, KillExportEngineOK, KillCourse, KillAsk
<1>7. d.worker = NoWorker
  BY <1>1, KillFields DEF Killed
<1> HIDE DEF d
<1>5. OnCourse(Painting(d), v, g, h)
  BY <1>4, PaintingSteers DEF Steers
<1>6. /\ Painting(d).page.version = d.page.version /\ Painting(d).page.choice.look = d.page.choice.look
      /\ Painting(d).page.want = d.page.want /\ Painting(d).page.press = d.page.press
      /\ Painting(d).page.fontRun = "painting" /\ Painting(d).worker = d.worker
  BY <1>4, PaintingAsk
<1> QED
  BY <1>2, <1>4, <1>5, <1>6, <1>7

\* The conversion: nothing is left of the engine, or it makes what was asked for.
LEMMA ConvertCourse ==
  ASSUME NEW s, Sane(s), NEW pool \in BOOLEAN, NEW ok \in BOOLEAN, NEW v \in Nat, NEW g, NEW h, OnCourse(s, v, g, h),
         SpecAs(Chosen(s.page), h), Engine(s).book # None => Draws(Engine(s), Chosen(s.page), h)
  PROVE  LET t == Convert(s, pool, ok)
         IN  /\ t.page.version = s.page.version /\ t.page.choice = s.page.choice /\ t.page.press # "wait"
             /\ pool => \A goal, wish : OnCourse(t, v, goal, wish)
             /\ ~pool => OnCourse(t, v, g, h) /\ t.page.want = s.page.want
<1> DEFINE t == [s EXCEPT !.page.press = "serial"]
           u == KillExportEngine(s)
           r == HandleExport(Engine(s), Chosen(s.page), ok)
<1>0. Good(s) /\ Tokens(s, v)
  BY DEF Sane, OnCourse
<1>1. Convert(s, pool, ok) = IF pool THEN [u EXCEPT !.page.press = "pool"] ELSE Call(t, r)
  BY DEF Convert
<1>2. CASE pool
  <2>1. /\ Good(u) /\ u.page.version = s.page.version /\ u.page.choice = s.page.choice
        /\ \A goal, wish : OnCourse(u, v, goal, wish)
    BY <1>0, KillExportEngineOK, KillAsk, KillCourse
  <2> HIDE DEF u, t, r
  <2> DEFINE x == [u EXCEPT !.page.press = "pool"]
  <2>2. /\ x.page.version = s.page.version /\ x.page.choice = s.page.choice /\ x.page.press = "pool"
    BY <2>1, PressAsk DEF Presses
  <2>3. \A goal, wish : OnCourse(x, v, goal, wish)
    BY <2>1, PressCourse DEF Presses
  <2> HIDE DEF x
  <2>4. Convert(s, pool, ok) = x
    BY <1>1, <1>2 DEF x
  <2> QED
    BY <1>2, <2>2, <2>3, <2>4
<1>3. CASE ~pool
  <2>1. /\ Good(t) /\ t.worker = s.worker /\ OnCourse(t, v, g, h) /\ t.page.version = s.page.version
        /\ t.page.choice = s.page.choice /\ t.page.want = s.page.want /\ t.page.press = "serial"
    BY <1>0, PressAsk, PressCourse DEF Presses
  <2> HIDE DEF t, u
  <2>2. Engine(t) = Engine(s)
    BY <2>1 DEF Engine
  <2>3. Chosen(s.page) \in Settings
    BY <1>0, ChosenOK DEF Good, States
  <2>4. Fine(r)
    BY <1>0, <2>3, EngineFacts, HandleExportOK
  <2>5. Engine(s) \in WorkerType /\ Heeds(Engine(s), v, g, h)
    BY <1>0, EngineFacts, EngineCourse
  <2>6. Stays(r, Engine(t), v, g, h)
    BY <2>2, <2>3, <2>5, HandleExportStays
  <2> HIDE DEF r
  <2>7. OnCourse(Call(t, r), v, g, h) /\ Call(t, r).page = t.page
    BY <2>1, <2>4, <2>6, CallCourse
  <2> QED
    BY <1>1, <1>3, <2>1, <2>7
<1> QED
  BY <1>2, <1>3

-----------------------------------------------------------------------------
(* Steps, whatever the goals. *)

\* A continuation leaves the queue.
LEMMA HeadCourse ==
  ASSUME NEW s, Good(s), s.micro # << >>, NEW v \in Nat, NEW g, NEW h, OnCourse(s, v, g, h)
  PROVE  LET t == [s EXCEPT !.micro = Tail(s.micro)]
         IN  /\ OnCourse(t, v, g, h) /\ t.page = s.page /\ t.worker = s.worker /\ t.prep = s.prep
             /\ Head(s.micro).go.who = "warm" => Head(s.micro).go.tok <= v
<1> DEFINE rest == Tail(s.micro)
           t == [s EXCEPT !.micro = rest]
<1>1. s.micro \in Seq(EarlyMicro(v))
  BY DEF OnCourse, Tokens
<1>2. Head(s.micro) \in EarlyMicro(v) /\ rest \in Seq(EarlyMicro(v))
  BY <1>1
<1> HIDE DEF rest
<1>3. t.page = s.page /\ t.worker = s.worker /\ t.prep = s.prep /\ t.inbox = s.inbox /\ t.micro = rest
  BY DEF Good, States
<1> HIDE DEF t
<1>4. OnCourse(t, v, g, h)
  BY <1>2, <1>3 DEF OnCourse, Tokens
<1>5. Head(s.micro).go.who = "warm" => Head(s.micro).go.tok <= v
  BY <1>2 DEF EarlyMicro, Early
<1> QED
  BY <1>3, <1>4, <1>5 DEF t, rest

\* An answer leaves the inbox.
LEMMA AnswerCourse ==
  ASSUME NEW s, Good(s), s.inbox # << >>, NEW v, NEW g, NEW h, OnCourse(s, v, g, h)
  PROVE  LET t == [s EXCEPT !.inbox = Tail(s.inbox)]
             m == Head(s.inbox)
         IN  /\ OnCourse(t, v, g, h) /\ t.page = s.page /\ t.worker = s.worker
             /\ m.re = "file" => MadeAs(m.made, h)
             /\ m.re = "warm" /\ m.res = "ready" /\ m.tok = v => Fresh(s.worker, v, g)
<1> DEFINE rest == Tail(s.inbox)
           t == [s EXCEPT !.inbox = rest]
           m == Head(s.inbox)
<1>1. s.inbox \in Seq(MessageType)
  BY DEF Good, States
<1>2. /\ DOMAIN s.inbox = 1 .. Len(s.inbox) /\ Len(s.inbox) \in Nat /\ 1 \in DOMAIN s.inbox /\ m = s.inbox[1]
      /\ DOMAIN rest = 1 .. Len(s.inbox) - 1
      /\ \A n \in 1 .. Len(s.inbox) - 1 : rest[n] = s.inbox[n + 1]
  BY <1>1
<1>3. \A n \in DOMAIN rest : \E k \in DOMAIN s.inbox : rest[n] = s.inbox[k]
  <2>1. ASSUME NEW n \in DOMAIN rest PROVE n + 1 \in DOMAIN s.inbox /\ rest[n] = s.inbox[n + 1]
    BY <1>2
  <2> QED
    BY <2>1
<1> HIDE DEF rest, m
<1>4. t.page = s.page /\ t.worker = s.worker /\ t.prep = s.prep /\ t.micro = s.micro /\ t.inbox = rest
  BY DEF Good, States
<1> HIDE DEF t
<1>5. Told(t.inbox, v, h) /\ (Ripe(t.inbox, v) => Ripe(s.inbox, v))
  BY <1>3, <1>4 DEF OnCourse, Told, Ripe
<1>6. OnCourse(t, v, g, h)
  BY <1>4, <1>5 DEF OnCourse, Tokens
<1>7. m.re = "file" => MadeAs(m.made, h)
  BY <1>2 DEF OnCourse, Told
<1>8. m.re = "warm" /\ m.res = "ready" /\ m.tok = v => Fresh(s.worker, v, g)
  <2>1. m.re = "warm" /\ m.res = "ready" /\ m.tok = v => Ripe(s.inbox, v)
    BY <1>2 DEF Ripe
  <2> QED
    BY <2>1 DEF OnCourse
<1> QED
  BY <1>4, <1>6, <1>7, <1>8 DEF t, m, rest

\* A preparation takes its second step.
LEMMA StepSteers ==
  ASSUME NEW s, Good(s), NEW i \in Preps
  PROVE  Steers([s EXCEPT !.prep[i].step = "font"], s)
<1> DEFINE new == [s.prep[i] EXCEPT !.step = "font"]
           preps == [s.prep EXCEPT ![i] = new]
           t == [s EXCEPT !.prep = preps]
<1>1. s.prep \in [Preps -> PrepType]
  BY DEF Good, States
<1>2. new.waiters = s.prep[i].waiters
  BY <1>1 DEF PrepType
<1>3. [s EXCEPT !.prep[i].step = "font"] = t
  OBVIOUS
<1> HIDE DEF new
<1>4. preps[i] = new /\ \A j \in Preps : j # i => preps[j] = s.prep[j]
  BY <1>1
<1> HIDE DEF preps
<1>5. t.page = s.page /\ t.prep = preps /\ t.micro = s.micro /\ t.worker = s.worker /\ t.inbox = s.inbox
  BY DEF Good, States
<1> HIDE DEF t
<1>6. \A v \in Nat : Tokens(s, v) => Tokens(t, v)
  BY <1>2, <1>4, <1>5 DEF Tokens
<1>7. Steers(t, s)
  BY <1>5, <1>6, QueuesSteer DEF SameAsk
<1> QED
  BY <1>3, <1>7

\* A step of the worker.
LEMMA WorksCourse ==
  ASSUME WarmInv, NEW r, Works(r), Talks(r), NEW v, NEW g, NEW h, OnCourse(Now, v, g, h), Stays(r, worker, v, g, h)
  PROVE  OnCourse(Now', v, g, h) /\ Now'.page = page
<1>1. page' = page /\ prep' = prep /\ micro' = micro /\ worker' = r.w /\ inbox' = inbox \o r.out
  BY DEF Works
<1>2. /\ Now.page = page /\ Now.prep = prep /\ Now.micro = micro /\ Now.worker = worker /\ Now.inbox = inbox
      /\ Now'.page = page /\ Now'.prep = prep /\ Now'.micro = micro /\ Now'.worker = r.w
      /\ Now'.inbox = inbox \o r.out
  BY <1>1 DEF Now
<1>3. inbox \in Seq(MessageType) /\ r.out \in Seq(MessageType)
  BY DEF WarmInv, InTypes, Talks
<1>4. Told(inbox \o r.out, v, h) /\ (Ripe(inbox \o r.out, v) => Ripe(inbox, v) \/ Ripe(r.out, v))
  BY <1>2, <1>3, ToldConcat DEF OnCourse, Stays
<1>5. Tokens(Now', v)
  BY <1>2 DEF OnCourse, Tokens
<1>6. page.warmKey # NoKey \/ Ripe(inbox \o r.out, v) => Fresh(r.w, v, g)
  BY <1>2, <1>4 DEF OnCourse, Stays
<1>7. Heeds(r.w, v, g, h)
  BY DEF Stays
<1> QED
  BY <1>2, <1>4, <1>5, <1>6, <1>7 DEF OnCourse

\* The worker keeps to the goals when its next step begins; r is what it makes of it.
LEMMA WorkerStepsCourse ==
  ASSUME WarmInv, NEW ok \in BOOLEAN, WakeNext(ok) \/ BookRead(ok) \/ WarmStep(ok) \/ ExportStep(ok),
         NEW v \in Nat, NEW g, NEW h, OnCourse(Now, v, g, h),
         worker.woken # << >> /\ Head(worker.woken).cmd = "exportBook" => Draws(worker, Head(worker.woken).spec, h)
  PROVE  OnCourse(Now', v, g, h) /\ Now'.page = page /\ saved' = NoSave
<1>0. Sound(worker) /\ worker \in WorkerType /\ Heeds(worker, v, g, h)
  BY DEF WarmInv, Sound, OnCourse, Now
<1>1. CASE WakeNext(ok)
  <2> DEFINE r == Resume([worker EXCEPT !.woken = Tail(worker.woken)], Head(worker.woken), ok)
  <2>1. Sounds(r) /\ Works(r) /\ worker.woken # << >>
    BY <1>0, <1>1, ResumeOK DEF WakeNext
  <2>2. Stays(r, worker, v, g, h)
    BY <1>0, <2>1, WakeStays
  <2> HIDE DEF r
  <2> QED
    BY <2>1, <2>2, WorksCourse DEF Sounds, Works
<1>2. CASE BookRead(ok)
  <2>1. Sounds(LoadEnds(worker, ok)) /\ Works(LoadEnds(worker, ok)) /\ worker.loads # << >>
    BY <1>0, <1>2, LoadEndsOK DEF BookRead, Calm, Replacing
  <2>2. Stays(LoadEnds(worker, ok), worker, v, g, h)
    BY <1>0, <2>1, LoadEndsStays
  <2> QED
    BY <2>1, <2>2, WorksCourse DEF Sounds, Works
<1>3. CASE WarmStep(ok)
  <2>1. Sounds(WarmGoesOn(worker, ok)) /\ Works(WarmGoesOn(worker, ok)) /\ worker.warm.on
    BY <1>0, <1>3, WarmGoesOnOK DEF WarmStep, Calm
  <2>2. Stays(WarmGoesOn(worker, ok), worker, v, g, h)
    BY <1>0, <2>1, WarmGoesOnStays
  <2> QED
    BY <2>1, <2>2, WorksCourse DEF Sounds, Works
<1>4. CASE ExportStep(ok)
  <2>1. Sounds(ExportGoesOn(worker, ok)) /\ Works(ExportGoesOn(worker, ok)) /\ worker.job.done > 0
    BY <1>0, <1>4, ExportGoesOnOK DEF ExportStep, Calm
  <2>2. Stays(ExportGoesOn(worker, ok), worker, v, g, h)
    BY <1>0, <2>1, ExportGoesOnStays
  <2> QED
    BY <2>1, <2>2, WorksCourse DEF Sounds, Works
<1> QED
  BY <1>1, <1>2, <1>3, <1>4

-----------------------------------------------------------------------------
LEMMA ChosenLook ==
  ASSUME NEW p \in PageType
  PROVE  Chosen(p).look = p.choice.look
BY DEF Chosen, PageType, Settings

\* A key the page remembers is never the one of no file at all.
LEMMA KeyIsSome ==
  ASSUME NEW p \in PageType
  PROVE  Key(p) # NoKey
<1>1. Chosen(p).font \in {"kopub", "custom"}
  BY ChosenOK DEF Settings
<1>2. Key(p).spec.font # "none" /\ NoKey.spec.font = "none"
  BY <1>1 DEF Key, NoKey, NoSpec, Default
<1> QED
  BY <1>2

-----------------------------------------------------------------------------
(***************************************************************************)
(* The face in force: custom settings draw with the custom face, and an    *)
(* engine without a book takes no conversion.                              *)
(***************************************************************************)
Follows(w) == w.spec.font = "custom" /\ w.book # None => w.font = "custom"
Off(w)     == w.book = None /\ w.loads = << >>

\* The worker's handlers keep both.
Tame(x, w)  == (Follows(w) => Follows(x)) /\ (Off(w) => Off(x))
\* Books are left alone, and the face in force is left alone, that of the settings, or custom.
Plain(x, w) ==
  /\ x.book = w.book /\ x.loads = w.loads
  /\ (x.spec = w.spec /\ x.font = w.font) \/ x.font \in {x.spec.font, "custom"}

LEMMA PlainTame ==
  ASSUME NEW w, NEW x, Plain(x, w)
  PROVE  Tame(x, w)
BY DEF Plain, Tame, Follows, Off

LEMMA PlainSelf ==
  ASSUME NEW w
  PROVE  Plain(w, w) /\ Tame(w, w)
BY DEF Plain, Tame

LEMMA PlainTrans ==
  ASSUME NEW w, NEW x, NEW y, Plain(x, w), y.book = x.book, y.loads = x.loads, y.spec = x.spec, y.font = x.font
  PROVE  Plain(y, w)
BY DEF Plain

LEMMA SaysWorker ==
  ASSUME NEW w, NEW m
  PROVE  Says(w, m).w = w /\ Quietly(w).w = w
BY DEF Says, Quietly

LEMMA AppliedPlain ==
  ASSUME NEW w \in WorkerType, NEW spec
  PROVE  Plain(Applied(w, spec), w) /\ DOMAIN Applied(w, spec) = DOMAIN NoWorker
BY DEF WorkerType, Applied, Plain, NoWorker

LEMMA WaitPlain ==
  ASSUME NEW w \in WorkerType, NEW h
  PROVE  Plain(Wait(w, h), w) /\ DOMAIN Wait(w, h) = DOMAIN NoWorker
BY DEF WorkerType, Wait, Plain, NoWorker

LEMMA HandleFontPlain ==
  ASSUME NEW w \in WorkerType, NEW i, NEW f, NEW ok \in BOOLEAN
  PROVE  Plain(HandleFont(w, i, f, ok).w, w) /\ Plain(TakeFont(w, i, f, ok).w, w)
<1> DEFINE x == [w EXCEPT !.custom = f, !.font = "custom"]
           k == Wait(w, [cmd |-> "loadFont", id |-> i, face |-> f])
<1>1. Plain(x, w)
  BY DEF WorkerType, Plain
<1>2. TakeFont(w, i, f, ok).w \in {x, w}
  BY SaysWorker DEF TakeFont
<1>3. Plain(k, w) /\ Plain(w, w)
  BY WaitPlain, PlainSelf
<1>4. HandleFont(w, i, f, ok).w \in {w, k, TakeFont(w, i, f, ok).w}
  BY SaysWorker DEF HandleFont
<1> HIDE DEF x, k
<1> QED
  BY <1>1, <1>2, <1>3, <1>4

LEMMA HandleWarmPlain ==
  ASSUME NEW w \in WorkerType, NEW m, m.tok \in Nat, NEW ok \in BOOLEAN
  PROVE  /\ Plain(HandleWarm(w, m, ok).w, w)
<1> DEFINE taken == [w EXCEPT !.token = m.tok]
           b == [taken EXCEPT !.bytes = NoFile]
           a == Applied(b, m.spec)
           v == [a EXCEPT !.warm = NextSpine(a, Run(a, m))]
<1>1. taken \in WorkerType /\ Plain(taken, w)
  BY DEF WorkerType, Plain
<1>2. b \in WorkerType /\ b.book = w.book /\ b.loads = w.loads /\ b.spec = w.spec /\ b.font = w.font
  BY <1>1, NoFileType DEF WorkerType
<1> HIDE DEF b
<1>3. Plain(a, b) /\ DOMAIN a = DOMAIN NoWorker
  BY <1>2, AppliedPlain
<1>4. Plain(b, w) /\ Plain(a, w)
  BY <1>2, <1>3 DEF Plain
<1> HIDE DEF a
<1>5. v.book = a.book /\ v.loads = a.loads /\ v.spec = a.spec /\ v.font = a.font
  BY <1>3 DEF NoWorker
<1>6. \/ \E res : HandleWarm(w, m, ok) \in {Says(w, WarmReply(m, res)), Says(taken, WarmReply(m, res)),
                                            Says(b, WarmReply(m, res)), Says(a, WarmReply(m, res))}
      \/ HandleWarm(w, m, ok) = Quietly(v)
  BY DEF HandleWarm, a, b
<1> HIDE DEF taken, v
<1>7. HandleWarm(w, m, ok).w \in {w, taken, b, a, v}
  BY <1>6, SaysWorker
<1> QED
  BY <1>1, <1>4, <1>5, <1>7, PlainSelf, PlainTrans

LEMMA CancelPlain ==
  ASSUME NEW w \in WorkerType
  PROVE  Plain(HandleWarmCancel(w), w)
BY DEF WorkerType, HandleWarmCancel, Plain

LEMMA FetchPlain ==
  ASSUME NEW w \in WorkerType
  PROVE  Plain(HandleFetch(w).w, w)
<1> DEFINE x == [w EXCEPT !.bytes = NoFile]
<1>1. Plain(x, w)
  BY DEF WorkerType, Plain
<1>2. HandleFetch(w).w \in {w, x}
  BY SaysWorker DEF HandleFetch
<1> HIDE DEF x
<1> QED
  BY <1>1, <1>2, PlainSelf

LEMMA BeginExportPlain ==
  ASSUME NEW w \in WorkerType, NEW spec, NEW ok \in BOOLEAN
  PROVE  Plain(BeginExport(w, spec, ok).w, w)
<1> DEFINE a == Applied(w, spec)
           run == NextSpine(a, Run(a, NoRun))
           v == [a EXCEPT !.job = run]
           x == [w EXCEPT !.job = NoRun]
           y == [a EXCEPT !.job = NoRun]
<1>1. Plain(a, w) /\ DOMAIN a = DOMAIN NoWorker /\ DOMAIN w = DOMAIN NoWorker
  BY AppliedPlain, WorkerDomain
<1>2. BeginExport(w, spec, ok).w \in {x, y, v}
  BY SaysWorker DEF BeginExport, ExportFails
<1> HIDE DEF a, run
<1>3. /\ v.book = a.book /\ v.loads = a.loads /\ v.spec = a.spec /\ v.font = a.font
      /\ y.book = a.book /\ y.loads = a.loads /\ y.spec = a.spec /\ y.font = a.font
      /\ x.book = w.book /\ x.loads = w.loads /\ x.spec = w.spec /\ x.font = w.font
  BY <1>1 DEF NoWorker
<1> HIDE DEF v, x, y
<1> QED
  BY <1>1, <1>2, <1>3, PlainSelf, PlainTrans

LEMMA HandleExportPlain ==
  ASSUME NEW w \in WorkerType, NEW spec, NEW ok \in BOOLEAN
  PROVE  Plain(HandleExport(w, spec, ok).w, w)
<1> DEFINE k == Wait(w, [cmd |-> "exportBook", spec |-> spec])
           job == [NoRun EXCEPT !.on = TRUE]
           v == [k EXCEPT !.job = job]
<1>1. HandleExport(w, spec, ok).w \in {w, v, BeginExport(w, spec, ok).w}
  BY SaysWorker DEF HandleExport
<1>2. Plain(k, w) /\ DOMAIN k = DOMAIN NoWorker
  BY WaitPlain
<1> HIDE DEF k, job
<1>3. v.book = k.book /\ v.loads = k.loads /\ v.spec = k.spec /\ v.font = k.font
  BY <1>2 DEF NoWorker
<1> HIDE DEF v
<1> QED
  BY <1>1, <1>2, <1>3, PlainSelf, PlainTrans, BeginExportPlain

LEMMA BeginLoadTame ==
  ASSUME NEW w, DOMAIN w = DOMAIN NoWorker
  PROVE  BeginLoad(w).book = None /\ BeginLoad(w).loads = w.loads /\ Tame(BeginLoad(w), w)
<1>1. BeginLoad(w).book = None /\ BeginLoad(w).loads = w.loads
  BY DEF BeginLoad, NoWorker
<1> QED
  BY <1>1 DEF Tame, Follows, Off

LEMMA HandleLoadFollows ==
  ASSUME NEW w \in WorkerType, NEW i, NEW b, Follows(w)
  PROVE  Follows(HandleLoad(w, i, b).w)
<1> DEFINE q == [w EXCEPT !.loads = Append(w.loads, [prep |-> i, book |-> b])]
           k == Wait(q, [cmd |-> "load"])
<1>1. q.book = w.book /\ q.spec = w.spec /\ q.font = w.font /\ DOMAIN q = DOMAIN NoWorker
  BY DEF WorkerType, NoWorker
<1>2. HandleLoad(w, i, b).w \in {w, q, k, BeginLoad(q)}
  BY SaysWorker DEF HandleLoad, StartLoad
<1> HIDE DEF q
<1>3. k.book = q.book /\ k.spec = q.spec /\ k.font = q.font
  BY <1>1 DEF Wait, NoWorker
<1>4. BeginLoad(q).book = None
  BY <1>1, BeginLoadTame
<1> HIDE DEF k
<1> QED
  BY <1>1, <1>2, <1>3, <1>4 DEF Follows

LEMMA LoadEndsTame ==
  ASSUME NEW w \in WorkerType, w.loads # << >>, NEW ok \in BOOLEAN
  PROVE  Tame(LoadEnds(w, ok).w, w)
<1> DEFINE l == Head(w.loads)
           font == IF ok /\ w.spec.font = "custom" THEN "custom" ELSE "kopub"
           book == IF ok THEN l.book ELSE None
           read == [w EXCEPT !.loads = Tail(w.loads), !.book = book, !.font = font]
<1>1. LoadEnds(w, ok).w \in {read, BeginLoad(read)}
  BY SaysWorker DEF LoadEnds
<1>2. read.book = book /\ read.spec = w.spec /\ read.font = font /\ DOMAIN read = DOMAIN NoWorker
  BY DEF WorkerType, NoWorker
<1>3. ok = FALSE => book = None
  OBVIOUS
<1>4. ok = TRUE /\ w.spec.font = "custom" => font = "custom"
  OBVIOUS
<1> HIDE DEF read, book, font
<1>5. Follows(read)
  BY <1>2, <1>3, <1>4 DEF Follows
<1>6. Follows(BeginLoad(read))
  BY <1>2, BeginLoadTame DEF Follows
<1> QED
  BY <1>1, <1>5, <1>6 DEF Tame, Off

LEMMA EndWarmPlain ==
  ASSUME NEW w, DOMAIN w = DOMAIN NoWorker
  PROVE  Plain(EndWarm(w), w)
BY DEF EndWarm, Plain, NoWorker

LEMMA WarmGoesOnPlain ==
  ASSUME NEW w \in WorkerType, NEW ok \in BOOLEAN
  PROVE  Plain(WarmGoesOn(w, ok).w, w)
<1> DEFINE x == [w EXCEPT !.bytes = w.warm.made]
           y == [w EXCEPT !.warm = NextSpine(w, w.warm)]
<1>1. WarmGoesOn(w, ok).w \in {EndWarm(w), y, EndWarm(x)}
  BY SaysWorker DEF WarmGoesOn
<1>2. Plain(y, w) /\ DOMAIN w = DOMAIN NoWorker /\ DOMAIN x = DOMAIN NoWorker
  BY DEF WorkerType, Plain, NoWorker
<1>3. x.book = w.book /\ x.loads = w.loads /\ x.spec = w.spec /\ x.font = w.font
  BY DEF WorkerType
<1> HIDE DEF x, y
<1>4. Plain(EndWarm(w), w) /\ Plain(EndWarm(x), x)
  BY <1>2, EndWarmPlain
<1>5. Plain(EndWarm(x), w)
  BY <1>3, <1>4 DEF Plain
<1> QED
  BY <1>1, <1>2, <1>4, <1>5

LEMMA ExportGoesOnPlain ==
  ASSUME NEW w \in WorkerType, NEW ok \in BOOLEAN
  PROVE  Plain(ExportGoesOn(w, ok).w, w)
<1> DEFINE x == [w EXCEPT !.job = NoRun]
           y == [w EXCEPT !.job = NextSpine(w, w.job)]
<1>1. ExportGoesOn(w, ok).w \in {x, y}
  BY SaysWorker DEF ExportGoesOn, ExportFails
<1>2. Plain(x, w) /\ Plain(y, w)
  BY DEF WorkerType, Plain
<1> HIDE DEF x, y
<1> QED
  BY <1>1, <1>2

LEMMA ResumeTame ==
  ASSUME NEW w \in WorkerType, NEW h \in HandlerType, NEW ok \in BOOLEAN
  PROVE  Tame(Resume(w, h, ok).w, w)
<1> DEFINE d == [w EXCEPT !.bytes = NoFile]
<1>1. d \in WorkerType /\ d.book = w.book /\ d.loads = w.loads /\ d.spec = w.spec /\ d.font = w.font
  BY NoFileType DEF WorkerType
<1>2. Resume(w, h, ok) = CASE h.cmd = "load" -> Quietly(BeginLoad(d))
                           [] h.cmd = "loadFont" -> TakeFont(d, h.id, h.face, ok)
                           [] h.cmd = "exportBook" -> BeginExport(d, h.spec, ok)
  BY DEF Resume
<1> HIDE DEF d
<1>3. /\ Tame(BeginLoad(d), d) /\ Tame(TakeFont(d, h.id, h.face, ok).w, d)
      /\ Tame(BeginExport(d, h.spec, ok).w, d)
  BY <1>1, BeginLoadTame, WorkerDomain, HandleFontPlain, BeginExportPlain, PlainTame
<1>4. Resume(w, h, ok).w \in {BeginLoad(d), TakeFont(d, h.id, h.face, ok).w, BeginExport(d, h.spec, ok).w}
  BY <1>2, SaysWorker DEF HandlerType
<1>5. Tame(Resume(w, h, ok).w, d)
  BY <1>3, <1>4
<1> QED
  BY <1>1, <1>5 DEF Tame, Follows, Off

-----------------------------------------------------------------------------
(***************************************************************************)
(* The goals of the page.  A warm of the present version makes the look on *)
(* the screen, and the page's face where the custom one is chosen and no   *)
(* newer one is about to be shown.  An export makes the look it was asked  *)
(* for with, and the page's face where the custom one was chosen, no       *)
(* conversion of a face was due, and the engine was ready.                 *)
(***************************************************************************)
Custom(want) == want.calm /\ want.ready /\ want.spec.font = "custom"
Goal(p) == [look |-> p.choice.look, strict |-> Settled(p) /\ Chosen(p).font = "custom", face |-> p.face]
Wish(p) == [look |-> p.want.spec.look, strict |-> Custom(p.want), face |-> p.want.face]

\* f asks for no more than g.
Softer(f, g) == f.look = g.look /\ (f.strict => g.strict /\ f.face = g.face)

\* An engine that has the face of the page, or that will convert nothing before another preparation.
Able(s) == Has(s) \/ Off(s.worker)
\* Who waits for the engine and must find the face of the page in it.
Wants(p, g, k) ==
  \/ k.who = "export" /\ p.press = "wait" /\ p.want.calm /\ p.want.spec.font = "custom"
  \/ k.who = "warm" /\ k.tok = p.version /\ g.strict
Waited(s, g) ==
  /\ \A i \in Preps : \A n \in DOMAIN s.prep[i].waiters : Wants(s.page, g, s.prep[i].waiters[n]) => Up(s, i)
  /\ \A n \in DOMAIN s.micro : s.micro[n].ok /\ Wants(s.page, g, s.micro[n].go) => Able(s)
\* What an export was asked for with is still on the screen when it is converted, and no conversion
\* of a face has become due if none was.
Wished(p) ==
  p.press \in {"wait", "serial"} =>
    /\ p.want.spec.look = p.choice.look
    /\ p.want.calm => p.fontRun = "idle" /\ ~p.convert /\ Chosen(p) = p.want.spec /\ p.face = p.want.face
Exports(s) == s.worker.job.on /\ s.page.press = "serial" /\ Custom(s.page.want) => Has(s)

Right(s, g) ==
  /\ OnCourse(s, s.page.version, g, Wish(s.page)) /\ Follows(s.worker)
  /\ Wished(s.page) /\ Waited(s, g) /\ Exports(s)

-----------------------------------------------------------------------------
LEMMA SofterSelf ==
  ASSUME NEW g
  PROVE  Softer(g, g)
BY DEF Softer

LEMMA SofterAs ==
  ASSUME NEW f, NEW g, Softer(f, g)
  PROVE  /\ \A made : MadeAs(made, g) => MadeAs(made, f)
         /\ \A spec : SpecAs(spec, g) => SpecAs(spec, f)
         /\ \A w, run : RunAs(w, run, g) => RunAs(w, run, f)
<1>1. ASSUME NEW x, As(x, g) PROVE As(x, f)
  BY <1>1 DEF Softer, As
<1> QED
  BY <1>1 DEF Softer, MadeAs, SpecAs, RunAs

LEMMA SofterCourse ==
  ASSUME NEW s, NEW v, NEW g, NEW h, OnCourse(s, v, g, h), NEW f, NEW e, Softer(f, g), Softer(e, h)
  PROVE  OnCourse(s, v, f, e)
<1>1. Heeds(s.worker, v, f, e)
  <2>1. WarmAs(s.worker, v, f)
    BY SofterAs DEF OnCourse, Heeds, WarmAs
  <2>2. JobAs(s.worker, e)
    BY SofterAs DEF OnCourse, Heeds, JobAs, ExportsAs
  <2> QED
    BY <2>1, <2>2 DEF Heeds
<1>2. Told(s.inbox, v, e)
  BY SofterAs DEF OnCourse, Told
<1>3. Fresh(s.worker, v, g) => Fresh(s.worker, v, f)
  BY SofterAs DEF Fresh
<1> QED
  BY <1>1, <1>2, <1>3 DEF OnCourse

\* A goal that asks for less.
LEMMA SofterRight ==
  ASSUME NEW s, NEW g, Right(s, g), NEW f, Softer(f, g)
  PROVE  Right(s, f)
<1>1. OnCourse(s, s.page.version, f, Wish(s.page))
  BY SofterSelf, SofterCourse DEF Right
<1>2. ASSUME NEW k, Wants(s.page, f, k) PROVE Wants(s.page, g, k)
  BY <1>2 DEF Wants, Softer
<1>3. Waited(s, f)
  BY <1>2 DEF Right, Waited
<1> QED
  BY <1>1, <1>3 DEF Right

LEMMA ShowsWished ==
  ASSUME NEW p, NEW q, Wished(q), Shows(p, q),
         p.press \in {"wait", "serial"} => p.press = q.press /\ p.want = q.want
  PROVE  Wished(p)
<1>1. Chosen(p) = Chosen(q)
  BY DEF Shows, Chosen
<1> QED
  BY <1>1 DEF Wished, Shows

LEMMA ShowsGoal ==
  ASSUME NEW p, NEW q, Shows(p, q)
  PROVE  Goal(p) = Goal(q) /\ Chosen(p) = Chosen(q)
BY DEF Shows, Goal, Settled, Chosen

-----------------------------------------------------------------------------
\* From s to t the engine goes on, and with it whoever waits for it.
Rides(t, s) ==
  /\ Carries(t, s, {}, {}) /\ Tame(t.worker, s.worker) /\ (t.worker.job.on => s.worker.job.on)
  /\ SameQueues(t, s) /\ t.page.version = s.page.version /\ t.page.want = s.page.want
  /\ t.page.press \in {"wait", "serial"} => t.page.press = s.page.press
  /\ Wished(s.page) => Wished(t.page)

LEMMA RidesRight ==
  ASSUME NEW s, NEW g, Right(s, g), NEW t, Rides(t, s), OnCourse(t, s.page.version, g, Wish(s.page))
  PROVE  Right(t, g)
<1>1. t.page.version = s.page.version /\ Wish(t.page) = Wish(s.page)
  BY DEF Rides, Wish
<1>2. (Has(s) => Has(t)) /\ (Able(s) => Able(t)) /\ (Follows(s.worker) => Follows(t.worker))
      /\ \A i \in Preps : Up(s, i) => Up(t, i)
  BY DEF Rides, Carries, Tame, Able, Places
<1>3. ASSUME NEW k, Wants(t.page, g, k) PROVE Wants(s.page, g, k)
  BY <1>3 DEF Rides, Wants
<1>4. Waited(t, g)
  BY <1>2, <1>3 DEF Right, Waited, Rides, SameQueues
<1>5. Exports(t)
  BY <1>2 DEF Right, Exports, Rides
<1> QED
  BY <1>1, <1>2, <1>4, <1>5 DEF Right, Rides

\* A change of the page's variables alone.
LEMMA PageRides ==
  ASSUME NEW s, Good(s), NEW t, SameQueues(t, s), t.worker = s.worker, t.inbox = s.inbox,
         t.page.face = s.page.face, t.page.version = s.page.version, t.page.want = s.page.want,
         t.page.press \in {"wait", "serial"} => t.page.press = s.page.press,
         Wished(s.page) => Wished(t.page)
  PROVE  Rides(t, s)
<1>1. Carries(t, s, {}, {})
  BY DEF Carries, Has, NoLoad, OneLoad, NoFont, OneFont, Up
<1>2. Tame(t.worker, s.worker)
  BY DEF Tame
<1> QED
  BY <1>1, <1>2 DEF Rides

LEMMA PageRight ==
  ASSUME NEW s, Good(s), NEW g, Right(s, g), NEW t, SameQueues(t, s), t.worker = s.worker, t.inbox = s.inbox,
         t.page.face = s.page.face, t.page.version = s.page.version, t.page.want = s.page.want,
         t.page.press \in {"wait", "serial"} => t.page.press = s.page.press,
         t.page.warmKey \in {s.page.warmKey, NoKey}, Wished(t.page)
  PROVE  Right(t, g)
<1>1. Rides(t, s)
  BY PageRides
<1>2. OnCourse(t, s.page.version, g, Wish(s.page))
  BY FieldsCourse DEF Right
<1> QED
  BY <1>1, <1>2, RidesRight

\* What is on the screen stays.
LEMMA ShownRight ==
  ASSUME NEW s, Good(s), NEW g, Right(s, g), NEW t, SameQueues(t, s), t.worker = s.worker, t.inbox = s.inbox,
         Shows(t.page, s.page), t.page.version = s.page.version, t.page.want = s.page.want,
         t.page.press = s.page.press, t.page.warmKey \in {s.page.warmKey, NoKey}
  PROVE  Right(t, g) /\ Goal(t.page) = Goal(s.page)
<1>1. Wished(t.page) /\ Goal(t.page) = Goal(s.page) /\ t.page.face = s.page.face
  BY ShowsWished, ShowsGoal DEF Right, Shows
<1> QED
  BY <1>1, PageRight

\* Nobody waits for an export, and none is under way: another may be asked for.
LEMMA VacantRight ==
  ASSUME NEW s, Vacant(s), NEW g, Right(s, g), NEW t, SameQueues(t, s), t.worker = s.worker, t.inbox = s.inbox,
         t.page.face = s.page.face, t.page.version = s.page.version,
         t.page.warmKey \in {s.page.warmKey, NoKey}, Wished(t.page)
  PROVE  Right(t, g)
<1>1. OnCourse(t, s.page.version, g, Wish(t.page))
  <2>1. OnCourse(s, s.page.version, g, Wish(t.page))
    BY NewWish DEF Right
  <2> QED
    BY <2>1, FieldsCourse
<1>2. (Has(s) => Has(t)) /\ (Able(s) => Able(t)) /\ \A i \in Preps : Up(s, i) => Up(t, i)
  BY DEF Has, Able, Up
<1>3. ASSUME NEW k, k.who # "export", Wants(t.page, g, k) PROVE Wants(s.page, g, k)
  BY <1>3 DEF Wants
<1>4. /\ \A i \in Preps : \A n \in DOMAIN s.prep[i].waiters : s.prep[i].waiters[n].who # "export"
      /\ \A n \in DOMAIN s.micro : s.micro[n].go.who # "export"
  <2>1. Going(s, "export") = {}
    BY DEF Vacant
  <2>2. ASSUME NEW i \in Preps, NEW n \in DOMAIN s.prep[i].waiters, s.prep[i].waiters[n].who = "export" PROVE FALSE
    <3>1. <<i, n>> \in Going(s, "export")
      BY <2>2 DEF Going
    <3> QED
      BY <2>1, <3>1
  <2>3. ASSUME NEW n \in DOMAIN s.micro, s.micro[n].go.who = "export" PROVE FALSE
    <3>1. <<0, n>> \in Going(s, "export")
      BY <2>3 DEF Going
    <3> QED
      BY <2>1, <3>1
  <2> QED
    BY <2>2, <2>3
<1>5. Waited(t, g)
  <2>1. \A i \in Preps : \A n \in DOMAIN t.prep[i].waiters : Wants(t.page, g, t.prep[i].waiters[n]) => Up(t, i)
    BY <1>2, <1>3, <1>4 DEF Right, Waited, SameQueues
  <2>2. \A n \in DOMAIN t.micro : t.micro[n].ok /\ Wants(t.page, g, t.micro[n].go) => Able(t)
    BY <1>2, <1>3, <1>4 DEF Right, Waited, SameQueues
  <2> QED
    BY <2>1, <2>2 DEF Waited
<1>6. Exports(t)
  BY DEF Exports, Vacant
<1> QED
  BY <1>1, <1>5, <1>6 DEF Right

\* While a face is on its way nobody waits for one.
LEMMA LooseRight ==
  ASSUME NEW s, NEW g, ~g.strict, OnCourse(s, s.page.version, g, Wish(s.page)), Follows(s.worker), Wished(s.page),
         s.page.fontRun # "idle"
  PROVE  Right(s, g)
<1>1. s.page.press \in {"wait", "serial"} => ~s.page.want.calm
  BY DEF Wished
<1>2. ASSUME NEW k PROVE ~Wants(s.page, g, k)
  BY <1>1 DEF Wants
<1>3. Waited(s, g) /\ Exports(s)
  BY <1>1, <1>2 DEF Waited, Exports, Custom
<1> QED
  BY <1>3 DEF Right

-----------------------------------------------------------------------------
(* The stretches of the page's code. *)

LEMMA ScheduleRight ==
  ASSUME NEW s, Good(s), NEW g, Right(s, g)
  PROVE  Right(ScheduleWarm(s), g) /\ Goal(ScheduleWarm(s).page) = Goal(s.page)
BY ScheduleFields, ScheduleAsk, ShownRight

LEMMA WarmEndsRight ==
  ASSUME NEW s, Good(s), NEW g, Right(s, g)
  PROVE  Right(WarmEnds(s), g) /\ Goal(WarmEnds(s).page) = Goal(s.page)
BY WarmEndsFields, WarmEndsAsk, ShownRight

\* The warm that is sent for the next version may have any goal: none has been.
LEMMA InvalidateRight ==
  ASSUME NEW s, Good(s), NEW g, Right(s, g), NEW goal
  PROVE  Right(InvalidateWarm(s), goal) /\ Goal(InvalidateWarm(s).page) = Goal(s.page)
<1> DEFINE t == InvalidateWarm(s)
           v == s.page.version
<1>1. v \in Nat /\ s.worker \in WorkerType
  BY DEF Good, States, PageType
<1>2. /\ OnCourse(t, v + 1, goal, Wish(s.page)) /\ t.page.version = v + 1
      /\ t.page.want = s.page.want /\ t.page.press = s.page.press /\ Shows(t.page, s.page)
  BY <1>1, InvalidateCourse DEF Right
<1>3. /\ SameQueues(t, s)
      /\ t.worker = IF s.worker.alive THEN HandleWarmCancel(s.worker) ELSE s.worker
  BY InvalidateFields
<1>4. Carries(t, s, {}, {})
  BY InvalidateMinds DEF Minds
<1> HIDE DEF t
<1>5. Tame(t.worker, s.worker) /\ t.worker.job = s.worker.job
  <2>1. Tame(HandleWarmCancel(s.worker), s.worker) /\ HandleWarmCancel(s.worker).job = s.worker.job
    BY <1>1, CancelPlain, PlainTame, CancelSame
  <2> QED
    BY <1>3, <2>1 DEF Tame
<1>6. Tokens(s, v) /\ Waited(s, g)
  BY DEF Right, OnCourse
<1>7. ASSUME NEW k \in Early(v), Wants(t.page, goal, k) PROVE Wants(s.page, g, k)
  <2>1. k.who # "warm"
    <3>1. k.who = "warm" => k.tok \in Nat /\ k.tok <= v
      BY DEF Early, GoType
    <3>2. SUFFICES ASSUME k.who = "warm" PROVE FALSE
      OBVIOUS
    <3>3. k.tok = v + 1
      BY <1>2, <1>7, <3>2 DEF Wants
    <3> QED
      BY <1>1, <3>1, <3>2, <3>3
  <2> QED
    BY <1>2, <1>7, <2>1 DEF Wants
<1>8. (Has(s) => Has(t)) /\ (Able(s) => Able(t)) /\ (\A i \in Preps : Up(s, i) => Up(t, i))
      /\ (Follows(s.worker) => Follows(t.worker))
  BY <1>4, <1>5 DEF Carries, Tame, Able, Places
<1>9. Waited(t, goal)
  <2>1. ASSUME NEW i \in Preps, NEW n \in DOMAIN t.prep[i].waiters, Wants(t.page, goal, t.prep[i].waiters[n])
        PROVE  Up(t, i)
    <3>1. t.prep[i].waiters = s.prep[i].waiters /\ s.prep[i].waiters[n] \in Early(v)
      BY <1>3, <1>6 DEF SameQueues, Tokens
    <3> QED
      BY <1>6, <1>7, <1>8, <2>1, <3>1 DEF Waited
  <2>2. ASSUME NEW n \in DOMAIN t.micro, t.micro[n].ok /\ Wants(t.page, goal, t.micro[n].go)
        PROVE  Able(t)
    <3>1. t.micro = s.micro /\ s.micro[n] \in EarlyMicro(v)
      BY <1>3, <1>6 DEF SameQueues, Tokens
    <3>2. s.micro[n].go \in Early(v)
      BY <3>1 DEF EarlyMicro
    <3> QED
      BY <1>6, <1>7, <1>8, <2>2, <3>1, <3>2 DEF Waited
  <2> QED
    BY <2>1, <2>2 DEF Waited
<1>10. Exports(t)
  BY <1>2, <1>5, <1>8 DEF Right, Exports
<1>11. Wished(t.page) /\ Goal(t.page) = Goal(s.page)
  BY <1>2, ShowsWished, ShowsGoal DEF Right
<1>12. Wish(t.page) = Wish(s.page)
  BY <1>2 DEF Wish
<1>13. Right(t, goal)
  BY <1>2, <1>8, <1>9, <1>10, <1>11, <1>12 DEF Right
<1> QED
  BY <1>11, <1>13 DEF t

\* Whoever waited for the engine that is killed is told that there is none.
LEMMA KillRight ==
  ASSUME NEW s, Good(s), Wished(s.page), Tokens(s, s.page.version), NEW g
  PROVE  Right(KillExportEngine(s), g) /\ Goal(KillExportEngine(s).page) = Goal(s.page)
<1> DEFINE t == KillExportEngine(s)
<1>1. s.page.version \in Nat
  BY DEF Good, States, PageType
<1>2. /\ t.page.version = s.page.version /\ t.page.choice = s.page.choice
      /\ t.page.convert = s.page.convert /\ t.page.faceLoaded = s.page.faceLoaded /\ t.page.face = s.page.face
      /\ t.page.fontRun = IF s.page.fontRun = "sync" THEN "waiting" ELSE s.page.fontRun
      /\ s.page.press \notin {"serial", "fetch"} => t.page.want = s.page.want /\ t.page.press = s.page.press
      /\ s.page.press \in {"serial", "fetch"} => t.page.press = "no"
  BY KillAsk
<1>3. OnCourse(t, s.page.version, g, Wish(t.page))
  BY <1>1, KillCourse
<1>4. t.worker = NoWorker /\ t.prep = [i \in Preps |-> NoPrep]
  BY KillFields DEF Killed
<1> HIDE DEF t
<1>5. Follows(t.worker) /\ Off(t.worker) /\ ~t.worker.job.on
  BY <1>4 DEF Follows, Off, NoWorker, NoRun
<1>6. \A i \in Preps : t.prep[i].waiters = << >>
  BY <1>4 DEF NoPrep
<1>7. Waited(t, g) /\ Exports(t)
  BY <1>5, <1>6 DEF Waited, Able, Exports
<1>8. Chosen(t.page) = Chosen(s.page)
  BY <1>2 DEF Chosen
<1>9. Wished(t.page)
  BY <1>2, <1>8 DEF Wished
<1>10. Goal(t.page) = Goal(s.page)
  BY <1>2, <1>8 DEF Goal, Settled
<1>11. Right(t, g)
  BY <1>2, <1>3, <1>5, <1>7, <1>9 DEF Right
<1> QED
  BY <1>10, <1>11 DEF t

LEMMA UnlockRight ==
  ASSUME NEW s, Vacant(s), NEW g, Right(s, g)
  PROVE  Right(Unlock(s), g) /\ Goal(Unlock(s).page) = Goal(s.page)
<1>1. Good(s)
  BY DEF Vacant, Sane
<1>2. /\ SameQueues(Unlock(s), s) /\ Unlock(s).worker = s.worker /\ Unlock(s).inbox = s.inbox
      /\ Unlock(s).page.face = s.page.face
  BY <1>1, UnlockFields
<1>3. /\ Unlock(s).page.version = s.page.version /\ Unlock(s).page.warmKey = s.page.warmKey
      /\ Unlock(s).page.press = "no" /\ Shows(Unlock(s).page, s.page)
  BY <1>1, UnlockAsk
<1>4. Wished(Unlock(s).page)
  BY <1>3 DEF Wished
<1> QED
  BY <1>2, <1>3, <1>4, VacantRight, ShowsGoal

-----------------------------------------------------------------------------
(* Preparations, and those who wait for them. *)

\* Who waited for a preparation that succeeds, and wants the face, finds it.
LEMMA PrepEndsRight ==
  ASSUME NEW s, Good(s), NEW g, Right(s, g), NEW i \in Preps, NEW ok \in BOOLEAN, NEW loaded \in {None, Ready} \cup Preps,
         ok => \A n \in DOMAIN s.prep[i].waiters : Wants(s.page, g, s.prep[i].waiters[n]) => Able(s)
  PROVE  Right(PrepEnds(s, i, loaded, ok), g) /\ Goal(PrepEnds(s, i, loaded, ok).page) = Goal(s.page)
<1> DEFINE t == PrepEnds(s, i, loaded, ok)
           q == Continued(s.prep[i].waiters, ok)
<1>1. t.page = [s.page EXCEPT !.loaded = loaded]
  BY DEF PrepEnds, Good, States
<1>2. Ended(t, s, i, loaded, ok) /\ Steers(t, s)
  BY PrepEndsFields, PrepEndsSteers
<1>3. s.page.version \in Nat /\ s.micro \in Seq(MicroType) /\ s.prep[i].waiters \in Seq(GoType)
  BY DEF Good, States, PageType, PrepType
<1> HIDE DEF t
<1>4. /\ \A j \in Preps : t.prep[j] = IF j = i THEN NoPrep ELSE s.prep[j]
      /\ t.micro = s.micro \o q /\ t.worker = s.worker /\ t.inbox = s.inbox
  BY <1>2 DEF Ended
<1>5. /\ Shows(t.page, s.page) /\ t.page.version = s.page.version /\ t.page.want = s.page.want
      /\ t.page.press = s.page.press
  BY <1>1 DEF Good, States, PageType, Shows
<1>6. OnCourse(t, s.page.version, g, Wish(s.page))
  BY <1>2, <1>3 DEF Steers, Right
<1>7. (Able(s) => Able(t)) /\ (Has(s) => Has(t)) /\ \A j \in Preps : Up(s, j) => Up(t, j)
  BY <1>4, <1>5 DEF Able, Has, Up, Shows
<1>8. \A k : Wants(t.page, g, k) => Wants(s.page, g, k)
  BY <1>5 DEF Wants
<1>9. Waited(t, g)
  <2>1. ASSUME NEW j \in Preps, NEW n \in DOMAIN t.prep[j].waiters, Wants(t.page, g, t.prep[j].waiters[n])
        PROVE  Up(t, j)
    <3>1. t.prep[j] = s.prep[j]
      BY <1>4, <2>1 DEF NoPrep
    <3> QED
      BY <1>7, <1>8, <2>1, <3>1 DEF Right, Waited
  <2>2. ASSUME NEW n \in DOMAIN t.micro, t.micro[n].ok, Wants(t.page, g, t.micro[n].go)
        PROVE  Able(t)
    <3>1. q \in Seq(MicroType)
      BY <1>3, ContinuedOK
    <3>2. DOMAIN q = DOMAIN s.prep[i].waiters
          /\ \A m \in DOMAIN q : q[m].go = s.prep[i].waiters[m] /\ q[m].ok = ok
      BY DEF Continued
    <3> HIDE DEF q
    <3>3. \/ n \in DOMAIN s.micro /\ t.micro[n] = s.micro[n]
          \/ \E m \in DOMAIN q : t.micro[n] = q[m]
      <4>1. n \in 1 .. Len(s.micro) + Len(q) /\ Len(s.micro) \in Nat /\ Len(q) \in Nat
            /\ DOMAIN s.micro = 1 .. Len(s.micro) /\ DOMAIN q = 1 .. Len(q)
        BY <1>3, <1>4, <3>1
      <4>2. CASE n <= Len(s.micro)
        BY <1>3, <1>4, <3>1, <4>1, <4>2
      <4>3. CASE n > Len(s.micro)
        <5>1. n - Len(s.micro) \in DOMAIN q
          BY <4>1, <4>3
        <5>2. t.micro[n] = q[n - Len(s.micro)]
          BY <1>3, <1>4, <3>1, <4>1, <4>3
        <5> QED
          BY <5>1, <5>2
      <4> QED
        BY <4>1, <4>2, <4>3
    <3>4. CASE n \in DOMAIN s.micro /\ t.micro[n] = s.micro[n]
      BY <1>7, <1>8, <2>2, <3>4 DEF Right, Waited
    <3>5. ASSUME NEW m \in DOMAIN q, t.micro[n] = q[m] PROVE Able(t)
      <4>1. m \in DOMAIN s.prep[i].waiters /\ Wants(s.page, g, s.prep[i].waiters[m]) /\ ok
        BY <1>8, <2>2, <3>2, <3>5
      <4> QED
        BY <1>7, <4>1
    <3> QED
      BY <3>3, <3>4, <3>5
  <2> QED
    BY <2>1, <2>2 DEF Waited
<1>10. Exports(t)
  BY <1>4, <1>5, <1>7 DEF Right, Exports
<1>11. Wished(t.page) /\ Goal(t.page) = Goal(s.page) /\ Wish(t.page) = Wish(s.page)
  BY <1>5, ShowsWished, ShowsGoal DEF Right, Wish
<1>12. Right(t, g)
  BY <1>4, <1>5, <1>6, <1>9, <1>10, <1>11 DEF Right
<1> QED
  BY <1>11, <1>12 DEF t

\* Another waits for the engine; if it wants the face, none older will come after it.
LEMMA AwaitRight ==
  ASSUME NEW s, Good(s), NEW g, Right(s, g), s.page.loaded \in Preps, NEW k \in Early(s.page.version),
         Wants(s.page, g, k) => Up(s, s.page.loaded)
  PROVE  Right(AwaitEngine(s, k), g) /\ AwaitEngine(s, k).page = s.page
<1> DEFINE t == AwaitEngine(s, k)
           i == s.page.loaded
<1>1. s.page.version \in Nat /\ k \in GoType
  BY DEF Good, States, PageType, Early
<1>2. OnCourse(t, s.page.version, g, Wish(s.page))
  BY <1>1, AwaitWarmCourse DEF Right
<1>3. /\ t.page = s.page /\ t.micro = s.micro /\ t.worker = s.worker /\ t.inbox = s.inbox
      /\ \A j \in Preps : j # i => t.prep[j].waiters = s.prep[j].waiters
      /\ t.prep[i].waiters = Append(s.prep[i].waiters, k) /\ s.prep[i].waiters \in Seq(GoType)
  BY <1>1, AwaitFields
<1> HIDE DEF t
<1>4. (Able(s) => Able(t)) /\ (Has(s) => Has(t)) /\ \A j \in Preps : Up(s, j) => Up(t, j)
  BY <1>3 DEF Able, Has, Up
<1>5. Waited(t, g)
  <2>1. ASSUME NEW j \in Preps, NEW n \in DOMAIN t.prep[j].waiters, Wants(t.page, g, t.prep[j].waiters[n])
        PROVE  Up(t, j)
    <3>1. CASE j # i
      BY <1>3, <1>4, <2>1, <3>1 DEF Right, Waited
    <3>2. CASE j = i
      <4>1. (n \in DOMAIN s.prep[i].waiters /\ t.prep[i].waiters[n] = s.prep[i].waiters[n]) \/ t.prep[i].waiters[n] = k
        <5> DEFINE q == s.prep[i].waiters
        <5>1. q \in Seq(GoType) /\ t.prep[i].waiters = Append(q, k) /\ n \in DOMAIN Append(q, k)
          BY <1>3, <2>1, <3>2
        <5> HIDE DEF q
        <5>2. /\ Len(q) \in Nat /\ DOMAIN q = 1 .. Len(q) /\ DOMAIN Append(q, k) = 1 .. Len(q) + 1
              /\ \A m \in 1 .. Len(q) : Append(q, k)[m] = q[m]
              /\ Append(q, k)[Len(q) + 1] = k
          BY <1>1, <5>1, AppendAt
        <5>3. n = Len(q) + 1 \/ n \in 1 .. Len(q)
          BY <5>1, <5>2
        <5>4. (n \in DOMAIN q /\ t.prep[i].waiters[n] = q[n]) \/ t.prep[i].waiters[n] = k
          BY <5>1, <5>2, <5>3
        <5> QED
          BY <5>4 DEF q
      <4> QED
        BY <1>3, <1>4, <2>1, <3>2, <4>1 DEF Right, Waited
    <3> QED
      BY <3>1, <3>2
  <2>2. \A n \in DOMAIN t.micro : t.micro[n].ok /\ Wants(t.page, g, t.micro[n].go) => Able(t)
    BY <1>3, <1>4 DEF Right, Waited
  <2> QED
    BY <2>1, <2>2 DEF Waited
<1>6. Exports(t)
  BY <1>3, <1>4 DEF Right, Exports
<1>7. Right(t, g)
  BY <1>2, <1>3, <1>5, <1>6 DEF Right
<1> QED
  BY <1>3, <1>7 DEF t

-----------------------------------------------------------------------------
(* Calls. *)

LEMMA EngineTame ==
  ASSUME NEW s
  PROVE  Tame(Engine(s), s.worker)
BY DEF Engine, Tame, Follows, Off, NoWorker

\* Another preparation, when nothing of the page is about to go on.
LEMMA PrepareRight ==
  ASSUME NEW s, Sane(s), Face(s), FreePreps(s) # {}, NEW b \in Books, s.micro = << >>, NEW g, Right(s, g)
  PROVE  LET t == Prepare(s, b)
         IN  /\ Right(t, g) /\ t.page.loaded \in Preps /\ t.page = [s.page EXCEPT !.loaded = t.page.loaded]
             /\ Up(t, t.page.loaded)
<1> DEFINE t == Prepare(s, b)
<1>1. Prepared(t, s, b)
  BY PrepareFace
<1>2. Steers(t, s) /\ s.page.version \in Nat /\ Good(s)
  BY PrepareSteers DEF Sane, Good, States, PageType
<1> HIDE DEF t
<1>3. PICK i \in Preps :
        /\ t.page = [s.page EXCEPT !.loaded = i] /\ t.worker = HandleLoad(Engine(s), i, b).w
        /\ t.prep[i].waiters = << >> /\ Up(t, i) /\ \A j \in Preps \ {i} : t.prep[j] = s.prep[j]
  BY <1>1 DEF Prepared
<1>4. t.micro = << >> /\ (Has(s) => Has(t)) /\ \A j \in Preps : Up(s, j) => Up(t, j)
  BY <1>1 DEF Prepared, Places
<1>5. OnCourse(t, s.page.version, g, Wish(s.page))
  BY <1>2 DEF Steers, Right
<1>6. /\ Shows(t.page, s.page) /\ t.page.version = s.page.version /\ t.page.want = s.page.want
      /\ t.page.press = s.page.press /\ t.page.loaded = i
  BY <1>2, <1>3 DEF Good, States, PageType, Shows
<1>7. Follows(t.worker)
  <2>1. Engine(s) \in WorkerType /\ Follows(Engine(s))
    BY EngineFacts, EngineTame DEF Right, Tame
  <2> QED
    BY <1>3, <2>1, HandleLoadFollows
<1>8. t.worker.job.on => s.worker.job.on
  <2>1. Engine(s) \in WorkerType /\ Engine(s).job.on = s.worker.job.on
    BY EngineFacts
  <2> QED
    BY <1>3, <2>1, HandleLoadSilent DEF Silent
<1>9. \A k : Wants(t.page, g, k) => Wants(s.page, g, k)
  BY <1>6 DEF Wants
<1>10. Waited(t, g)
  <2>1. ASSUME NEW j \in Preps, NEW n \in DOMAIN t.prep[j].waiters, Wants(t.page, g, t.prep[j].waiters[n])
        PROVE  Up(t, j)
    <3>1. j # i /\ t.prep[j] = s.prep[j]
      BY <1>3, <2>1
    <3> QED
      BY <1>4, <1>9, <2>1, <3>1 DEF Right, Waited
  <2> QED
    BY <1>4, <2>1 DEF Waited
<1>11. Exports(t)
  BY <1>4, <1>6, <1>8 DEF Right, Exports
<1>12. Wished(t.page) /\ Wish(t.page) = Wish(s.page)
  BY <1>6, ShowsWished DEF Right, Wish
<1>13. Right(t, g)
  BY <1>5, <1>6, <1>7, <1>10, <1>11, <1>12 DEF Right
<1> QED
  BY <1>3, <1>6, <1>13 DEF t

\* A call that has nothing to do with faces and books.
LEMMA CallRides ==
  ASSUME NEW s, Sane(s), Live(s), NEW r, Fine(r), Hush(r, Engine(s)), r.w.alive,
         Tame(r.w, Engine(s)), r.w.job.on => s.worker.job.on
  PROVE  Rides(Call(s, r), s)
<1> DEFINE t == Call(s, r)
<1>1. Good(s)
  BY DEF Sane
<1>2. t.page = s.page /\ SameQueues(t, s) /\ t.worker = r.w /\ Carries(t, s, {}, {})
  BY <1>1, CallFields, CallMinds DEF Minds
<1> HIDE DEF t
<1>3. Tame(t.worker, s.worker)
  BY <1>2, EngineTame DEF Tame
<1>4. Rides(t, s)
  BY <1>2, <1>3 DEF Rides
<1> QED
  BY <1>4 DEF t

\* The engine draws what the page shows, when it has a book.
LEMMA AbleDraws ==
  ASSUME NEW s, Sane(s), Follows(s.worker), NEW spec, NEW g, SpecAs(spec, g),
         g.strict => g.face = s.page.face /\ Able(s), Engine(s).book # None
  PROVE  Draws(Engine(s), spec, g)
<1>1. Engine(s) = s.worker
  BY DEF Engine, NoWorker
<1>2. g.strict => Has(s)
  BY <1>1 DEF Able, Off
<1> QED
  BY <1>1, <1>2 DEF Draws, Has, Follows

LEMMA SendWarmRight ==
  ASSUME NEW s, Sane(s), Live(s), Right(s, Goal(s.page)), NEW k, IsWarm(k), NEW ok \in BOOLEAN,
         k.tok <= s.page.version, k.tok = s.page.version /\ Goal(s.page).strict => Able(s)
  PROVE  Right(SendWarm(s, k, ok), Goal(s.page)) /\ SendWarm(s, k, ok).page = s.page
<1> DEFINE g == Goal(s.page)
           m == [tok |-> k.tok, key |-> k.key, spec |-> Chosen(s.page)]
           r == HandleWarm(Engine(s), m, ok)
           t == SendWarm(s, k, ok)
<1>1. Good(s) /\ s.page \in PageType /\ s.page.version \in Nat /\ Chosen(s.page) \in Settings
  BY ChosenOK DEF Sane, Good, States, PageType
<1>2. SpecAs(Chosen(s.page), g) /\ g.face = s.page.face
  BY <1>1, ChosenLook DEF SpecAs, Goal
<1>3. m.tok = k.tok /\ m.key = k.key /\ m \in [tok : Nat, key : Keys, spec : Settings] /\ m.tok \in Nat /\ m.key \in Keys
  BY <1>1 DEF IsWarm
<1>4. t = Call(s, r)
  BY DEF SendWarm
<1>5. k.tok = s.page.version /\ Engine(s).book # None => Draws(Engine(s), Chosen(s.page), g)
  BY <1>2, AbleDraws DEF Right
<1>6. Engine(s) \in WorkerType /\ Calm(Engine(s)) /\ Engine(s).alive /\ Engine(s).job.on = s.worker.job.on
  BY EngineFacts
<1> HIDE DEF g, m
<1>7. OnCourse(t, s.page.version, g, Wish(s.page)) /\ t.page = s.page
  BY <1>1, <1>5, SendWarmCourse DEF Right, g
<1>8. Fine(r) /\ Hush(r, Engine(s)) /\ Silent(r, Engine(s)) /\ Tame(r.w, Engine(s))
  BY <1>3, <1>6, HandleWarmOK, HandleWarmHush, HandleWarmSilent, HandleWarmPlain, PlainTame
<1> HIDE DEF r, t
<1>9. Rides(t, s)
  <2>1. r.w.alive /\ (r.w.job.on => s.worker.job.on)
    BY <1>6, <1>8 DEF Silent
  <2> QED
    BY <1>4, <1>8, <2>1, CallRides
<1>10. Right(t, g)
  BY <1>7, <1>9, RidesRight DEF g
<1> QED
  BY <1>7, <1>10 DEF t, g

-----------------------------------------------------------------------------
(* A face on its way: the warms ask for none, and no press was calm. *)

Accepted == {"waiting", "sync", "painting"}

LEMMA LoosenRight ==
  ASSUME NEW s, NEW g, Right(s, g), s.page.fontRun # "idle", g.look = s.page.choice.look,
         NEW t, t.page.fontRun \in Accepted, t.page.version = s.page.version, t.page.want = s.page.want,
         t.page.choice.look = s.page.choice.look,
         t.page.press \in {"wait", "serial"} => t.page.press = s.page.press,
         OnCourse(t, s.page.version, g, Wish(s.page)), Follows(t.worker)
  PROVE  Right(t, Goal(t.page))
<1>1. ~Goal(t.page).strict /\ Goal(t.page).look = g.look
  BY DEF Goal, Settled, Accepted
<1>2. Softer(Goal(t.page), g) /\ Wish(t.page) = Wish(s.page)
  BY <1>1 DEF Softer, Wish
<1>3. OnCourse(t, t.page.version, Goal(t.page), Wish(t.page))
  BY <1>2, SofterSelf, SofterCourse
<1>4. Wished(t.page)
  BY DEF Right, Wished, Accepted
<1> QED
  BY <1>1, <1>3, <1>4, LooseRight DEF Accepted

LEMMA PaintingRight ==
  ASSUME NEW s, Good(s), NEW g, Right(s, g), s.page.fontRun # "idle", g.look = s.page.choice.look
  PROVE  Right(Painting(s), Goal(Painting(s).page))
<1> DEFINE t == Painting(s)
<1>1. /\ t.page.version = s.page.version /\ t.page.choice.look = s.page.choice.look /\ t.page.want = s.page.want
      /\ t.page.press = s.page.press /\ t.page.fontRun = "painting" /\ t.worker = s.worker
  BY PaintingAsk
<1>2. Steers(t, s) /\ s.page.version \in Nat
  BY PaintingSteers DEF Good, States, PageType
<1> HIDE DEF t
<1>3. OnCourse(t, s.page.version, g, Wish(s.page)) /\ Follows(t.worker)
  BY <1>1, <1>2 DEF Steers, Right
<1>4. Right(t, Goal(t.page))
  BY <1>1, <1>3, LoosenRight DEF Accepted
<1> QED
  BY <1>4 DEF t

LEMMA SyncFontRight ==
  ASSUME NEW s, Sane(s), NEW g, Right(s, g), s.page.fontRun # "idle", g.look = s.page.choice.look, NEW ok \in BOOLEAN
  PROVE  Right(SyncFont(s, ok), Goal(SyncFont(s, ok).page))
<1> DEFINE u == [s EXCEPT !.page.fontRun = "sync"]
           r == HandleFont(Engine(s), 0, s.page.face, ok)
           t == SyncFont(s, ok)
<1>1. Good(s) /\ s.page.version \in Nat /\ s.page.face \in Faces
  BY DEF Sane, Good, States, PageType
<1>2. /\ Good(u) /\ u.worker = s.worker
      /\ u.page.version = s.page.version /\ u.page.choice = s.page.choice /\ u.page.want = s.page.want
      /\ u.page.press = s.page.press
  BY <1>1, FontRunAsk DEF FontRuns
<1>3. u.page.fontRun = "sync"
  BY <1>1 DEF Good, States, PageType
<1>4. t = Call(u, r)
  BY DEF SyncFont
<1>5. Steers(t, s)
  BY SyncFontSteers
<1>6. Engine(s) \in WorkerType /\ Calm(Engine(s)) /\ Follows(Engine(s))
  BY EngineFacts, EngineTame DEF Right, Tame
<1>7. Fine(r) /\ Follows(r.w)
  <2>1. Fine(r)
    BY <1>1, <1>6, HandleFontOK
  <2>2. Tame(r.w, Engine(s))
    BY <1>6, HandleFontPlain, PlainTame
  <2> QED
    BY <1>6, <2>1, <2>2 DEF Tame
<1> HIDE DEF u, r, t
<1>8. t.page = u.page /\ t.worker = r.w
  BY <1>2, <1>4, <1>7, CallFields
<1>9. OnCourse(t, s.page.version, g, Wish(s.page))
  BY <1>1, <1>5 DEF Steers, Right
<1>10. Right(t, Goal(t.page))
  BY <1>2, <1>3, <1>7, <1>8, <1>9, LoosenRight DEF Accepted
<1> QED
  BY <1>10 DEF t

LEMMA SyncFailsRight ==
  ASSUME NEW s, Good(s), Tokens(s, s.page.version), Wished(s.page), s.page.fontRun # "idle"
  PROVE  Right(SyncFails(s), Goal(SyncFails(s).page))
<1> DEFINE t == SyncFails(s)
           g == Goal(t.page)
<1>1. s.page.version \in Nat
  BY DEF Good, States, PageType
<1>2. /\ OnCourse(t, s.page.version, g, Wish(t.page))
      /\ t.page.version = s.page.version /\ t.page.choice.look = s.page.choice.look
      /\ s.page.press \notin {"serial", "fetch"} => t.page.want = s.page.want /\ t.page.press = s.page.press
      /\ s.page.press \in {"serial", "fetch"} => t.page.press = "no"
      /\ t.page.fontRun = "painting" /\ t.worker = NoWorker
  BY <1>1, SyncFailsCourse
<1> HIDE DEF t
<1>3. ~g.strict
  BY <1>2 DEF Goal, Settled
<1>4. Wished(t.page)
  BY <1>2 DEF Wished
<1>5. Follows(t.worker)
  BY <1>2 DEF Follows, NoWorker
<1> HIDE DEF g
<1>6. Right(t, g)
  BY <1>2, <1>3, <1>4, <1>5, LooseRight
<1> QED
  BY <1>6 DEF t, g

\* The conversion of a face waits for the engine: it wants nothing of it yet.
LEMMA AwaitFontRight ==
  ASSUME NEW s, Good(s), NEW g, Right(s, g), s.page.loaded \in Preps
  PROVE  Right(AwaitEngine(s, FontAsk), g) /\ AwaitEngine(s, FontAsk).page = s.page
<1>1. FontAsk \in Early(s.page.version) /\ ~Wants(s.page, g, FontAsk)
  BY DEF FontAsk, Early, GoType, Wants
<1> QED
  BY <1>1, AwaitRight

-----------------------------------------------------------------------------
(* The export. *)

\* Whether the engine was ready says nothing of what is asked for.
LEMMA AwaitedRight ==
  ASSUME NEW s, Vacant(s), NEW g, Right(s, g), NEW ready \in BOOLEAN
  PROVE  LET t == Awaited(s, ready)
         IN  /\ Right(t, g) /\ t.worker = s.worker /\ Shows(t.page, s.page) /\ t.page.press = s.page.press
             /\ t.page.loaded = s.page.loaded /\ t.page.want = [s.page.want EXCEPT !.ready = ready]
             /\ Goal(t.page) = Goal(s.page) /\ (Able(s) => Able(t)) /\ t.page.version = s.page.version
<1> DEFINE t == Awaited(s, ready)
           want == [s.page.want EXCEPT !.ready = ready]
           p == [s.page EXCEPT !.want = want]
<1>1. Good(s)
  BY DEF Vacant, Sane
<1>2. t = [s EXCEPT !.page = p] /\ want.spec = s.page.want.spec /\ want.calm = s.page.want.calm /\ want.face = s.page.want.face
  BY <1>1, AwaitedOK DEF Good, States, PageType, WantType
<1> HIDE DEF t, want
<1>3. /\ t.page = p /\ SameQueues(t, s) /\ t.worker = s.worker /\ t.inbox = s.inbox
      /\ p.version = s.page.version /\ p.warmKey = s.page.warmKey /\ p.press = s.page.press /\ p.want = want
      /\ Shows(p, s.page) /\ p.loaded = s.page.loaded
  BY <1>1, <1>2 DEF Good, States, PageType, Shows, SameQueues
<1> HIDE DEF p
<1>4. Chosen(t.page) = Chosen(s.page) /\ Goal(t.page) = Goal(s.page)
  BY <1>3, ShowsGoal
<1>5. Wished(t.page)
  <2>1. t.page.want.calm => s.page.want.calm
    BY <1>2, <1>3
  <2>2. Wished(s.page) /\ t.page.want.spec = s.page.want.spec /\ t.page.want.face = s.page.want.face
    BY <1>2, <1>3 DEF Right
  <2>3. /\ t.page.press = s.page.press /\ t.page.choice = s.page.choice /\ t.page.fontRun = s.page.fontRun
        /\ t.page.convert = s.page.convert /\ t.page.face = s.page.face
    BY <1>3 DEF Shows
  <2> QED
    BY <1>4, <2>1, <2>2, <2>3 DEF Wished
<1>6. Right(t, g)
  BY <1>3, <1>5, VacantRight DEF Shows
<1>7. Able(s) => Able(t)
  BY <1>3 DEF Able, Has, Shows
<1> QED
  BY <1>3, <1>4, <1>6, <1>7 DEF t, want, p

\* An engine without a book refuses.
LEMMA OffRefuses ==
  ASSUME NEW w, w.book = None, NEW spec, NEW ok
  PROVE  HandleExport(w, spec, ok).w = w
BY SaysWorker DEF HandleExport

LEMMA ConvertRight ==
  ASSUME NEW s, Vacant(s), Face(s), NEW g, Right(s, g), s.page.press = "wait", Custom(s.page.want) => Able(s),
         NEW pool \in BOOLEAN, NEW ok \in BOOLEAN
  PROVE  Right(Convert(s, pool, ok), g) /\ Goal(Convert(s, pool, ok).page) = Goal(s.page)
<1> DEFINE u == [s EXCEPT !.page.press = "serial"]
           k == KillExportEngine(s)
           x == [k EXCEPT !.page.press = "pool"]
           r == HandleExport(Engine(s), Chosen(s.page), ok)
           t == Call(u, r)
           h == Wish(s.page)
<1>1. Sane(s) /\ Good(s) /\ Live(s) /\ ~s.worker.job.on
  BY DEF Vacant, Sane, Face
<1>2. s.page \in PageType /\ s.page.version \in Nat /\ Chosen(s.page) \in Settings
  BY <1>1, ChosenOK DEF Good, States, PageType
<1>3. Convert(s, pool, ok) = IF pool THEN x ELSE t
  BY DEF Convert
<1>4. ASSUME pool PROVE Right(x, g) /\ Goal(x.page) = Goal(s.page)
  <2>1. Right(k, g) /\ Goal(k.page) = Goal(s.page) /\ Vacant(k) /\ Good(k)
    BY <1>1, KillRight, KillVacant DEF Right, OnCourse, Vacant, Sane
  <2> HIDE DEF k
  <2>2. /\ SameQueues(x, k) /\ x.worker = k.worker /\ x.inbox = k.inbox
        /\ x.page.version = k.page.version /\ x.page.press = "pool" /\ x.page.warmKey = k.page.warmKey
        /\ Shows(x.page, k.page)
    BY <2>1, PressAsk DEF Presses
  <2> HIDE DEF x
  <2>3. Wished(x.page)
    BY <2>2 DEF Wished
  <2> QED
    BY <2>1, <2>2, <2>3, VacantRight, ShowsGoal DEF Shows
<1>5. ASSUME ~pool PROVE Right(t, g) /\ Goal(t.page) = Goal(s.page)
  <2>1. /\ Good(u) /\ SameQueues(u, s) /\ u.worker = s.worker /\ u.inbox = s.inbox
        /\ u.page.version = s.page.version /\ u.page.want = s.page.want
        /\ u.page.press = "serial" /\ u.page.warmKey = s.page.warmKey /\ Shows(u.page, s.page)
    BY <1>1, PressAsk DEF Presses
  <2>2. Vacant(u) /\ u.page.loaded = s.page.loaded
    BY PressVacant DEF Presses
  <2> HIDE DEF u
  <2>3. Chosen(u.page) = Chosen(s.page) /\ Goal(u.page) = Goal(s.page) /\ Wish(u.page) = h /\ Engine(u) = Engine(s)
    BY <2>1, ShowsGoal DEF Wish, Engine
  <2>4. Wished(u.page)
    BY <2>1, <2>3 DEF Right, Wished, Shows
  <2>5. Right(u, g)
    BY <2>1, <2>4, VacantRight DEF Shows
  <2>6. SpecAs(Chosen(s.page), h) /\ (h.strict => Custom(s.page.want) /\ h.face = s.page.face)
    <3>1. Chosen(s.page).look = s.page.choice.look
      BY <1>2, ChosenLook
    <3> QED
      BY <3>1 DEF SpecAs, Wish, Right, Wished, Custom
  <2>7. Engine(s).book # None => Draws(Engine(s), Chosen(s.page), h)
    BY <1>1, <2>6, AbleDraws DEF Right
  <2>8. OnCourse(t, s.page.version, g, h)
    <3>1. Convert(s, FALSE, ok) = t
      BY DEF Convert, u
    <3>2. OnCourse(Convert(s, FALSE, ok), s.page.version, g, h)
      BY <1>1, <1>2, <2>6, <2>7, ConvertCourse DEF Right
    <3> QED
      BY <3>1, <3>2
  <2>9. /\ Engine(s) \in WorkerType /\ Calm(Engine(s)) /\ Engine(s).alive /\ ~Engine(s).job.on
    BY <1>1, EngineFacts
  <2>10. Fine(r) /\ Hush(r, Engine(s)) /\ Settles(r, Engine(s)) /\ Tame(r.w, Engine(s))
    BY <1>2, <2>9, HandleExportOK, HandleExportHush, HandleExportSettles, HandleExportPlain, PlainTame DEF Calm
  <2>11. r.w.job.on => ~Off(s.worker)
    <3>1. Engine(s).book = None => r.w = Engine(s)
      BY OffRefuses
    <3>2. Off(s.worker) => Engine(s).book = None
      BY DEF Engine, Off, NoWorker
    <3> QED
      BY <2>9, <3>1, <3>2
  <2>12. Live(u)
    BY <1>1, <2>1, <2>2 DEF Live
  <2> HIDE DEF r
  <2>13. t.page = u.page /\ SameQueues(t, u) /\ t.worker = r.w /\ Carries(t, u, {}, {})
    <3>1. r.w.alive
      BY <2>9, <2>10 DEF Settles
    <3> QED
      BY <2>1, <2>3, <2>10, <2>12, <3>1, CallFields, CallMinds DEF Minds
  <2> HIDE DEF t
  <2>14. (Has(u) => Has(t)) /\ (Able(u) => Able(t)) /\ (\A i \in Preps : Up(u, i) => Up(t, i)) /\ Follows(t.worker)
    <3>1. Tame(t.worker, u.worker)
      BY <2>1, <2>10, <2>13, EngineTame DEF Tame
    <3> QED
      BY <2>5, <2>13, <3>1 DEF Carries, Tame, Able, Places, Right
  <2>15. Waited(t, g)
    BY <2>5, <2>13, <2>14 DEF Right, Waited, SameQueues
  <2>16. Exports(t)
    <3>1. Has(s) => Has(u)
      BY <2>1 DEF Has, Shows
    <3>2. ASSUME t.worker.job.on, Custom(t.page.want) PROVE Has(t)
      <4>1. Able(s) /\ ~Off(s.worker)
        BY <2>1, <2>11, <2>13, <3>2
      <4> QED
        BY <2>14, <3>1, <4>1 DEF Able
    <3> QED
      BY <3>2 DEF Exports
  <2>17. Right(t, g)
    BY <2>1, <2>3, <2>4, <2>8, <2>13, <2>14, <2>15, <2>16 DEF Right
  <2> QED
    BY <2>3, <2>13, <2>17
<1> QED
  BY <1>3, <1>4, <1>5

-----------------------------------------------------------------------------
(***************************************************************************)
(* The steps, and the goals.                                               *)
(***************************************************************************)
Aimed(s)  == Right(s, Goal(s.page))
GoalParts == Aimed(Now) /\ SavedLookIsChosen /\ SavedFaceIsCurrent
GoalInv   == FaceInv /\ GoalParts

LEMMA TurnsAimed ==
  ASSUME NEW s, Good(s), Aimed(s), Turns(s)
  PROVE  Aimed(Now)'
<1> DEFINE n == [page |-> page', prep |-> prep', micro |-> micro', worker |-> worker', inbox |-> inbox']
<1>1. s = n
  BY DEF Good, States, Turns
<1>2. Now' = n
  BY DEF Now
<1> HIDE DEF n
<1>3. Aimed(n)
  BY <1>1
<1> QED
  BY <1>2, <1>3

LEMMA NoSaveGoal ==
  ASSUME saved' = NoSave
  PROVE  SavedLookIsChosen' /\ SavedFaceIsCurrent'
<1>1. saved'.made = {}
  BY DEF NoSave, NoFile
<1> QED
  BY <1>1 DEF SavedLookIsChosen, SavedFaceIsCurrent, SavedFaceIsOwned

LEMMA BecomesAimed ==
  ASSUME NEW s, Good(s), Aimed(s), Becomes(s)
  PROVE  GoalParts'
BY TurnsAimed, NoSaveGoal DEF Becomes, GoalParts

LEMMA NowAimed ==
  ASSUME GoalInv, worker.woken = << >>
  PROVE  /\ Aimed(Now) /\ Right(Now, Goal(page)) /\ Locked(Now) /\ Sane(Now) /\ Good(Now) /\ Face(Now)
         /\ Now.page = page /\ Now.prep = prep /\ Now.micro = micro
         /\ Now.worker = worker /\ Now.inbox = inbox /\ page \in PageType /\ WarmInv
<1>1. /\ Locked(Now) /\ Sane(Now) /\ Good(Now) /\ Now.page = page /\ Now.prep = prep /\ Now.micro = micro
      /\ Now.worker = worker /\ Now.inbox = inbox
  BY NowLocked DEF GoalInv, FaceInv
<1>2. Face(Now) /\ Aimed(Now)
  BY DEF GoalInv, FaceInv, GoalParts
<1>3. WarmInv /\ page \in PageType
  BY DEF GoalInv, FaceInv, LockInv, WarmInv, InTypes
<1> QED
  BY <1>1, <1>2, <1>3 DEF Aimed

LEMMA ScheduleAimed ==
  ASSUME NEW s, Good(s), Aimed(s)
  PROVE  Aimed(ScheduleWarm(s))
BY ScheduleRight DEF Aimed

LEMMA WarmEndsAimed ==
  ASSUME NEW s, Good(s), Aimed(s)
  PROVE  Aimed(WarmEnds(s))
BY WarmEndsRight DEF Aimed

LEMMA InvalidateAimed ==
  ASSUME NEW s, Good(s), NEW g, Right(s, g)
  PROVE  Aimed(InvalidateWarm(s))
BY InvalidateRight DEF Aimed

LEMMA KillAimed ==
  ASSUME NEW s, Good(s), Aimed(s)
  PROVE  Aimed(KillExportEngine(s))
BY KillRight DEF Aimed, Right, OnCourse

\* The page sets variables that are not on the screen.
LEMMA SetPageAimed ==
  ASSUME NEW s, Good(s), Aimed(s), NEW p \in PageType, Shows(p, s.page),
         p.version = s.page.version, p.want = s.page.want, p.press = s.page.press,
         p.warmKey \in {s.page.warmKey, NoKey}
  PROVE  LET t == [s EXCEPT !.page = p]
         IN  Aimed(t) /\ Right(t, Goal(s.page)) /\ Good(t) /\ t.page = p /\ Goal(p) = Goal(s.page)
<1> DEFINE t == [s EXCEPT !.page = p]
<1>1. Good(t) /\ t.page = p /\ SameQueues(t, s) /\ t.worker = s.worker /\ t.inbox = s.inbox
  BY PageOK DEF Good, States, SameQueues
<1> HIDE DEF t
<1>2. Right(t, Goal(s.page)) /\ Goal(p) = Goal(s.page)
  BY <1>1, ShownRight DEF Aimed
<1> QED
  BY <1>1, <1>2 DEF t, Aimed

LEMMA SetsAimed ==
  ASSUME GoalInv, Sets
  PROVE  GoalParts'
<1>0. PICK p \in PageType :
        /\ Aside(p)
        /\ LET t == [Now EXCEPT !.page = p]
           IN  \/ SameOutput(p) /\ Becomes(t)
               \/ Becomes(InvalidateWarm(t)) \/ Becomes(ScheduleWarm(InvalidateWarm(t)))
  BY DEF Sets
<1> DEFINE t == [Now EXCEPT !.page = p]
           u == InvalidateWarm(t)
<1>1. Right(Now, Goal(page)) /\ Good(Now) /\ Now.page = page /\ page \in PageType
  BY NowAimed DEF Sets, Idle
<1>2. Good(t) /\ t.page = p /\ SameQueues(t, Now) /\ t.worker = Now.worker /\ t.inbox = Now.inbox
  BY <1>1, PageOK DEF Good, States, SameQueues
<1>3. \/ SameOutput(p) /\ Becomes(t)
      \/ Becomes(u) \/ Becomes(ScheduleWarm(u))
  BY <1>0
<1> HIDE DEF t
<1>4. /\ p.version = page.version /\ p.warmKey = page.warmKey /\ p.want = page.want /\ p.press = page.press
      /\ p.face = page.face
      /\ p.choice.look # page.choice.look => ~Exporting(page)
  BY <1>0 DEF Aside
<1>5. Wished(p)
  <2>1. Wished(page)
    BY <1>1 DEF Right
  <2>2. Exporting(page) => page.convert \/ page.fontRun # "idle"
    BY DEF Sets, Converting
  <2>3. page.press \in {"wait", "serial"} => Exporting(page)
    BY DEF Exporting
  <2> QED
    BY <1>4, <2>1, <2>2, <2>3 DEF Wished
<1>6. Right(t, Goal(page))
  BY <1>1, <1>2, <1>4, <1>5, PageRight
<1>7. CASE SameOutput(p) /\ Becomes(t)
  <2>1. p.choice.look = page.choice.look
    BY <1>1, <1>7, ChosenLook DEF SameOutput
  <2>2. Softer(Goal(p), Goal(page))
    BY <1>4, <1>7, <2>1 DEF Softer, Goal, SameOutput
  <2>3. Aimed(t)
    BY <1>2, <1>6, <2>2, SofterRight DEF Aimed
  <2> QED
    BY <1>2, <1>7, <2>3, BecomesAimed
<1>8. CASE Becomes(u) \/ Becomes(ScheduleWarm(u))
  <2>1. Aimed(u) /\ Good(u)
    BY <1>2, <1>6, InvalidateAimed, InvalidateWarmOK
  <2> HIDE DEF u
  <2>2. Aimed(ScheduleWarm(u)) /\ Good(ScheduleWarm(u))
    BY <2>1, ScheduleAimed, ScheduleWarmOK
  <2> QED
    BY <1>8, <2>1, <2>2, BecomesAimed
<1> QED
  BY <1>3, <1>7, <1>8

LEMMA ReaderAimed ==
  ASSUME GoalInv, Reader
  PROVE  GoalParts'
<1>0. WarmInv
  BY DEF GoalInv, FaceInv, LockInv
<1>1. CASE OpenBook
  <2> DEFINE s == KillExportEngine(InvalidateWarm(Now))
             b == 1 + MaxOpens - left.opens
             p == [s.page EXCEPT !.opening = b]
             t == [s EXCEPT !.page = p]
  <2>1. Aimed(Now) /\ Good(Now)
    BY <1>1, NowAimed DEF OpenBook, Acts, Idle
  <2>2. Aimed(s) /\ Good(s)
    BY <2>1, InvalidateAimed, InvalidateWarmOK, KillAimed, KillExportEngineOK DEF Aimed
  <2>3. b \in Books
    <3>1. left.opens \in 0 .. MaxOpens /\ left.opens > 0 /\ MaxOpens \in Nat
      BY <1>0, <1>1, WarmAssumption DEF WarmInv, LeftType, OpenBook
    <3> QED
      BY <3>1 DEF Books
  <2>4. Becomes(t)
    BY <1>1 DEF OpenBook
  <2> HIDE DEF b, s
  <2>5. /\ p \in PageType /\ p.warmKey = s.page.warmKey /\ Shows(p, s.page)
        /\ p.version = s.page.version /\ p.want = s.page.want /\ p.press = s.page.press
    BY <2>2, <2>3 DEF Good, States, PageType, Shows
  <2> HIDE DEF p
  <2>6. Aimed(t) /\ Good(t)
    BY <2>2, <2>5, SetPageAimed
  <2> HIDE DEF t
  <2> QED
    BY <2>4, <2>6, BecomesAimed
<1>2. CASE Press
  <2> DEFINE t == [Now EXCEPT !.page.press = "ping"]
  <2>1. Right(Now, Goal(page)) /\ Good(Now) /\ Now.page = page
    BY <1>2, NowAimed DEF Press, Acts, Idle
  <2>2. Turns(t) /\ saved' = NoSave
    BY <1>2, <2>1 DEF Press, Turns, Now
  <2>3. /\ Good(t) /\ SameQueues(t, Now) /\ t.worker = Now.worker /\ t.inbox = Now.inbox
        /\ t.page.version = Now.page.version /\ t.page.want = Now.page.want
        /\ t.page.press = "ping" /\ t.page.warmKey = Now.page.warmKey /\ Shows(t.page, Now.page)
    BY <2>1, PressAsk DEF Presses
  <2> HIDE DEF t
  <2>4. Wished(t.page) /\ Goal(t.page) = Goal(page)
    BY <2>1, <2>3, ShowsGoal DEF Wished
  <2>5. Aimed(t)
    BY <2>1, <2>3, <2>4, PageRight DEF Aimed, Shows
  <2> QED
    BY <2>2, <2>3, <2>5, BecomesAimed DEF Becomes
<1>3. CASE TurnFontKnob \/ (\E l \in Looks : ChangeLook(l)) \/ (\E f \in {"kopub", "custom"} : ChooseFont(f))
  <2>1. Sets
    BY <1>0, <1>3, TurnFontKnobSets, ChangeLookSets, ChooseFontSets
  <2> QED
    BY <2>1, SetsAimed
<1> QED
  BY <1>1, <1>2, <1>3 DEF Reader

LEMMA OpeningAimed ==
  ASSUME GoalInv, OpeningEnds \/ IdleTime
  PROVE  GoalParts'
<1>1. Aimed(Now) /\ Good(Now) /\ Sane(Now) /\ Face(Now) /\ Now.page = page /\ page \in PageType /\ Now.micro = << >>
  BY NowAimed DEF OpeningEnds, IdleTime, BookOpened, BookFails, FrameShown, IdlePrep, Idle
<1>2. CASE BookOpened
  <2> DEFINE p == [page EXCEPT !.book = page.opening, !.opening = None]
             t == [Now EXCEPT !.page = p]
  <2>1. /\ p \in PageType /\ p.warmKey = page.warmKey /\ Shows(p, page)
        /\ p.version = page.version /\ p.want = page.want /\ p.press = page.press
    BY <1>1 DEF PageType, Shows
  <2>2. [Now EXCEPT !.page.book = page.opening, !.page.opening = None] = t
    BY DEF Now
  <2>3. Becomes(InvalidateWarm(t))
    BY <1>2, <2>2 DEF BookOpened
  <2> HIDE DEF p
  <2>4. Aimed(t) /\ Good(t)
    BY <1>1, <2>1, SetPageAimed
  <2> HIDE DEF t
  <2>5. Aimed(InvalidateWarm(t))
    BY <2>4, InvalidateAimed DEF Aimed
  <2> QED
    BY <2>3, <2>4, <2>5, InvalidateWarmOK, BecomesAimed
<1>3. CASE BookFails
  <2> DEFINE p == [page EXCEPT !.book = None, !.opening = None]
             t == [Now EXCEPT !.page = p]
  <2>1. /\ p \in PageType /\ p.warmKey = page.warmKey /\ Shows(p, page)
        /\ p.version = page.version /\ p.want = page.want /\ p.press = page.press
    BY <1>1 DEF PageType, Shows
  <2>2. [Now EXCEPT !.page.book = None, !.page.opening = None] = t
    BY DEF Now
  <2>3. Becomes(KillExportEngine(t))
    BY <1>3, <2>2 DEF BookFails
  <2> HIDE DEF p
  <2>4. Aimed(t) /\ Good(t)
    BY <1>1, <2>1, SetPageAimed
  <2> HIDE DEF t
  <2> QED
    BY <2>3, <2>4, KillAimed, KillExportEngineOK, BecomesAimed
<1>4. ASSUME NEW b \in Books, FrameShown(b) PROVE GoalParts'
  <2>1. Aimed(ScheduleWarm(Now)) /\ Good(ScheduleWarm(Now))
    BY <1>1, ScheduleAimed, ScheduleWarmOK
  <2> QED
    BY <1>4, <2>1, BecomesAimed DEF FrameShown
<1>5. ASSUME NEW b \in Books, IdlePrep(b) PROVE GoalParts'
  <2> DEFINE t == Prepare(Now, b)
  <2>1. FreePreps(Now) # {} /\ Becomes(t)
    BY <1>5 DEF IdlePrep
  <2>2. Right(t, Goal(page)) /\ t.page = [Now.page EXCEPT !.loaded = t.page.loaded] /\ Good(t)
    BY <1>1, <2>1, PrepareRight, PrepareOK DEF Aimed
  <2> HIDE DEF t
  <2>3. Shows(t.page, page)
    BY <1>1, <2>2 DEF PageType, Shows
  <2>4. Aimed(t)
    BY <2>2, <2>3, ShowsGoal DEF Aimed
  <2> QED
    BY <2>1, <2>2, <2>4, BecomesAimed
<1> QED
  BY <1>2, <1>3, <1>4, <1>5 DEF OpeningEnds, IdleTime

-----------------------------------------------------------------------------
\* A face that the page owns from now on is on its way to the engine, and nobody waits for it calmly.
LEMMA FaceAcceptedAimed ==
  ASSUME GoalInv, NEW ok \in BOOLEAN, NEW sync \in BOOLEAN, FaceAccepted(ok, sync)
  PROVE  GoalParts'
<1> DEFINE p == [page EXCEPT !.face = page.faceFor, !.faceFor = 0]
           q == [page EXCEPT !.fontRun = "idle", !.faceFor = 0]
           s == [Now EXCEPT !.page = p]
           t == [Now EXCEPT !.page = q]
           u == [s EXCEPT !.page.fontRun = "waiting"]
           g == [look |-> page.choice.look, strict |-> FALSE, face |-> 0]
<1>1. /\ Right(Now, Goal(page)) /\ Good(Now) /\ Sane(Now) /\ Now.page = page /\ page \in PageType /\ 0 \in Faces
      /\ page.fontRun = "preview"
  BY NowAimed, WarmAssumption DEF FaceAccepted, Idle, Faces
<1>2. /\ p \in PageType /\ p.warmKey = page.warmKey /\ p.press = page.press /\ p.loaded = page.loaded
      /\ p.version = page.version /\ p.want = page.want /\ p.choice = page.choice /\ p.fontRun = "preview"
      /\ q \in PageType /\ q.warmKey = page.warmKey /\ q.press = page.press /\ q.fontRun = "idle"
      /\ q.version = page.version /\ q.want = page.want /\ q.choice = page.choice /\ q.face = page.face
      /\ q.faceLoaded = page.faceLoaded
  BY <1>1 DEF PageType, FontRuns
<1>3. [Now EXCEPT !.page.face = page.faceFor, !.page.faceFor = 0] = s
      /\ [Now EXCEPT !.page.fontRun = "idle", !.page.faceFor = 0] = t
  BY DEF Now
<1>4. FontAsk = [who |-> "font"]
  BY DEF FontAsk
<1>5. Becomes(CASE ~ok -> t
                [] ok /\ page.loaded = None -> Painting(s)
                [] ok /\ page.loaded = Ready -> SyncFont(s, sync)
                [] OTHER -> AwaitEngine(u, FontAsk))
  BY <1>3, <1>4 DEF FaceAccepted
<1> HIDE DEF p, q
<1>6. /\ Good(s) /\ s.page = p /\ SameQueues(s, Now) /\ s.worker = Now.worker /\ s.inbox = Now.inbox
      /\ Good(t) /\ t.page = q /\ SameQueues(t, Now) /\ t.worker = Now.worker /\ t.inbox = Now.inbox
  BY <1>1, <1>2, PageOK DEF Good, States, SameQueues
<1>7. Sane(s)
  BY <1>1, <1>2, SetPageKeeps DEF Keeps
<1> HIDE DEF s, t
<1>8. page.press \in {"wait", "serial"} => ~page.want.calm /\ page.want.spec.look = page.choice.look
  BY <1>1 DEF Right, Wished
<1>9. Wished(p) /\ Wished(q)
  BY <1>2, <1>8 DEF Wished
<1>10. Right(s, g)
  <2>1. Softer(g, Goal(page))
    BY DEF Softer, Goal
  <2> HIDE DEF g
  <2>2. OnCourse(Now, page.version, g, Wish(page))
    BY <1>1, <2>1, SofterSelf, SofterCourse DEF Right
  <2>3. Wish(p) = Wish(page)
    BY <1>2 DEF Wish
  <2>4. OnCourse(s, page.version, g, Wish(page))
    BY <1>1, <1>2, <1>6, <2>2, FieldsCourse
  <2>5. Follows(s.worker) /\ ~g.strict
    BY <1>1, <1>6 DEF Right, g
  <2> QED
    BY <1>2, <1>6, <1>9, <2>3, <2>4, <2>5, LooseRight
<1>11. g.look = s.page.choice.look /\ s.page.fontRun # "idle"
  BY <1>2, <1>6
<1> HIDE DEF g
<1>12. CASE ~ok
  <2>1. Right(t, Goal(page))
    BY <1>1, <1>2, <1>6, <1>9, PageRight
  <2>2. Goal(q) = Goal(page)
    BY <1>1, <1>2 DEF Goal, Settled, Chosen
  <2>3. Aimed(t)
    BY <1>6, <2>1, <2>2 DEF Aimed
  <2> QED
    BY <1>5, <1>6, <1>12, <2>3, BecomesAimed
<1>13. CASE ok /\ page.loaded = None
  <2>1. Becomes(Painting(s))
    BY <1>5, <1>13 DEF Ready, None
  <2>2. Aimed(Painting(s)) /\ Good(Painting(s))
    BY <1>6, <1>10, <1>11, PaintingRight, PaintingOK DEF Aimed
  <2> QED
    BY <2>1, <2>2, BecomesAimed
<1>14. CASE ok /\ page.loaded = Ready
  <2>1. Becomes(SyncFont(s, sync))
    BY <1>5, <1>14 DEF Ready, None
  <2>2. Aimed(SyncFont(s, sync)) /\ Good(SyncFont(s, sync))
    BY <1>6, <1>7, <1>10, <1>11, SyncFontRight, SyncFontOK DEF Aimed
  <2> QED
    BY <2>1, <2>2, BecomesAimed
<1>15. CASE ok /\ page.loaded # None /\ page.loaded # Ready
  <2>1. /\ Good(u) /\ Steers(u, s) /\ u.worker = s.worker
        /\ u.page.version = s.page.version /\ u.page.choice = s.page.choice /\ u.page.want = s.page.want
        /\ u.page.press = s.page.press
    BY <1>6, FontRunAsk DEF FontRuns
  <2>2. u.page.loaded = page.loaded /\ u.page.fontRun = "waiting"
    BY <1>2, <1>6, <1>7, SetFontRun DEF FontRuns
  <2> HIDE DEF u
  <2>3. page.version \in Nat /\ page.loaded \in Preps
    BY <1>1, <1>15 DEF PageType
  <2>4. OnCourse(u, s.page.version, g, Wish(s.page)) /\ Follows(u.worker)
    BY <1>2, <1>6, <1>10, <2>1, <2>3 DEF Steers, Right
  <2>5. Right(u, Goal(u.page))
    BY <1>10, <1>11, <2>1, <2>2, <2>4, LoosenRight DEF Accepted
  <2>6. Aimed(AwaitEngine(u, FontAsk)) /\ Good(AwaitEngine(u, FontAsk))
    <3>1. FontAsk \in GoType
      BY <1>4 DEF GoType
    <3> QED
      BY <2>1, <2>2, <2>3, <2>5, <3>1, AwaitFontRight, AwaitEngineOK DEF Aimed
  <2>7. Becomes(AwaitEngine(u, FontAsk))
    BY <1>5, <1>15
  <2> QED
    BY <2>6, <2>7, BecomesAimed
<1> QED
  BY <1>12, <1>13, <1>14, <1>15

\* A warm that needs the face is sent to an engine that has it, or waits where no older one will follow.
LEMMA FireWarmAimed ==
  ASSUME GoalInv, NEW ok \in BOOLEAN, FireWarm(ok)
  PROVE  GoalParts'
<1> DEFINE p == [page EXCEPT !.settle = FALSE]
           k == [who |-> "warm", key |-> Key(page), tok |-> page.version]
           q == [p EXCEPT !.firing = k.key]
           s == [Now EXCEPT !.page = p]
           fired == [Now EXCEPT !.page = q]
           skip == \/ page.book = None \/ Exporting(page)
                   \/ k.key \in {page.warmKey, page.firing}
<1>1. Aimed(Now) /\ Sane(Now) /\ Good(Now) /\ Face(Now) /\ Now.page = page /\ page \in PageType
  BY NowAimed DEF FireWarm, Idle
<1>2. k \in GoType /\ IsWarm(k) /\ k.key \in Keys /\ k.tok = page.version /\ k.who = "warm"
  BY <1>1, ChosenOK DEF GoType, IsWarm, PageType
<1>3. /\ p \in PageType /\ p.warmKey = page.warmKey /\ Shows(p, page) /\ p.press = page.press /\ SameFace(p, page)
      /\ p.version = page.version /\ p.want = page.want
  BY <1>1 DEF PageType, Shows, SameFace
<1>4. [Now EXCEPT !.page.settle = FALSE] = s
      /\ [[Now EXCEPT !.page.settle = FALSE] EXCEPT !.page.firing = k.key] = fired
  BY DEF Now
<1>5. Becomes(CASE skip -> s
                [] OTHER -> CASE page.loaded = None -> WarmEnds(fired)
                              [] page.loaded = Ready -> SendWarm(fired, k, ok)
                              [] OTHER -> AwaitEngine(fired, k))
  <2> HIDE DEF p, q, k
  <2> QED
    BY <1>4 DEF FireWarm, k
<1> HIDE DEF k, skip
<1>6. /\ q \in PageType /\ q.warmKey = page.warmKey /\ Shows(q, page) /\ q.press = page.press /\ SameFace(q, page)
      /\ q.version = page.version /\ q.want = page.want
  BY <1>1, <1>2, <1>3 DEF PageType, Shows, SameFace
<1> HIDE DEF p, q
<1>7. Aimed(s) /\ Good(s) /\ Aimed(fired) /\ Good(fired) /\ fired.page = q
  BY <1>1, <1>3, <1>6, SetPageAimed
<1>8. Sane(fired) /\ Face(fired)
  BY <1>1, <1>6, SetPageMinds, MindsFace
<1> HIDE DEF s, fired
<1>9. page.version \in Nat
  BY <1>1 DEF PageType
<1>10. Goal(q).strict => Settled(q)
  BY DEF Goal
<1>11. CASE skip
  BY <1>5, <1>7, <1>11, BecomesAimed
<1>12. CASE ~skip /\ page.loaded = None
  <2>1. Becomes(WarmEnds(fired))
    BY <1>5, <1>12 DEF Ready, None
  <2> QED
    BY <1>7, <2>1, WarmEndsAimed, WarmEndsOK, BecomesAimed
<1>13. CASE ~skip /\ page.loaded = Ready
  <2>1. Becomes(SendWarm(fired, k, ok))
    BY <1>5, <1>13 DEF Ready, None
  <2>2. Goal(q).strict => Able(fired)
    BY <1>6, <1>7, <1>8, <1>10, <1>13 DEF Face, Owns, Settled, SameFace, Able
  <2>3. k.tok <= q.version
    BY <1>2, <1>6, <1>9
  <2>4. Right(SendWarm(fired, k, ok), Goal(q)) /\ SendWarm(fired, k, ok).page = q
    BY <1>2, <1>7, <1>8, <2>2, <2>3, SendWarmRight DEF Aimed, Face
  <2>5. Aimed(SendWarm(fired, k, ok)) /\ Good(SendWarm(fired, k, ok))
    BY <1>2, <1>7, <2>4, SendWarmOK DEF Aimed
  <2> QED
    BY <2>1, <2>5, BecomesAimed
<1>14. CASE ~skip /\ page.loaded # None /\ page.loaded # Ready
  <2>1. fired.page.loaded \in Preps
    BY <1>1, <1>6, <1>7, <1>14 DEF PageType, SameFace
  <2>2. Becomes(AwaitEngine(fired, k))
    BY <1>5, <1>14
  <2>3. k \in Early(q.version)
    BY <1>2, <1>6, <1>9 DEF Early
  <2>4. Wants(q, Goal(q), k) => Up(fired, q.loaded)
    <3>1. Wants(q, Goal(q), k) => Settled(q)
      BY <1>2, <1>10 DEF Wants
    <3>2. Settled(q) => ~Due(fired)
      BY <1>7 DEF Settled, Due
    <3> QED
      BY <1>7, <1>8, <2>1, <3>1, <3>2 DEF Face, Owns
  <2>5. Right(AwaitEngine(fired, k), Goal(q)) /\ AwaitEngine(fired, k).page = q
    BY <1>7, <2>1, <2>3, <2>4, AwaitRight DEF Aimed
  <2>6. Aimed(AwaitEngine(fired, k)) /\ Good(AwaitEngine(fired, k))
    BY <1>2, <1>7, <2>1, <2>5, AwaitEngineOK DEF Aimed
  <2> QED
    BY <2>2, <2>6, BecomesAimed
<1> QED
  BY <1>11, <1>12, <1>13, <1>14

LEMMA EndsAimed ==
  ASSUME GoalInv, PoolEnds \/ EngineDies
  PROVE  GoalParts'
<1>1. Aimed(Now) /\ Good(Now) /\ Locked(Now) /\ Now.page = page
  BY NowAimed DEF PoolEnds, EngineDies, Idle
<1>2. CASE PoolEnds
  <2>1. Vacant(Now)
    BY <1>1, <1>2 DEF PoolEnds, Locked, Lock, Vacant
  <2>2. Aimed(Unlock(Now)) /\ Good(Unlock(Now))
    BY <1>1, <2>1, UnlockRight, UnlockOK DEF Aimed
  <2> QED
    BY <1>2, <2>2, BecomesAimed DEF PoolEnds
<1>3. CASE EngineDies
  BY <1>1, <1>3, KillAimed, KillExportEngineOK, BecomesAimed DEF EngineDies
<1> QED
  BY <1>2, <1>3

-----------------------------------------------------------------------------
\* What is fetched was made for the page as it is; what is converted has the face when nothing of one is due.
LEMMA PingReplyAimed ==
  ASSUME GoalInv, NEW pool \in BOOLEAN, NEW ok \in BOOLEAN, PingReply(pool, ok)
  PROVE  GoalParts'
<1> DEFINE want == [book |-> page.book, spec |-> Chosen(page), face |-> page.face,
                    calm |-> ~(page.convert \/ Converting(page)), ready |-> page.loaded # None \/ page.book # None]
           p == [page EXCEPT !.want = want]
           s == [Now EXCEPT !.page = p]
           w == [s EXCEPT !.page.press = "wait"]
           f == [s EXCEPT !.page.press = "fetch"]
           k == [who |-> "export"]
           g == Goal(page)
           v == page.version
<1>1. /\ Right(Now, g) /\ Locked(Now) /\ Sane(Now) /\ Good(Now) /\ Face(Now) /\ Now.page = page /\ Now.prep = prep
      /\ Now.micro = micro /\ Now.worker = worker /\ Now.inbox = inbox /\ page \in PageType /\ page.press = "ping"
      /\ v \in Nat /\ micro = << >>
  BY NowAimed DEF PingReply, Idle, PageType
<1>2. want \in WantType
  BY <1>1, ChosenOK DEF WantType, PageType
<1>3. /\ page.loaded = None => FreePreps(Now) # {}
      /\ Becomes(IF page.warmKey = Key(page) THEN Call(f, HandleFetch(Engine(s))) ELSE PingAnswered(s, pool, ok))
  <2>1. [Now EXCEPT !.page.want = want] = s
    BY DEF Now
  <2> HIDE DEF s
  <2> QED
    BY <2>1 DEF PingReply
<1>4. /\ want.spec = Chosen(page) /\ want.face = page.face /\ want.spec.look = page.choice.look
      /\ want.calm => page.fontRun = "idle" /\ ~page.convert
      /\ want.ready => page.loaded # None \/ page.book # None
  BY <1>1, ChosenLook DEF Converting
<1> HIDE DEF want
<1>5. /\ p \in PageType /\ p.book = page.book /\ p.press = page.press /\ p.version = v /\ p.want = want
      /\ p.warmKey = page.warmKey /\ Shows(p, page) /\ SameFace(p, page) /\ p.loaded = page.loaded
  BY <1>1, <1>2 DEF PageType, Shows, SameFace
<1> HIDE DEF p
<1>6. /\ Keeps(s, Now) /\ s.page = p /\ s.prep = prep /\ s.worker = worker /\ s.inbox = inbox
      /\ SameQueues(s, Now) /\ Minds(s, Now)
  BY <1>1, <1>5, SetPageKeeps, SetPageMinds DEF SameQueues, SameFace
<1> HIDE DEF s
<1>7. Vacant(Now) /\ Vacant(s) /\ Good(s) /\ Sane(s) /\ Face(s)
  BY <1>1, <1>6, KeepsVacant, MindsFace DEF Locked, Lock, Vacant, Sane
<1>8. Goal(p) = g /\ Chosen(p) = Chosen(page)
  BY <1>5, ShowsGoal
<1>9. Right(s, g)
  <2>1. Wished(p)
    BY <1>1, <1>5 DEF Wished
  <2> HIDE DEF g
  <2> QED
    BY <1>1, <1>5, <1>6, <1>7, <2>1, VacantRight DEF SameFace
<1>10. /\ Vacant(w) /\ w.page.press = "wait" /\ w.page.loaded = page.loaded /\ w.page.book = page.book /\ w.prep = prep
       /\ Vacant(f) /\ f.worker = s.worker /\ Minds(w, s) /\ Minds(f, s)
  BY <1>5, <1>6, <1>7, PressVacant, PressMinds DEF Presses
<1>11. PingAnswered(s, pool, ok) =
        CASE page.loaded = Ready \/ (page.loaded = None /\ page.book = None) -> Convert(w, pool, ok)
          [] page.loaded = None /\ page.book # None -> AwaitEngine(Prepare(w, page.book), k)
          [] OTHER -> AwaitEngine(w, k)
  BY <1>5, <1>6 DEF PingAnswered
<1>12. /\ Good(w) /\ SameQueues(w, s) /\ w.worker = s.worker /\ w.inbox = s.inbox /\ w.page.version = v
       /\ w.page.want = want /\ w.page.warmKey = page.warmKey /\ Shows(w.page, p)
  <2>1. /\ Good(w) /\ SameQueues(w, s) /\ w.worker = s.worker /\ w.inbox = s.inbox
        /\ w.page.version = s.page.version /\ w.page.want = s.page.want
        /\ w.page.warmKey = s.page.warmKey /\ Shows(w.page, s.page)
    BY <1>7, PressAsk DEF Presses
  <2> HIDE DEF w
  <2> QED
    BY <1>5, <1>6, <2>1
<1>13. /\ Good(f) /\ SameQueues(f, s) /\ f.worker = s.worker /\ f.inbox = s.inbox /\ f.page.version = v
       /\ f.page.want = want /\ f.page.warmKey = page.warmKey /\ Shows(f.page, p) /\ f.page.press = "fetch"
  <2>1. /\ Good(f) /\ SameQueues(f, s) /\ f.worker = s.worker /\ f.inbox = s.inbox
        /\ f.page.version = s.page.version /\ f.page.want = s.page.want
        /\ f.page.warmKey = s.page.warmKey /\ Shows(f.page, s.page) /\ f.page.press = "fetch"
    BY <1>7, PressAsk DEF Presses
  <2> HIDE DEF f
  <2> QED
    BY <1>5, <1>6, <2>1
<1> HIDE DEF w, f
<1>14. /\ Goal(w.page) = g /\ Goal(f.page) = g /\ Chosen(w.page) = want.spec
       /\ w.page.face = page.face /\ f.page.face = page.face /\ w.page.fontRun = page.fontRun
  BY <1>4, <1>5, <1>8, <1>12, <1>13, ShowsGoal DEF Shows
<1>15. Wished(w.page) /\ Wished(f.page)
  BY <1>4, <1>5, <1>12, <1>13, <1>14 DEF Wished, Shows
<1>16. Right(w, g) /\ Right(f, g)
  <2> HIDE DEF g
  <2>1. w.page.face = s.page.face /\ w.page.version = s.page.version /\ w.page.warmKey = s.page.warmKey
    BY <1>5, <1>6, <1>12 DEF Shows
  <2>2. f.page.face = s.page.face /\ f.page.version = s.page.version /\ f.page.warmKey = s.page.warmKey
    BY <1>5, <1>6, <1>13 DEF Shows
  <2>3. Right(w, g)
    BY <1>7, <1>9, <1>12, <1>15, <2>1, VacantRight
  <2>4. Right(f, g)
    BY <1>7, <1>9, <1>13, <1>15, <2>2, VacantRight
  <2> QED
    BY <2>3, <2>4
<1>17. Face(w) /\ Face(f) /\ Sane(w) /\ Sane(f)
  BY <1>7, <1>10, MindsFace DEF Vacant
<1>18. /\ want.calm => page.fontRun = "idle" /\ ~Due(w)
       /\ Custom(want) => want.calm /\ want.ready /\ want.spec.font = "custom"
  BY <1>4, <1>14 DEF Due, Custom
<1>19. Softer(Wish(f.page), g)
  BY <1>4, <1>13, <1>18 DEF Softer, Wish, Goal, Settled, Custom
<1> HIDE DEF k, g
<1>20. ASSUME page.warmKey = Key(page)
       PROVE  Aimed(Call(f, HandleFetch(Engine(s)))) /\ Good(Call(f, HandleFetch(Engine(s))))
  <2> DEFINE r == HandleFetch(Engine(s))
             h == Wish(f.page)
  <2>1. Engine(f) = Engine(s)
    BY <1>13 DEF Engine
  <2>2. /\ Fine(r) /\ Engine(s) \in WorkerType /\ Hush(r, Engine(s)) /\ Settles(r, Engine(s)) /\ ~r.w.job.on
        /\ Engine(s).alive /\ Tame(r.w, Engine(s))
    BY <1>7, EngineFacts, HandleFetchOK, HandleFetchHush, FetchSettles, FetchPlain, PlainTame DEF Vacant
  <2>3. Fresh(worker, v, g)
    BY <1>1, <1>20, KeyIsSome DEF Right, OnCourse
  <2>4. Engine(s) = worker /\ MadeAs(worker.bytes, h)
    BY <1>6, <1>19, <2>3, SofterAs DEF Fresh, Engine
  <2>5. OnCourse(f, v, g, h)
    BY <1>13, <1>16 DEF Right
  <2>6. Heeds(Engine(f), v, g, h)
    BY <1>1, <1>13, <2>5, EngineCourse
  <2>7. Stays(r, Engine(f), v, g, h)
    BY <1>1, <2>1, <2>2, <2>4, <2>6, HandleFetchStays
  <2> HIDE DEF r
  <2>8. OnCourse(Call(f, r), v, g, h) /\ Call(f, r).page = f.page /\ Good(Call(f, r))
    BY <1>1, <1>13, <2>2, <2>5, <2>7, CallCourse, CallFields
  <2>9. Rides(Call(f, r), f)
    BY <1>17, <2>1, <2>2, CallRides DEF Face, Settles
  <2>10. Right(Call(f, r), g)
    BY <1>13, <1>16, <2>8, <2>9, RidesRight
  <2> QED
    BY <1>14, <2>8, <2>10 DEF r, Aimed
<1>21. Aimed(PingAnswered(s, pool, ok)) /\ Good(PingAnswered(s, pool, ok))
  <2>1. CASE page.loaded = Ready \/ (page.loaded = None /\ page.book = None)
    <3>1. PingAnswered(s, pool, ok) = Convert(w, pool, ok)
      BY <1>11, <2>1 DEF Ready, None
    <3>2. Custom(w.page.want) => Able(w)
      BY <1>4, <1>10, <1>12, <1>14, <1>17, <1>18, <2>1 DEF Face, Owns, Able, Ready, None
    <3>3. Right(Convert(w, pool, ok), g) /\ Goal(Convert(w, pool, ok).page) = Goal(w.page)
      BY <1>10, <1>16, <1>17, <3>2, ConvertRight
    <3>4. Good(Convert(w, pool, ok))
      BY <1>17, ConvertOK DEF Sane
    <3> QED
      BY <1>14, <3>1, <3>3, <3>4 DEF Aimed
  <2>2. CASE ~(page.loaded = Ready \/ (page.loaded = None /\ page.book = None)) /\ page.loaded = None
    <3>1. page.book \in Books /\ FreePreps(w) # {} /\ w.micro = << >>
      BY <1>1, <1>3, <1>6, <1>10, <1>12, <2>2 DEF PageType, FreePreps, SameQueues
    <3> DEFINE t == Prepare(w, page.book)
    <3>2. /\ Right(t, g) /\ t.page.loaded \in Preps /\ t.page = [w.page EXCEPT !.loaded = t.page.loaded]
          /\ Up(t, t.page.loaded)
      BY <1>16, <1>17, <3>1, PrepareRight
    <3>9. Good(t)
      BY <1>12, <3>1, PrepareOK
    <3>3. PingAnswered(s, pool, ok) = AwaitEngine(t, k)
      BY <1>11, <2>2
    <3> HIDE DEF t
    <3>4. Shows(t.page, w.page) /\ t.page.version = w.page.version
      BY <1>12, <3>2 DEF Good, States, PageType, Shows
    <3>5. Goal(t.page) = g
      BY <1>14, <3>4, ShowsGoal
    <3>6. k \in GoType /\ k \in Early(t.page.version)
      BY DEF k, GoType, Early
    <3>7. Right(AwaitEngine(t, k), g) /\ AwaitEngine(t, k).page = t.page
      BY <3>2, <3>6, <3>9, AwaitRight
    <3>8. Good(AwaitEngine(t, k))
      BY <3>2, <3>6, <3>9, AwaitEngineOK
    <3> QED
      BY <3>3, <3>5, <3>7, <3>8 DEF Aimed
  <2>3. CASE ~(page.loaded = Ready \/ (page.loaded = None /\ page.book = None)) /\ page.loaded # None
    <3>1. w.page.loaded \in Preps
      BY <1>1, <1>10, <2>3 DEF PageType
    <3>2. PingAnswered(s, pool, ok) = AwaitEngine(w, k)
      BY <1>11, <2>3
    <3>3. k \in GoType /\ k \in Early(w.page.version) /\ k.who = "export"
      BY DEF k, GoType, Early
    <3>4. Wants(w.page, g, k) => Up(w, w.page.loaded)
      BY <1>12, <1>17, <1>18, <3>1, <3>3 DEF Wants, Face, Owns
    <3>5. Right(AwaitEngine(w, k), g) /\ AwaitEngine(w, k).page = w.page
      BY <1>12, <1>16, <3>1, <3>3, <3>4, AwaitRight
    <3>6. Good(AwaitEngine(w, k))
      BY <1>12, <3>1, <3>3, AwaitEngineOK
    <3> QED
      BY <1>14, <3>2, <3>5, <3>6 DEF Aimed
  <2> QED
    BY <2>1, <2>2, <2>3
<1> QED
  BY <1>3, <1>20, <1>21, BecomesAimed

-----------------------------------------------------------------------------
\* Who goes on because an engine is ready, and wants the face, finds it there.
LEMMA HeadRight ==
  ASSUME NEW s, Good(s), s.micro # << >>, NEW g, Right(s, g)
  PROVE  LET t == [s EXCEPT !.micro = Tail(s.micro)]
             c == Head(s.micro)
         IN  Right(t, g) /\ t.page = s.page /\ (c.ok /\ Wants(s.page, g, c.go) => Able(t))
<1> DEFINE t == [s EXCEPT !.micro = Tail(s.micro)]
<1>1. /\ t.page = s.page /\ t.prep = s.prep /\ t.worker = s.worker /\ t.inbox = s.inbox /\ t.micro = Tail(s.micro)
      /\ s.micro \in Seq(MicroType) /\ s.page.version \in Nat
  BY DEF Good, States, PageType
<1>2. OnCourse(t, s.page.version, g, Wish(s.page))
  BY <1>1, HeadCourse DEF Right
<1> HIDE DEF t
<1>3. (Has(t) <=> Has(s)) /\ (Able(t) <=> Able(s)) /\ \A i : Up(t, i) <=> Up(s, i)
  BY <1>1 DEF Has, Up, Able
<1>4. /\ 1 \in DOMAIN s.micro /\ Head(s.micro) = s.micro[1]
      /\ \A n \in DOMAIN t.micro : n + 1 \in DOMAIN s.micro /\ t.micro[n] = s.micro[n + 1]
  <2>1. /\ Len(s.micro) \in Nat /\ Len(s.micro) >= 1
        /\ DOMAIN s.micro = 1 .. Len(s.micro) /\ DOMAIN t.micro = 1 .. Len(s.micro) - 1
        /\ \A n \in 1 .. Len(s.micro) - 1 : t.micro[n] = s.micro[n + 1]
        /\ Head(s.micro) = s.micro[1]
    BY <1>1, TailAt
  <2> QED
    BY <2>1
<1>5. Waited(t, g) /\ (Head(s.micro).ok /\ Wants(s.page, g, Head(s.micro).go) => Able(t))
  BY <1>1, <1>3, <1>4 DEF Right, Waited
<1>6. Wished(t.page) /\ Exports(t) /\ Follows(t.worker)
  BY <1>1, <1>3 DEF Right, Exports
<1> QED
  BY <1>1, <1>2, <1>5, <1>6 DEF Right, t

LEMMA ContinueAimed ==
  ASSUME GoalInv, NEW pool \in BOOLEAN, NEW ok \in BOOLEAN, Continue(pool, ok)
  PROVE  GoalParts'
<1> DEFINE c == Head(micro)
           s == [Now EXCEPT !.micro = Tail(micro)]
           g == Goal(page)
           v == page.version
<1>1. /\ Right(Now, g) /\ Locked(Now) /\ Good(Now) /\ Face(Now) /\ Now.page = page /\ Now.micro = micro
      /\ micro # << >> /\ v \in Nat
  BY NowAimed DEF Continue, PageType
<1>2. Becomes(CASE c.go.who = "warm" -> IF c.ok THEN SendWarm(s, c.go, ok) ELSE WarmEnds(s)
                [] c.go.who = "font" -> IF c.ok THEN SyncFont(s, ok) ELSE SyncFails(s)
                [] c.go.who = "export" -> Convert(Awaited(s, c.ok), pool, ok))
  BY DEF Continue, Now
<1>3. /\ c \in MicroType
      /\ c.go.who # "export" => Keeps(s, Now)
      /\ c.go.who = "export" => Vacant(s)
  BY <1>1, HeadGoes
<1>4. Sane(s) /\ Good(s)
  BY <1>3 DEF Keeps, Vacant, Sane
<1>5. /\ Right(s, g) /\ s.page = page /\ (c.ok /\ Wants(page, g, c.go) => Able(s))
      /\ c.go.who = "warm" => c.go.tok <= v
  <2>1. OnCourse(Now, v, g, Wish(page))
    BY <1>1 DEF Right
  <2> HIDE DEF g
  <2> QED
    BY <1>1, <2>1, HeadRight, HeadCourse
<1>6. /\ s.worker = Now.worker /\ s.inbox = Now.inbox
      /\ c.go.who # "font" => Minds(s, Now)
      /\ c.go.who = "font" => page.fontRun = "waiting"
  BY <1>1, HeadMinds DEF Face
<1>7. c.go.who = "export" => page.press = "wait"
  <2>1. ASSUME c.go.who = "export" PROVE page.press = "wait"
    <3>1. micro \in Seq(MicroType)
      BY <1>1 DEF Good, States
    <3>2. 1 \in DOMAIN Now.micro /\ Now.micro[1].go.who = "export"
      BY <1>1, <2>1, <3>1
    <3>3. <<0, 1>> \in Going(Now, "export")
      BY <3>2 DEF Going
    <3> QED
      BY <1>1, <3>3 DEF Locked, Lock
  <2> QED
    BY <2>1
<1>8. Live(s) /\ g.look = page.choice.look
  BY <1>1, <1>5, <1>6 DEF Face, Live, Goal
<1> HIDE DEF c, s, g
<1>9. g = Goal(s.page)
  BY <1>5 DEF g
<1>10. CASE c.go.who = "warm"
  <2>1. IsWarm(c.go)
    BY <1>3, <1>10 DEF MicroType, GoType, IsWarm
  <2>2. ASSUME c.ok PROVE Aimed(SendWarm(s, c.go, ok))
    <3>1. c.go.tok = s.page.version /\ g.strict => Able(s)
      BY <1>5, <1>10, <2>2 DEF Wants
    <3>2. Right(SendWarm(s, c.go, ok), g) /\ SendWarm(s, c.go, ok).page = s.page
      BY <1>4, <1>5, <1>8, <1>9, <1>10, <2>1, <3>1, SendWarmRight
    <3> QED
      BY <1>9, <3>2 DEF Aimed
  <2>3. Aimed(WarmEnds(s))
    BY <1>4, <1>5, <1>9, WarmEndsAimed DEF Aimed
  <2>4. Good(SendWarm(s, c.go, ok)) /\ Good(WarmEnds(s))
    BY <1>4, <2>1, SendWarmOK, WarmEndsOK
  <2>5. (c.ok /\ Becomes(SendWarm(s, c.go, ok))) \/ Becomes(WarmEnds(s))
    BY <1>2, <1>10
  <2> QED
    BY <2>2, <2>3, <2>4, <2>5, BecomesAimed
<1>11. CASE c.go.who = "font"
  <2>1. s.page.fontRun # "idle" /\ Tokens(s, s.page.version) /\ Wished(s.page)
    BY <1>5, <1>6, <1>11 DEF Right, OnCourse
  <2>2. Aimed(SyncFont(s, ok)) /\ Aimed(SyncFails(s))
    BY <1>4, <1>5, <1>8, <2>1, SyncFontRight, SyncFailsRight DEF Aimed
  <2>3. Good(SyncFont(s, ok)) /\ Good(SyncFails(s))
    BY <1>4, SyncFontOK, SyncFailsOK
  <2>4. Becomes(SyncFont(s, ok)) \/ Becomes(SyncFails(s))
    BY <1>2, <1>11
  <2> QED
    BY <2>2, <2>3, <2>4, BecomesAimed
<1>12. CASE c.go.who = "export"
  <2> DEFINE a == Awaited(s, c.ok)
  <2>1. c.ok \in BOOLEAN /\ Vacant(s) /\ page.press = "wait"
    BY <1>3, <1>7, <1>12 DEF MicroType
  <2>2. Becomes(Convert(a, pool, ok))
    BY <1>2, <1>12
  <2>3. Vacant(a) /\ Minds(a, s)
    BY <2>1, AwaitedVacant, AwaitedMinds
  <2>4. /\ Right(a, g) /\ a.page.press = s.page.press /\ a.page.want = [s.page.want EXCEPT !.ready = c.ok]
        /\ Goal(a.page) = Goal(s.page) /\ (Able(s) => Able(a))
    BY <1>5, <2>1, AwaitedRight
  <2> HIDE DEF a
  <2>5. Face(a) /\ Good(a)
    BY <1>1, <1>6, <1>12, <2>3, MindsFace DEF Vacant, Sane
  <2>6. page.want \in WantType
    BY <1>1 DEF Good, States, PageType
  <2>7. Custom(a.page.want) => c.ok /\ page.want.calm /\ page.want.spec.font = "custom"
    BY <1>5, <2>4, <2>6 DEF Custom, WantType
  <2>8. Custom(a.page.want) => Able(a)
    BY <1>5, <1>12, <2>1, <2>4, <2>7 DEF Wants
  <2>9. Right(Convert(a, pool, ok), g) /\ Goal(Convert(a, pool, ok).page) = g
    BY <1>5, <1>9, <2>1, <2>3, <2>4, <2>5, <2>8, ConvertRight
  <2>10. Good(Convert(a, pool, ok))
    BY <2>3, ConvertOK DEF Vacant, Sane
  <2> QED
    BY <2>2, <2>9, <2>10, BecomesAimed DEF Aimed
<1> QED
  BY <1>3, <1>10, <1>11, <1>12 DEF MicroType, GoType

-----------------------------------------------------------------------------
LEMMA PrepFailsAimed ==
  ASSUME NEW s, Good(s), Aimed(s), NEW i \in Preps
  PROVE  Aimed(PrepFails(s, i))
<1>1. PrepFails(s, i) = PrepEnds(s, i, None, FALSE)
  BY DEF PrepFails, PrepEnds
<1> DEFINE g == Goal(s.page)
<1>2. Right(s, g)
  BY DEF Aimed
<1> HIDE DEF g
<1>3. Right(PrepFails(s, i), g) /\ Goal(PrepFails(s, i).page) = Goal(s.page)
  <2>1. Right(PrepEnds(s, i, None, FALSE), g) /\ Goal(PrepEnds(s, i, None, FALSE).page) = Goal(s.page)
    BY <1>2, PrepEndsRight, Zenon
  <2> QED
    BY <1>1, <2>1, Zenon
<1> QED
  BY <1>3 DEF Aimed, g

LEMMA PrepSucceedsAimed ==
  ASSUME NEW s, Good(s), Aimed(s), NEW i \in Preps,
         \A n \in DOMAIN s.prep[i].waiters : Wants(s.page, Goal(s.page), s.prep[i].waiters[n]) => Able(s)
  PROVE  Aimed(PrepSucceeds(s, i))
<1> DEFINE loaded == IF s.page.loaded = i THEN Ready ELSE s.page.loaded
<1>1. loaded \in {None, Ready} \cup Preps
  BY DEF Good, States, PageType
<1>2. PrepSucceeds(s, i) = PrepEnds(s, i, loaded, TRUE)
  BY DEF PrepSucceeds, PrepEnds
<1> HIDE DEF loaded
<1> DEFINE g == Goal(s.page)
<1>3. Right(s, g) /\ \A n \in DOMAIN s.prep[i].waiters : Wants(s.page, g, s.prep[i].waiters[n]) => Able(s)
  BY DEF Aimed
<1> HIDE DEF g
<1>4. Right(PrepSucceeds(s, i), g) /\ Goal(PrepSucceeds(s, i).page) = Goal(s.page)
  <2>1. Right(PrepEnds(s, i, loaded, TRUE), g) /\ Goal(PrepEnds(s, i, loaded, TRUE).page) = Goal(s.page)
    BY <1>1, <1>3, PrepEndsRight, ZenonT(60)
  <2> QED
    BY <1>2, <2>1, Zenon
<1> QED
  BY <1>4 DEF Aimed, g

\* A preparation takes its second step: whoever waits for it still does.
LEMMA StepRight ==
  ASSUME NEW s, Good(s), NEW g, Right(s, g), NEW i \in Preps
  PROVE  Right([s EXCEPT !.prep[i].step = "font"], g)
<1> DEFINE new == [s.prep[i] EXCEPT !.step = "font"]
           preps == [s.prep EXCEPT ![i] = new]
           t == [s EXCEPT !.prep = preps]
<1>1. s.prep \in [Preps -> PrepType] /\ s.page.version \in Nat
  BY DEF Good, States, PageType
<1>2. new.waiters = s.prep[i].waiters
  BY <1>1 DEF PrepType
<1>3. [s EXCEPT !.prep[i].step = "font"] = t
  OBVIOUS
<1> HIDE DEF new
<1>4. preps[i] = new /\ \A j \in Preps : j # i => preps[j] = s.prep[j]
  BY <1>1
<1> HIDE DEF preps
<1>5. t.page = s.page /\ t.prep = preps /\ t.micro = s.micro /\ t.worker = s.worker /\ t.inbox = s.inbox
  BY DEF Good, States
<1>6. Steers(t, s)
  BY <1>3, StepSteers
<1> HIDE DEF t
<1>7. OnCourse(t, s.page.version, g, Wish(s.page))
  BY <1>1, <1>6 DEF Steers, Right
<1>8. (Has(t) <=> Has(s)) /\ (Able(t) <=> Able(s)) /\ \A j : Up(t, j) <=> Up(s, j)
  BY <1>5 DEF Has, Up, Able
<1>9. \A j \in Preps : t.prep[j].waiters = s.prep[j].waiters
  BY <1>2, <1>4, <1>5
<1>10. Waited(t, g)
  BY <1>5, <1>8, <1>9 DEF Right, Waited
<1>11. Right(t, g)
  BY <1>5, <1>7, <1>8, <1>10 DEF Right, Exports
<1> QED
  BY <1>3, <1>11

\* The face is given to the engine whose book has been read.
LEMMA FontCallRight ==
  ASSUME NEW s, Good(s), NEW g, Right(s, g), s.micro = << >>, NEW i \in Preps, NoFont(s, i), NEW ok \in BOOLEAN
  PROVE  Right(Call(s, HandleFont(s.worker, i, s.page.face, ok)), g)
<1> DEFINE r == HandleFont(s.worker, i, s.page.face, ok)
           t == Call(s, r)
<1>1. /\ Calm(s.worker) /\ s.worker \in WorkerType /\ s.page.face \in Faces /\ s.page.version \in Nat
      /\ i \in Places /\ Wired(s) /\ Equal(s.worker, s.worker)
  BY GoodWired DEF Good, States, PageType, Places, Wired, Equal
<1>2. Fine(r) /\ Silent(r, s.worker) /\ Tame(r.w, s.worker)
  BY <1>1, HandleFontOK, HandleFontSilent, HandleFontPlain, PlainTame
<1>3. OnCourse(s, s.page.version, g, Wish(s.page)) /\ Heeds(s.worker, s.page.version, g, Wish(s.page))
  BY DEF Right, OnCourse
<1>4. Stays(r, s.worker, s.page.version, g, Wish(s.page))
  BY <1>1, <1>3, HandleFontStays
<1>5. \A u : Handled(u, s, r) => Carries(u, s, {}, {i}) /\ OneFont(u, i) /\ Up(u, i)
  BY <1>1, HandleFontCarries
<1> HIDE DEF r
<1>6. t.page = s.page /\ SameQueues(t, s) /\ t.worker = r.w /\ t.inbox = s.inbox \o r.out
  BY <1>2, CallFields
<1>7. OnCourse(t, s.page.version, g, Wish(s.page))
  BY <1>1, <1>2, <1>3, <1>4, ReplyCourse
<1> HIDE DEF t
<1>8. Carries(t, s, {}, {i}) /\ Up(t, i)
  BY <1>5, <1>6 DEF Handled
<1>9. (Has(s) => Has(t)) /\ \A j \in Preps : Up(s, j) => Up(t, j)
  BY <1>8 DEF Carries, Places
<1>10. Waited(t, g)
  BY <1>6, <1>9 DEF Right, Waited, SameQueues
<1>11. Exports(t) /\ Follows(t.worker)
  BY <1>2, <1>6, <1>9 DEF Right, Exports, Silent, Tame
<1> QED
  BY <1>6, <1>7, <1>10, <1>11 DEF Right, r, t

-----------------------------------------------------------------------------
LEMMA TakenAimed ==
  ASSUME GoalInv, NEW re, Answered(re)
  PROVE  /\ Head(inbox) \in MessageType /\ Head(inbox).re = re /\ Taken.page = page /\ Taken.worker = worker
         /\ Taken.prep = prep /\ Taken.micro = << >>
         /\ Aimed(Taken) /\ Right(Taken, Goal(page)) /\ Right(Now, Goal(page))
         /\ Sane(Taken) /\ Good(Taken) /\ Face(Taken) /\ ReadsOne(Taken, Now)
         /\ re = "file" => Vacant(Taken) /\ MadeAs(Head(inbox).made, Wish(page))
         /\ re = "warm" /\ Head(inbox).res = "ready" /\ Head(inbox).tok = page.version
              => Fresh(worker, page.version, Goal(page))
<1> DEFINE g == Goal(page)
           h == Wish(page)
           v == page.version
<1>1. /\ Right(Now, g) /\ Good(Now) /\ Now.page = page /\ Now.prep = prep /\ Now.micro = micro
      /\ Now.worker = worker /\ Now.inbox = inbox /\ inbox # << >> /\ Head(inbox).re = re /\ micro = << >>
  BY NowAimed DEF Answered, Idle
<1>2. /\ Head(inbox) \in MessageType /\ Taken.page = page /\ Taken.worker = worker
      /\ re # "file" => Locked(Taken) /\ Sane(Taken)
      /\ re = "file" => Vacant(Taken)
  BY TakenLocked DEF GoalInv, FaceInv
<1>3. Sane(Taken) /\ Good(Taken)
  BY <1>2 DEF Vacant, Sane
<1>4. Taken = [Now EXCEPT !.inbox = Tail(Now.inbox)]
  BY DEF Taken, Now
<1>5. Face(Taken) /\ ReadsOne(Taken, Now) /\ Taken.prep = prep
  BY TakenFace DEF GoalInv
<1>6. OnCourse(Now, v, g, h)
  BY <1>1 DEF Right
<1> HIDE DEF g, h
<1>7. /\ OnCourse(Taken, v, g, h)
      /\ re = "file" => MadeAs(Head(inbox).made, h)
      /\ re = "warm" /\ Head(inbox).res = "ready" /\ Head(inbox).tok = v => Fresh(worker, v, g)
  BY <1>1, <1>4, <1>6, AnswerCourse
<1>8. Taken.micro = << >>
  BY <1>1 DEF Taken, Now
<1>9. Rides(Taken, Now)
  BY <1>1, <1>2, <1>5, <1>8, PlainSelf DEF Rides, ReadsOne, SameQueues
<1>10. Right(Taken, g)
  BY <1>1, <1>7, <1>9, RidesRight DEF h
<1>11. Aimed(Taken)
  BY <1>2, <1>10 DEF Aimed, g
<1> QED
  BY <1>1, <1>2, <1>3, <1>5, <1>7, <1>8, <1>10, <1>11 DEF g, h

LEMMA LoadAnsweredAimed ==
  ASSUME GoalInv, NEW ok \in BOOLEAN, LoadAnswered(ok)
  PROVE  GoalParts'
<1> DEFINE m == Head(inbox)
           i == m.id
           t == [Taken EXCEPT !.prep[i].step = "font"]
           r == HandleFont(worker, i, page.face, ok)
           g == Goal(page)
<1>0. Answered("load")
  BY DEF LoadAnswered
<1>1. /\ Aimed(Taken) /\ Right(Taken, g) /\ Sane(Taken) /\ Good(Taken) /\ Face(Taken) /\ ReadsOne(Taken, Now)
      /\ Taken.page = page /\ Taken.worker = worker /\ Taken.prep = prep /\ Taken.micro = << >>
      /\ m \in MessageType /\ m.re = "load"
  BY <1>0, TakenAimed
<1>2. /\ Now.page = page /\ Now.prep = prep /\ Now.worker = worker /\ Now.inbox = inbox /\ Face(Now)
      /\ inbox # << >> /\ inbox \in Seq(MessageType) /\ Calm(worker)
  BY <1>0, TakenFace DEF GoalInv
<1>3. i \in Preps /\ i \in Places /\ m.ok \in BOOLEAN /\ m \in LoadSays(i)
  BY <1>1 DEF MessageType, LoadSays, Places
<1>4. Becomes(CASE ~m.ok -> PrepFails(Taken, i)
                [] m.ok /\ page.face = 0 -> PrepSucceeds(Taken, i)
                [] OTHER -> Call(t, r))
  BY DEF LoadAnswered
<1>5. NoLoad(Taken, i)
  BY <1>1, <1>2, <1>3 DEF ReadsOne, Face, Calls
<1>6. At(inbox, LoadSays(i)) # {}
  BY <1>2, <1>3, AtHead
<1> HIDE DEF m, i
<1>7. ~NoLoad(Now, i)
  BY <1>2, <1>6 DEF NoLoad, Neither
<1>8. NoFont(Taken, i)
  <2>1. ~Asked(Now, i)
    BY <1>2, <1>3, <1>7, PlacesFacts DEF Asked, Face, Calls
  <2>2. NoFont(Now, i)
    BY <1>2, <1>3, <2>1 DEF Face, Calls
  <2> QED
    BY <1>1, <1>3, <2>2 DEF ReadsOne, Carries
<1>9. Aimed(PrepFails(Taken, i)) /\ Good(PrepFails(Taken, i))
  BY <1>1, <1>3, PrepFailsAimed, PrepFailsOK
<1>10. page.face = 0 => Aimed(PrepSucceeds(Taken, i)) /\ Good(PrepSucceeds(Taken, i))
  <2>1. page.face = 0 => Able(Taken)
    BY <1>1 DEF Face, Owns, Able
  <2> QED
    BY <1>1, <1>3, <2>1, PrepSucceedsAimed, PrepSucceedsOK
<1>11. Good(t) /\ t.page = page /\ t.worker = worker /\ t.inbox = Taken.inbox
  BY <1>1, <1>3, <1>5, StepFace
<1>12. Right(t, g) /\ t.micro = << >>
  <2>1. t.micro = << >>
    BY <1>1 DEF Good, States
  <2> HIDE DEF g
  <2> QED
    BY <1>1, <1>3, <2>1, StepRight
<1> HIDE DEF t, g
<1>13. NoFont(t, i)
  BY <1>1, <1>8, <1>11 DEF NoFont
<1>14. Right(Call(t, r), g)
  BY <1>3, <1>11, <1>12, <1>13, FontCallRight
<1>15. Call(t, r).page = page /\ Good(Call(t, r))
  <2>1. page.face \in Faces
    BY <1>11 DEF Good, States, PageType
  <2>2. Fine(r)
    BY <1>2, <1>3, <2>1, HandleFontOK DEF Places
  <2> HIDE DEF r
  <2> QED
    BY <1>11, <2>2, CallFields
<1>16. Aimed(Call(t, r))
  BY <1>14, <1>15 DEF Aimed, g
<1> HIDE DEF r
<1>17. \/ Becomes(PrepFails(Taken, i)) \/ (page.face = 0 /\ Becomes(PrepSucceeds(Taken, i))) \/ Becomes(Call(t, r))
  BY <1>3, <1>4
<1> QED
  BY <1>9, <1>10, <1>15, <1>16, <1>17, BecomesAimed

LEMMA FontAnsweredAimed ==
  ASSUME GoalInv, FontAnswered
  PROVE  GoalParts'
<1> DEFINE m == Head(inbox)
           j == m.id
           g == Goal(page)
<1>0. Answered("loadFont")
  BY DEF FontAnswered
<1>1. /\ Aimed(Taken) /\ Right(Taken, g) /\ Right(Now, g) /\ Sane(Taken) /\ Good(Taken) /\ Face(Taken) /\ ReadsOne(Taken, Now)
      /\ Taken.page = page /\ Taken.prep = prep /\ m \in MessageType /\ m.re = "loadFont"
  BY <1>0, TakenAimed
<1>2. /\ Now.page = page /\ Now.prep = prep /\ Now.inbox = inbox /\ Face(Now)
      /\ inbox # << >> /\ inbox \in Seq(MessageType)
  BY <1>0, TakenFace DEF GoalInv
<1>3. j \in Places /\ m.ok \in BOOLEAN /\ m \in FontSays(j) /\ (m.ok => m = FontReply(j, TRUE))
  BY <1>1 DEF MessageType, FontSays, Places, FontReply
<1>4. Becomes(CASE j # 0 /\ m.ok -> PrepSucceeds(Taken, j)
                [] j # 0 /\ ~m.ok -> PrepFails(Taken, j)
                [] j = 0 /\ m.ok -> Painting(Taken)
                [] j = 0 /\ ~m.ok -> SyncFails(Taken))
  BY DEF FontAnswered
<1>5. At(inbox, FontSays(j)) # {}
  BY <1>2, <1>3, AtHead
<1>6. m.ok /\ Up(Now, j) => Has(Taken)
  BY <1>1, <1>2, <1>3 DEF ReadsOne
<1>7. g.look = page.choice.look
  BY DEF Goal
<1> HIDE DEF m, j
<1>8. Asked(Now, j)
  BY <1>2, <1>3, <1>5 DEF NoFont, Neither, Face, Calls
<1>9. CASE j # 0
  <2>1. j \in Preps
    BY <1>3, <1>9 DEF Places
  <2>2. Aimed(PrepFails(Taken, j)) /\ Good(PrepFails(Taken, j)) /\ Good(PrepSucceeds(Taken, j))
    BY <1>1, <2>1, PrepFailsAimed, PrepFailsOK, PrepSucceedsOK
  <2>3. ASSUME m.ok PROVE Aimed(PrepSucceeds(Taken, j))
    <3> HIDE DEF g
    <3>1. \A n \in DOMAIN prep[j].waiters : Wants(page, g, prep[j].waiters[n]) => Up(Now, j)
      BY <1>1, <1>2, <2>1 DEF Right, Waited
    <3>2. \A n \in DOMAIN prep[j].waiters : Wants(page, g, prep[j].waiters[n]) => Able(Taken)
      BY <1>6, <2>3, <3>1 DEF Able
    <3> QED
      BY <1>1, <2>1, <3>2, PrepSucceedsAimed DEF g
  <2>4. (m.ok /\ Becomes(PrepSucceeds(Taken, j))) \/ Becomes(PrepFails(Taken, j))
    BY <1>3, <1>4, <1>9
  <2> QED
    BY <2>2, <2>3, <2>4, BecomesAimed
<1>10. CASE j = 0
  <2>1. page.fontRun = "sync"
    BY <1>2, <1>8, <1>10 DEF Asked
  <2>2. Tokens(Taken, page.version) /\ Wished(page)
    BY <1>1 DEF Right, OnCourse
  <2> HIDE DEF g
  <2>3. Aimed(Painting(Taken)) /\ Aimed(SyncFails(Taken))
    BY <1>1, <1>7, <2>1, <2>2, PaintingRight, SyncFailsRight DEF Aimed
  <2>4. Good(Painting(Taken)) /\ Good(SyncFails(Taken))
    BY <1>1, PaintingOK, SyncFailsOK
  <2>5. Becomes(Painting(Taken)) \/ Becomes(SyncFails(Taken))
    BY <1>3, <1>4, <1>10
  <2> QED
    BY <2>3, <2>4, <2>5, BecomesAimed
<1> QED
  BY <1>9, <1>10

-----------------------------------------------------------------------------
\* The page remembers a key when the warm of its present version has ended well.
LEMMA RemembersAimed ==
  ASSUME NEW s, Good(s), Aimed(s), NEW p \in PageType, Shows(p, s.page), p.version = s.page.version,
         p.want = s.page.want, p.press = s.page.press, Fresh(s.worker, s.page.version, Goal(s.page))
  PROVE  LET t == [s EXCEPT !.page = p] IN Good(t) /\ Aimed(t)
<1> DEFINE t == [s EXCEPT !.page = p]
           g == Goal(s.page)
<1>1. Good(t) /\ t.page = p /\ SameQueues(t, s) /\ t.worker = s.worker /\ t.inbox = s.inbox
  BY PageOK DEF Good, States, SameQueues
<1>2. Right(s, g) /\ Fresh(s.worker, s.page.version, g)
  BY DEF Aimed
<1>3. Goal(p) = g
  BY ShowsGoal
<1> HIDE DEF t, g
<1>4. OnCourse(t, s.page.version, g, Wish(s.page))
  BY <1>1, <1>2 DEF Right, OnCourse, Tokens, SameQueues
<1>5. Wished(s.page) => Wished(t.page)
  BY <1>1, ShowsWished
<1>6. t.page.face = s.page.face
  BY <1>1 DEF Shows
<1>7. Rides(t, s)
  BY <1>1, <1>5, <1>6, PageRides
<1>8. Right(t, g)
  BY <1>2, <1>4, <1>7, RidesRight
<1> QED
  BY <1>1, <1>3, <1>8 DEF Aimed, t

LEMMA WarmAnsweredAimed ==
  ASSUME GoalInv, WarmAnswered
  PROVE  GoalParts'
<1> DEFINE m == Head(inbox)
           p == [Taken.page EXCEPT !.warmKey = m.key]
           t == [Taken EXCEPT !.page = p]
           s == CASE m.res = "error" -> ScheduleWarm(Taken)
                  [] m.res = "busy" /\ Current(m) -> ScheduleWarm(Taken)
                  [] m.res = "ready" /\ Current(m) -> t
                  [] OTHER -> Taken
<1>1. /\ Aimed(Taken) /\ Good(Taken) /\ m \in MessageType /\ m.re = "warm" /\ Taken.page = page /\ Taken.worker = worker
      /\ m.res = "ready" /\ m.tok = page.version => Fresh(worker, page.version, Goal(page))
  BY TakenAimed DEF WarmAnswered
<1>2. m.key \in Keys
  BY <1>1 DEF MessageType
<1>3. Becomes(WarmEnds(s))
  BY DEF WarmAnswered
<1> HIDE DEF m
<1>4. /\ p \in PageType /\ p.press = Taken.page.press /\ p.version = Taken.page.version /\ p.want = Taken.page.want
      /\ Shows(p, Taken.page)
  BY <1>1, <1>2 DEF Good, States, PageType, Shows
<1> HIDE DEF p
<1>5. m.res = "ready" /\ Current(m) => Aimed(t) /\ Good(t)
  <2>1. ASSUME m.res = "ready", Current(m) PROVE Fresh(Taken.worker, Taken.page.version, Goal(Taken.page))
    BY <1>1, <2>1 DEF Current
  <2> QED
    BY <1>1, <1>4, <2>1, RemembersAimed
<1> HIDE DEF t
<1>6. Aimed(ScheduleWarm(Taken)) /\ Good(ScheduleWarm(Taken))
  BY <1>1, ScheduleAimed, ScheduleWarmOK
<1>7. Aimed(s) /\ Good(s)
  BY <1>1, <1>5, <1>6
<1> HIDE DEF s
<1>8. Aimed(WarmEnds(s)) /\ Good(WarmEnds(s))
  BY <1>7, WarmEndsAimed, WarmEndsOK
<1> QED
  BY <1>3, <1>8, BecomesAimed

\* A file is of what the page wishes, and is saved as that.
LEMMA FileAnsweredAimed ==
  ASSUME GoalInv, FileAnswered
  PROVE  GoalParts'
<1> DEFINE m == Head(inbox)
           p == [Taken.page EXCEPT !.warmKey = NoKey]
           t == [Taken EXCEPT !.page = p]
<1>1. /\ Aimed(Taken) /\ Vacant(Taken) /\ Good(Taken) /\ Taken.page = page /\ MadeAs(m.made, Wish(page))
  BY TakenAimed DEF FileAnswered
<1>2. /\ p \in PageType /\ p.press = Taken.page.press /\ p.loaded = Taken.page.loaded /\ p.warmKey = NoKey
      /\ p.version = Taken.page.version /\ p.want = Taken.page.want /\ Shows(p, Taken.page)
  BY <1>1, DefaultType DEF Good, States, PageType, Shows
<1>3. t = [Taken EXCEPT !.page.warmKey = NoKey]
  OBVIOUS
<1>4. \/ Becomes(Unlock(Taken))
      \/ Turns(Unlock(t)) /\ saved' = [made |-> m.made, title |-> page.book, want |-> page.want]
  BY <1>3 DEF FileAnswered
<1> HIDE DEF p, m
<1>5. Vacant(t) /\ Good(t)
  BY <1>1, <1>2, SetPageKeeps, KeepsVacant DEF Vacant, Sane
<1>6. Aimed(t)
  BY <1>1, <1>2, SetPageAimed
<1> HIDE DEF t
<1>7. Aimed(Unlock(Taken)) /\ Good(Unlock(Taken))
  BY <1>1, UnlockRight, UnlockOK DEF Aimed
<1>8. Aimed(Unlock(t)) /\ Good(Unlock(t))
  BY <1>5, <1>6, UnlockRight, UnlockOK DEF Aimed
<1>9. CASE Becomes(Unlock(Taken))
  BY <1>7, <1>9, BecomesAimed
<1>10. CASE Turns(Unlock(t)) /\ saved' = [made |-> m.made, title |-> page.book, want |-> page.want]
  <2>1. Aimed(Now)'
    BY <1>8, <1>10, TurnsAimed
  <2>2. saved'.made = m.made /\ saved'.want = page.want
    BY <1>10
  <2>3. SavedLookIsChosen'
    BY <1>1, <2>2 DEF SavedLookIsChosen, MadeAs, As, Wish
  <2>4. SavedFaceIsCurrent'
    <3>1. SUFFICES ASSUME Custom(page.want), NEW x \in m.made PROVE x.font = "custom" /\ x.face = page.want.face
      BY <2>2 DEF SavedFaceIsCurrent, SavedFaceIsOwned, Custom
    <3>2. Wish(page).strict /\ Wish(page).face = page.want.face
      BY <3>1 DEF Wish
    <3> QED
      BY <1>1, <3>1, <3>2 DEF MadeAs, As
  <2> QED
    BY <2>1, <2>3, <2>4 DEF GoalParts
<1> QED
  BY <1>4, <1>9, <1>10

-----------------------------------------------------------------------------
\* The worker's own steps leave what was to be converted as it was, and the face with it.
LEMMA WorkerStepsTame ==
  ASSUME WarmInv, NEW ok \in BOOLEAN, WakeNext(ok) \/ BookRead(ok) \/ WarmStep(ok) \/ ExportStep(ok)
  PROVE  Tame(worker', worker) /\ (worker'.job.on => worker.job.on)
<1>1. Sound(worker) /\ worker \in WorkerType
  BY DEF WarmInv, Sound
<1>2. CASE WakeNext(ok)
  <2> DEFINE h == Head(worker.woken)
             w == [worker EXCEPT !.woken = Tail(worker.woken)]
             r == Resume(w, h, ok)
  <2>1. worker' = r.w /\ worker.woken \in Seq(HandlerType) /\ worker.woken # << >>
    BY <1>1, <1>2 DEF WakeNext, Works, WorkerType
  <2>2. h \in HandlerType /\ Tail(worker.woken) \in Seq(HandlerType) /\ 1 \in DOMAIN worker.woken /\ h = worker.woken[1]
    BY <2>1
  <2>3. /\ w \in WorkerType /\ w.book = worker.book /\ w.loads = worker.loads /\ w.spec = worker.spec
        /\ w.font = worker.font /\ w.job = worker.job
    BY <1>1, <2>2 DEF WorkerType
  <2>4. h.cmd = "exportBook" => worker.job.on
    BY <1>1, <2>2 DEF Sound, InTurn
  <2> HIDE DEF w, h
  <2>5. Tame(r.w, w)
    BY <2>2, <2>3, ResumeTame
  <2>6. h.cmd # "exportBook" => r.w.job.on = w.job.on
    BY <2>2, <2>3, ResumeAnswers DEF Silent
  <2> HIDE DEF r
  <2> QED
    BY <2>1, <2>3, <2>4, <2>5, <2>6 DEF Tame, Follows, Off
<1>3. CASE BookRead(ok)
  <2>1. worker' = LoadEnds(worker, ok).w /\ worker.loads # << >>
    BY <1>3 DEF BookRead, Works, Replacing
  <2> QED
    BY <1>1, <2>1, LoadEndsTame, LoadEndsSilent DEF Silent
<1>4. CASE WarmStep(ok)
  <2>1. worker' = WarmGoesOn(worker, ok).w
    BY <1>4 DEF WarmStep, Works
  <2> QED
    BY <1>1, <2>1, WarmGoesOnPlain, PlainTame, WarmGoesOnSilent DEF Silent
<1>5. CASE ExportStep(ok)
  <2>1. worker' = ExportGoesOn(worker, ok).w /\ worker.job.on
    BY <1>1, <1>5 DEF ExportStep, Works, Sound, Alone
  <2> QED
    BY <1>1, <2>1, ExportGoesOnPlain, PlainTame
<1> QED
  BY <1>2, <1>3, <1>4, <1>5

LEMMA WorkerStepsAimed ==
  ASSUME GoalInv, NEW ok \in BOOLEAN, WakeNext(ok) \/ BookRead(ok) \/ WarmStep(ok) \/ ExportStep(ok)
  PROVE  GoalParts'
<1> DEFINE g == Goal(page)
           h == Wish(page)
<1>1. /\ Right(Now, Goal(Now.page)) /\ Lock(Now) /\ WarmInv /\ Now.page = page /\ Now.worker = worker
      /\ page.version \in Nat /\ FaceInv
  BY DEF GoalInv, GoalParts, Aimed, FaceInv, LockInv, LockParts, WarmInv, InTypes, PageType, Now
<1>2. /\ OnCourse(Now, page.version, g, h) /\ Follows(worker) /\ Wished(page) /\ Exports(Now)
  BY <1>1 DEF Right
<1>3. ASSUME worker.woken # << >>, Head(worker.woken).cmd = "exportBook"
      PROVE  Draws(worker, Head(worker.woken).spec, h)
  <2>1. worker.woken \in Seq(HandlerType) /\ Sound(worker)
    BY <1>1 DEF WarmInv, Sound, WorkerType
  <2>2. 1 \in DOMAIN worker.woken /\ Head(worker.woken) = worker.woken[1]
    BY <1>3, <2>1
  <2>3. SpecAs(Head(worker.woken).spec, h)
    BY <1>1, <1>2, <1>3, <2>2 DEF OnCourse, Heeds, JobAs, ExportsAs
  <2>4. worker.job.on /\ worker.book \in Books
    BY <1>3, <2>1, <2>2 DEF Sound, InTurn, RunSound
  <2>5. page.press = "serial"
    BY <1>1, <2>4 DEF Lock
  <2>6. h.strict => worker.custom = h.face
    BY <1>1, <1>2, <2>4, <2>5 DEF Exports, Wish, Custom, Has, Wished
  <2>7. worker.spec.font = "custom" => worker.font = "custom"
    BY <1>2, <2>4 DEF Follows, Books, None
  <2> QED
    BY <2>3, <2>6, <2>7 DEF Draws
<1>4. worker' = Now'.worker /\ prep' = Now'.prep /\ micro' = Now'.micro /\ Now.prep = prep /\ Now.micro = micro
  BY DEF Now
<1> HIDE DEF g, h
<1>5. OnCourse(Now', page.version, g, h) /\ Now'.page = page /\ saved' = NoSave
  BY <1>1, <1>2, <1>3, WorkerStepsCourse
<1>6. Carries(Now', Now, {}, {})
  BY <1>1, WorkerStepsFace
<1>7. Tame(worker', worker) /\ (worker'.job.on => worker.job.on)
  BY <1>1, WorkerStepsTame
<1>8. prep' = prep /\ micro' = micro
  BY DEF WakeNext, BookRead, WarmStep, ExportStep, Works
<1>9. Rides(Now', Now)
  BY <1>1, <1>4, <1>5, <1>6, <1>7, <1>8 DEF Rides, SameQueues
<1>10. Right(Now', g)
  BY <1>1, <1>5, <1>9, RidesRight DEF g, h
<1>11. Aimed(Now')
  BY <1>5, <1>10 DEF Aimed, g
<1> QED
  BY <1>5, <1>11, NoSaveGoal DEF GoalParts

-----------------------------------------------------------------------------
LEMMA GoalInit ==
  Init => GoalInv
<1>1. SUFFICES ASSUME Init PROVE GoalParts
  BY FaceInit DEF GoalInv
<1>2. /\ page.version = 0 /\ page.press = "no" /\ page.warmKey = NoKey /\ prep = [i \in Preps |-> NoPrep]
      /\ micro = << >> /\ worker = NoWorker /\ inbox = << >> /\ saved = NoSave
  BY <1>1 DEF Init
<1>3. /\ NoWorker.warm = NoRun /\ NoWorker.job = NoRun /\ NoWorker.waiting = << >> /\ NoWorker.woken = << >>
      /\ ~NoRun.on /\ NoRun.done = 0 /\ NoPrep.waiters = << >> /\ NoWorker.book = None
  BY DEF NoWorker, NoRun, NoPrep
<1>4. /\ Now.page = page /\ Now.prep = prep /\ Now.micro = micro /\ Now.worker = worker /\ Now.inbox = inbox
  BY DEF Now
<1>5. \A i \in Preps : Now.prep[i].waiters = << >>
  BY <1>2, <1>3, <1>4
<1>6. ASSUME NEW g, NEW h PROVE OnCourse(Now, 0, g, h)
  <2>1. Tokens(Now, 0)
    <3> DEFINE S == Early(0)
               M == EarlyMicro(0)
    <3> HIDE DEF S, M
    <3>1. << >> \in Seq(S) /\ << >> \in Seq(M)
      OBVIOUS
    <3>2. (\A i \in Preps : Now.prep[i].waiters \in Seq(S)) /\ Now.micro \in Seq(M)
      BY <1>2, <1>4, <1>5, <3>1
    <3> QED
      BY <3>2 DEF Tokens, S, M
  <2>2. Heeds(Now.worker, 0, g, h)
    BY <1>2, <1>3, <1>4 DEF Heeds, WarmAs, JobAs, ExportsAs
  <2>3. Told(Now.inbox, 0, h) /\ ~Ripe(Now.inbox, 0) /\ Now.page.warmKey = NoKey
    BY <1>2, <1>4 DEF Told, Ripe
  <2> QED
    BY <2>1, <2>2, <2>3 DEF OnCourse
<1>7. Follows(Now.worker) /\ Exports(Now)
  BY <1>2, <1>3, <1>4 DEF Follows, Exports
<1>8. Wished(Now.page)
  BY <1>2, <1>4 DEF Wished
<1>9. ASSUME NEW g PROVE Waited(Now, g)
  BY <1>2, <1>4, <1>5 DEF Waited
<1>10. Aimed(Now)
  BY <1>2, <1>4, <1>6, <1>7, <1>8, <1>9 DEF Aimed, Right
<1>11. SavedLookIsChosen /\ SavedFaceIsCurrent
  BY <1>2 DEF SavedLookIsChosen, SavedFaceIsCurrent, SavedFaceIsOwned, NoSave, NoFile
<1> QED
  BY <1>10, <1>11 DEF GoalParts

LEMMA GoalStep ==
  GoalInv /\ [Next]_vars => GoalInv'
<1>1. SUFFICES ASSUME GoalInv, [Next]_vars PROVE GoalParts'
  BY FaceStep DEF GoalInv
<1>a. Pool \subseteq BOOLEAN /\ WarmInv
  BY <1>1, WarmAssumption DEF GoalInv, FaceInv, LockInv
<1>2. CASE Reader
  BY <1>1, <1>2, ReaderAimed
<1>3. CASE OpeningEnds \/ IdleTime
  BY <1>1, <1>3, OpeningAimed
<1>4. CASE Timers
  BY <1>1, <1>4, OutcomeType, FireWarmAimed DEF Timers
<1>5. CASE Conversion
  BY <1>1, <1>a, <1>5, OutcomeType, SetsAimed, ConvertStartsSets, FacePaintedSets, FontConvertedSets,
     FaceAcceptedAimed DEF Conversion
<1>6. CASE Ping
  BY <1>1, <1>a, <1>6, OutcomeType, PingReplyAimed DEF Ping
<1>7. CASE PoolEnds \/ EngineDies
  BY <1>1, <1>7, EndsAimed
<1>8. CASE Continues
  BY <1>1, <1>a, <1>8, OutcomeType, ContinueAimed DEF Continues
<1>9. CASE Answers
  BY <1>1, <1>9, OutcomeType, LoadAnsweredAimed, FontAnsweredAimed, WarmAnsweredAimed, FileAnsweredAimed DEF Answers
<1>10. CASE Wakes \/ Reads \/ Spine
  BY <1>1, <1>10, OutcomeType, WorkerStepsAimed DEF Wakes, Reads, Spine
<1>11. CASE UNCHANGED vars
  <2>1. Now' = Now /\ saved' = saved
    BY <1>11 DEF vars, Now
  <2> QED
    BY <1>1, <2>1 DEF GoalInv, GoalParts, SavedLookIsChosen, SavedFaceIsCurrent, SavedFaceIsOwned
<1> QED
  BY <1>1, <1>2, <1>3, <1>4, <1>5, <1>6, <1>7, <1>8, <1>9, <1>10, <1>11 DEF Next

LEMMA GoalHolds ==
  Spec => []GoalInv
BY GoalInit, GoalStep, PTL DEF Spec

-----------------------------------------------------------------------------
\* However warms are scheduled, fired, cancelled, tried again or fetched while the reader turns the
\* controls and the engine comes and goes, a file that is saved was made for the look on the screen
\* when it was asked for.
THEOREM SavedFilesHaveTheLook ==
  Spec => []SavedLookIsChosen
<1>1. GoalInv => SavedLookIsChosen
  BY DEF GoalInv, GoalParts
<1> QED
  BY <1>1, GoalHolds, PTL

\* A file asked for in the custom face, when no conversion of a face was due or under way and the
\* engine was ready or its preparation succeeded, is set in the face the page owned then, in all its
\* spines, whatever faces, openings and deaths of the engine came before and between.
THEOREM SavedFilesHaveTheFace ==
  Spec => []SavedFaceIsCurrent
<1>1. GoalInv => SavedFaceIsCurrent
  BY DEF GoalInv, GoalParts
<1> QED
  BY <1>1, GoalHolds, PTL

===============================================================================
