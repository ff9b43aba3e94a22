------------------------- MODULE PreviewSession_proofs -------------------------
(***************************************************************************)
(* Proofs about the reading session (web/app.js and web/ko.worker.js): for *)
(* any books, settings, cache and queue, what the worker believes of its   *)
(* engine is true, a cached frame is what the engine would paint, a late   *)
(* open never reaches the page, the worker ends with the book the page     *)
(* shows, and the position on the page is the one in the worker.           *)
(*                                                                         *)
(* WorkerOK is what every handler of the worker finds and leaves; one      *)
(* lemma per handler proves it.  SessionInv adds what the page, the queue  *)
(* of replacements and the messages on their way say together: the answer  *)
(* of the newest open is unique, about the last choice, and true of the    *)
(* worker, and no other step touches the book the worker has open.         *)
(* PositionInv says where the reader ends up when everything on its way    *)
(* has been heard.                                                         *)
(***************************************************************************)
EXTENDS PreviewSession, TLAPS

(***************************************************************************)
(* Types of what the worker keeps.                                         *)
(***************************************************************************)
Fonts        == {"kopub", "custom"}
SpecType     == Settings \cup {NoSpec}
KeyType      == [font : Fonts \cup {"none"}, layout : Layouts \cup {0}]
FaceType     == [font : Fonts \cup {"none"}, stamp : Int]
LookType     == [font : Fonts, face : Nat, layout : Layouts, tone : Tones]
LaidType     == [font : Fonts, face : Nat, layout : Layouts]
SectionType  == [spine : Spines, laid : LaidType, avail : Nat, done : BOOLEAN]
FrameKeyType == [gen : Nat, spine : Spines \cup {NoSpine}, page : Nat, spec : SpecType, stamp : Int]
FrameType    == [book : Books, spine : Spines, page : Nat, laid : LaidType, look : LookType]
EntryType    == [key : FrameKeyType, frame : FrameType]
TimerType    == [key : FrameKeyType, pages : Nat]
WorkerType ==
    [loaded : BOOLEAN, gen : Nat, custom : Nat, stamp : Nat, applied : FaceType,
     spec : SpecType, spine : Spines \cup {NoSpine}, pages : Nat, built : KeyType, builtStamp : Int,
     est : {"none", "partial", "complete"}, cont : Spines \cup {NoSpine}, timers : SUBSET TimerType,
     cache : Seq(EntryType), mounted : Books \cup {NoBook}, section : {NoSection} \cup SectionType,
     look : LookType]

LEMMA SpecFields ==
  ASSUME NEW spec \in SpecType
  PROVE  /\ spec.font \in Fonts \cup {"none"} /\ spec.layout \in Layouts \cup {0}
         /\ LayoutKey(spec) \in KeyType
         /\ spec \in Settings => spec.font \in Fonts /\ spec.layout \in Layouts /\ spec.tone \in Tones
<1>1. CASE spec \in Settings
  BY <1>1 DEF Settings, Fonts, LayoutKey, KeyType
<1>2. CASE spec = NoSpec
  <2>1. spec.font = "none" /\ spec.layout = 0
    BY <1>2 DEF NoSpec
  <2>2. spec \notin Settings
    BY <2>1 DEF Settings
  <2> QED
    BY <2>1, <2>2 DEF LayoutKey, KeyType
<1> QED
  BY <1>1, <1>2 DEF SpecType

LEMMA PageCountType ==
  ASSUME NEW b \in Books, NEW s \in 0 .. SpineCount[b] - 1, NEW l \in Layouts
  PROVE  PageCount[b][s][l] \in Nat /\ PageCount[b][s][l] >= 1 /\ s \in Spines /\ s \in Nat
<1>1. PageCount[b][s][l] \in Nat \ {0}
  BY PreviewAssumption
<1>2. s \in Spines
  BY DEF Spines
<1> QED
  BY <1>1, <1>2

(***************************************************************************)
(* What is true of the worker whenever a handler ends.                     *)
(***************************************************************************)
\* The engine's section, if it holds one, is a chapter of its book in the layout its look gives, with no
\* more pages than the chapter has; the worker of an open book knows which, how far it has come and
\* whether it is done.
Tracked(w) == w.section # NoSection =>
    w.section.spine = w.spine /\ w.section.avail = w.pages /\ w.section.done = (w.est = "complete")
SectionTrue(w) ==
    /\ w.section # NoSection =>
         /\ w.mounted \in Books /\ w.section.spine \in 0 .. SpineCount[w.mounted] - 1
         /\ w.section.laid = Laid(w.look)
         /\ w.section.avail <= PageCount[w.mounted][w.section.spine][w.look.layout]
    /\ w.loaded => Tracked(w)

FaceTrue(w) ==
    w.applied # NoFace /\ w.applied.stamp = w.stamp =>
       w.look.font = w.applied.font /\ (w.look.font = "custom" => w.look.face = w.custom)

\* A cached frame whose key is of now is what the engine would paint.
Current(w, c) ==
    c.key.gen = w.gen /\ c.key.spec = w.spec /\ c.key.stamp = w.stamp =>
       c.frame = [book |-> w.mounted, spine |-> c.key.spine, page |-> c.key.page,
                  laid |-> Laid(w.look), look |-> w.look]
CacheTrue(w) == \A i \in DOMAIN w.cache : Current(w, w.cache[i])

\* No timer is of a later book, and none is of this one before it has opened.
TimersTrue(w) == \A t \in w.timers : t.key.gen <= w.gen /\ (~w.loaded => t.key.gen < w.gen)

Idle(w) == ~w.loaded => w.cache = << >> /\ w.cont = NoSpine
Held(w) == w.loaded => w.mounted \in Books /\ w.spec \in Settings

WorkerOK(w) ==
    /\ w \in WorkerType /\ SectionTrue(w) /\ FaceTrue(w) /\ CacheTrue(w) /\ TimersTrue(w)
    /\ Idle(w) /\ Held(w) /\ Len(w.cache) <= CacheSize

\* A replacement has begun and its file is not open yet.
Begun(w) == ~w.loaded /\ w.applied = NoFace

-----------------------------------------------------------------------------
(***************************************************************************)
(* The parts of the handlers.                                              *)
(***************************************************************************)
LEMMA BeginFields ==
  ASSUME NEW w \in WorkerType
  PROVE  LET v == Begin(w)
         IN  /\ v \in WorkerType
             /\ v.loaded = FALSE /\ v.gen = w.gen + 1 /\ v.custom = w.custom /\ v.stamp = w.stamp
             /\ v.applied = NoFace /\ v.spec = w.spec /\ v.spine = NoSpine /\ v.pages = 0 /\ v.cont = NoSpine
             /\ v.timers = w.timers /\ v.cache = << >> /\ v.mounted = w.mounted /\ v.section = w.section
             /\ v.look = w.look
<1>1. NoSpine \in Spines \cup {NoSpine} /\ NoFace \in FaceType /\ LayoutKey(NoSpec) \in KeyType
  BY DEF NoFace, FaceType, LayoutKey, NoSpec, KeyType
<1> DEFINE v == Begin(w)
<1>2. /\ v.loaded = FALSE /\ v.gen = w.gen + 1 /\ v.custom = w.custom /\ v.stamp = w.stamp
      /\ v.applied = NoFace /\ v.spec = w.spec /\ v.spine = NoSpine /\ v.pages = 0 /\ v.cont = NoSpine
      /\ v.timers = w.timers /\ v.cache = << >> /\ v.mounted = w.mounted /\ v.section = w.section
      /\ v.look = w.look
  BY DEF WorkerType, Begin
<1>3. w.gen + 1 \in Nat /\ << >> \in Seq(EntryType) /\ 0 \in Nat /\ -1 \in Int /\ FALSE \in BOOLEAN
  BY DEF WorkerType
<1>5. v \in WorkerType
  BY <1>1, <1>3 DEF WorkerType, Begin
<1> QED
  BY <1>2, <1>5

LEMMA BeginOK ==
  ASSUME NEW w, WorkerOK(w)
  PROVE  WorkerOK(Begin(w)) /\ Begun(Begin(w)) /\ Begin(w).mounted = w.mounted
<1> DEFINE v == Begin(w)
<1>1. w \in WorkerType /\ w.gen \in Nat
  BY DEF WorkerOK, WorkerType
<1>2. /\ v \in WorkerType
      /\ v.loaded = FALSE /\ v.gen = w.gen + 1 /\ v.custom = w.custom /\ v.stamp = w.stamp
      /\ v.applied = NoFace /\ v.spec = w.spec /\ v.spine = NoSpine /\ v.pages = 0 /\ v.cont = NoSpine
      /\ v.timers = w.timers /\ v.cache = << >> /\ v.mounted = w.mounted /\ v.section = w.section
      /\ v.look = w.look
  BY <1>1, BeginFields
<1> HIDE DEF v
<1>3. SectionTrue(v) /\ FaceTrue(v) /\ Idle(v) /\ Held(v)
  BY <1>2 DEF WorkerOK, SectionTrue, FaceTrue, Idle, Held
<1>4. CacheTrue(v) /\ Len(v.cache) <= CacheSize
  BY <1>2, PreviewAssumption DEF CacheTrue
<1>5. TimersTrue(v)
  <2>1. \A t \in w.timers : t.key.gen \in Nat /\ t.key.gen <= w.gen
    BY <1>1 DEF WorkerOK, TimersTrue, WorkerType, TimerType, FrameKeyType
  <2> QED
    BY <1>1, <1>2, <2>1 DEF TimersTrue
<1> QED
  BY <1>2, <1>3, <1>4, <1>5 DEF WorkerOK, Begun, v

\* The engine gets another book, or none; the face of the old one is gone.
LEMMA MountOK ==
  ASSUME NEW w, WorkerOK(w), Begun(w), NEW b \in Books \cup {NoBook}
  PROVE  /\ WorkerOK(Mount(w, b)) /\ Begun(Mount(w, b)) /\ Mount(w, b).mounted = b
         /\ Mount(w, b).gen = w.gen
<1> DEFINE look == IF w.look.font = "custom" THEN [w.look EXCEPT !.font = "kopub", !.face = 0] ELSE w.look
           v == Mount(w, b)
<1>1. w \in WorkerType /\ w.look \in LookType
  BY DEF WorkerOK, WorkerType
<1>2. look \in LookType
  BY <1>1 DEF LookType, Fonts
<1>3. v = [w EXCEPT !.mounted = b, !.section = NoSection, !.look = look]
  BY DEF Mount
<1> HIDE DEF look, v
<1>4. /\ v \in WorkerType /\ v.mounted = b /\ v.section = NoSection /\ v.look = look
      /\ v.loaded = w.loaded /\ v.gen = w.gen /\ v.applied = w.applied /\ v.cache = w.cache
      /\ v.timers = w.timers /\ v.cont = w.cont
  BY <1>1, <1>2, <1>3 DEF WorkerType
<1>5. Begun(v) /\ FaceTrue(v) /\ SectionTrue(v)
  BY <1>4 DEF Begun, FaceTrue, SectionTrue, Tracked
<1>6. v.cache = << >> /\ Idle(v) /\ Held(v) /\ CacheTrue(v) /\ TimersTrue(v) /\ Len(v.cache) <= CacheSize
  BY <1>4 DEF WorkerOK, Begun, Idle, Held, CacheTrue, TimersTrue
<1> QED
  BY <1>4, <1>5, <1>6 DEF WorkerOK, v

\* The settings of a request reach the engine: a face that is believed to be active is active.
LEMMA ApplySpecOK ==
  ASSUME NEW w, WorkerOK(w), NEW spec \in Settings, spec # w.spec \/ w.cache = << >>
  PROVE  LET v == ApplySpec(w, spec)
         IN  /\ WorkerOK(v) /\ v.spec = spec /\ v.loaded = w.loaded /\ v.mounted = w.mounted
             /\ v.gen = w.gen /\ v.cont = w.cont
<1> DEFINE active == [font |-> spec.font, stamp |-> w.stamp]
           given == IF spec.font = "custom" THEN w.custom ELSE 0
           look == [font   |-> IF w.applied = active THEN w.look.font ELSE spec.font,
                    face   |-> IF w.applied = active THEN w.look.face ELSE given,
                    layout |-> spec.layout, tone |-> spec.tone]
           section == IF Laid(look) = Laid(w.look) THEN w.section ELSE NoSection
           cache == IF spec = w.spec THEN w.cache ELSE << >>
           v == ApplySpec(w, spec)
<1>1. /\ w \in WorkerType /\ w.look \in LookType /\ w.stamp \in Nat /\ w.custom \in Nat
      /\ w.section \in {NoSection} \cup SectionType
  BY DEF WorkerOK, WorkerType
<1>2. /\ spec \in SpecType /\ spec.font \in Fonts /\ spec.layout \in Layouts /\ spec.tone \in Tones
      /\ active \in FaceType /\ active # NoFace
  <2>1. spec \in SpecType
    BY DEF SpecType
  <2>2. spec.font \in Fonts /\ spec.layout \in Layouts /\ spec.tone \in Tones
    BY <2>1, SpecFields
  <2> QED
    BY <1>1, <2>1, <2>2 DEF FaceType, NoFace, Fonts
<1>3. look \in LookType
  BY <1>1, <1>2 DEF LookType
<1>4. v = [w EXCEPT !.spec = spec, !.applied = active, !.look = look, !.section = section, !.cache = cache]
  BY DEF ApplySpec
<1>6. look.font = active.font /\ (look.font = "custom" => look.face = w.custom)
  BY <1>2 DEF WorkerOK, FaceTrue
<1>7. cache = << >>
  <2> HIDE DEF look, section, active, given, v
  <2> QED
    OBVIOUS
<1>8. section = NoSection \/ (section = w.section /\ Laid(look) = Laid(w.look))
  <2> HIDE DEF look, active, given, v
  <2> QED
    OBVIOUS
<1>9. << >> \in Seq(EntryType)
  OBVIOUS
<1> HIDE DEF active, look, section, cache, v
<1>10. /\ v \in WorkerType /\ v.spec = spec /\ v.applied = active /\ v.look = look /\ v.section = section
       /\ v.cache = << >> /\ v.loaded = w.loaded /\ v.gen = w.gen /\ v.stamp = w.stamp
       /\ v.custom = w.custom /\ v.mounted = w.mounted /\ v.timers = w.timers /\ v.cont = w.cont
       /\ v.spine = w.spine /\ v.pages = w.pages /\ v.est = w.est
  BY <1>1, <1>2, <1>3, <1>4, <1>7, <1>8, <1>9 DEF WorkerType
<1>11. SectionTrue(v)
  <2>1. section # NoSection => section = w.section /\ Laid(look) = Laid(w.look) /\ look.layout = w.look.layout
    BY <1>8 DEF Laid
  <2> QED
    BY <1>10, <2>1 DEF WorkerOK, SectionTrue, Tracked
<1>12. FaceTrue(v)
  BY <1>6, <1>10 DEF FaceTrue
<1>13. CacheTrue(v) /\ TimersTrue(v) /\ Idle(v) /\ Held(v) /\ Len(v.cache) <= CacheSize
  BY <1>10, PreviewAssumption DEF WorkerOK, CacheTrue, TimersTrue, Idle, Held
<1> QED
  BY <1>10, <1>11, <1>12, <1>13 DEF WorkerOK, v

\* What a frame is checked against has not changed.
LEMMA CacheKept ==
  ASSUME NEW w, CacheTrue(w), NEW v, v.cache = w.cache, v.gen = w.gen, v.spec = w.spec, v.stamp = w.stamp,
         v.mounted = w.mounted, v.look = w.look
  PROVE  CacheTrue(v)
BY DEF CacheTrue, Current

\* The first page of a chapter, or all of it.
LEMMA BuildOK ==
  ASSUME NEW w, WorkerOK(w), w.mounted \in Books, NEW spine \in 0 .. SpineCount[w.mounted] - 1,
         NEW whole \in BOOLEAN
  PROVE  LET v == Build(w, spine, whole)
         IN  /\ WorkerOK(v) /\ Tracked(v) /\ v.section # NoSection /\ v.spine = spine
             /\ v.section.avail >= 1 /\ v.loaded = w.loaded /\ v.mounted = w.mounted /\ v.gen = w.gen
             /\ v.spec = w.spec /\ v.stamp = w.stamp /\ v.look = w.look
             /\ v.builtStamp = w.stamp /\ v.cache = w.cache /\ v.applied = w.applied
<1> DEFINE total == PageCount[w.mounted][spine][w.look.layout]
           n == IF whole THEN total ELSE 1
           section == [spine |-> spine, laid |-> Laid(w.look), avail |-> n, done |-> n = total]
           cont == IF whole THEN w.cont ELSE NoSpine
           est == IF n = total THEN "complete" ELSE "partial"
           built == LayoutKey(w.spec)
           v == Build(w, spine, whole)
<1>1. w \in WorkerType /\ w.look \in LookType /\ w.spec \in SpecType /\ w.stamp \in Int
  BY DEF WorkerOK, WorkerType
<1>2. w.look.layout \in Layouts /\ Laid(w.look) \in LaidType
  BY <1>1 DEF LookType, Laid, LaidType
<1>3. total \in Nat /\ total >= 1 /\ spine \in Spines /\ spine \in Nat
  BY <1>2, PageCountType
<1> HIDE DEF total
<1>4. n \in Nat /\ n >= 1
  BY <1>3
<1>5. (n = total) \in BOOLEAN /\ (n = total) = (est = "complete")
  OBVIOUS
<1>6. section \in SectionType /\ section # NoSection
  <2>1. section.spine # NoSpine /\ NoSection.spine = NoSpine
    BY <1>3 DEF NoSpine, NoSection
  <2> QED
    BY <1>2, <1>3, <1>4, <2>1 DEF SectionType
<1>7. cont \in Spines \cup {NoSpine} /\ est \in {"none", "partial", "complete"} /\ built \in KeyType
  BY <1>1, SpecFields DEF WorkerType
<1>8. v = [w EXCEPT !.section = section, !.spine = spine, !.pages = n, !.cont = cont, !.built = built,
                    !.builtStamp = w.stamp, !.est = est]
  BY DEF Build, total
<1>9. section.spine = spine /\ section.avail = n /\ section.done = (est = "complete")
      /\ section.laid = Laid(w.look) /\ section.avail <= PageCount[w.mounted][spine][w.look.layout]
  BY <1>3, <1>5 DEF total
<1>10. w.loaded \/ cont = NoSpine
  BY DEF WorkerOK, Idle
<1> HIDE DEF n, section, cont, est, built, v
<1>11. /\ v \in WorkerType /\ v.section = section /\ v.spine = spine /\ v.pages = n /\ v.est = est
       /\ v.cont = cont /\ v.builtStamp = w.stamp /\ v.loaded = w.loaded /\ v.gen = w.gen
       /\ v.custom = w.custom /\ v.stamp = w.stamp /\ v.applied = w.applied /\ v.spec = w.spec
       /\ v.timers = w.timers /\ v.cache = w.cache /\ v.mounted = w.mounted /\ v.look = w.look
  BY <1>1, <1>3, <1>4, <1>6, <1>7, <1>8 DEF WorkerType
<1>12. SectionTrue(v) /\ Tracked(v)
  BY <1>9, <1>11 DEF SectionTrue, Tracked
<1>13. FaceTrue(v) /\ CacheTrue(v)
  BY <1>11, CacheKept DEF WorkerOK, FaceTrue
<1>14. TimersTrue(v) /\ Idle(v) /\ Held(v) /\ Len(v.cache) <= CacheSize
  BY <1>10, <1>11 DEF WorkerOK, TimersTrue, Idle, Held
<1> QED
  BY <1>4, <1>6, <1>9, <1>11, <1>12, <1>13, <1>14 DEF WorkerOK, v

ToldType == [kind : {"progress", "sectionError"}, gen : Nat, spine : Spines \cup {NoSpine},
             pages : Nat, done : BOOLEAN]

LEMMA SectionDone ==
  ASSUME NEW x \in {NoSection} \cup SectionType
  PROVE  x.done \in BOOLEAN
<1>1. CASE x = NoSection
  BY <1>1 DEF NoSection
<1>2. CASE x \in SectionType
  BY <1>2 DEF SectionType
<1> QED
  BY <1>1, <1>2

\* What a turn of the continuation leaves alone.
Kept(v, w) ==
  /\ v.loaded = w.loaded /\ v.mounted = w.mounted /\ v.gen = w.gen /\ v.spec = w.spec
  /\ v.stamp = w.stamp /\ v.custom = w.custom /\ v.applied = w.applied /\ v.look = w.look
  /\ v.timers = w.timers /\ v.cache = w.cache /\ v.spine = w.spine

\* What a turn of the continuation posts is true of the chapter it leaves, which is no shorter.
Says(n, w) ==
  /\ n.kind \in {"progress", "sectionError"} /\ n.gen = w.gen /\ n.spine = w.spine /\ n.pages <= w.pages
  /\ n.kind = "progress" => n.pages = w.pages /\ n.done = (w.est = "complete")
Grown(v, w, out) ==
  /\ v.gen = w.gen /\ v.mounted = w.mounted /\ v.spine = w.spine /\ w.pages <= v.pages
  /\ \/ out = << >> /\ v.pages = w.pages /\ v.est = w.est
     \/ \E n \in ToldType : out = <<n>> /\ Says(n, v)

\* The chapter grows, is finished, or is lost.
LEMMA MoreOK ==
  ASSUME NEW w, WorkerOK(w), NEW ok \in BOOLEAN
  PROVE  LET r == More(w, ok)
         IN  /\ WorkerOK(r.w) /\ Kept(r.w, w) /\ r.out \in Seq(ToldType)
             /\ w.loaded => Grown(r.w, w, r.out)
<1> DEFINE total == PageCount[w.mounted][w.section.spine][w.look.layout]
           n == IF w.section.avail + Chunk < total THEN w.section.avail + Chunk ELSE total
           told(kind, v) == <<[kind |-> kind, gen |-> w.gen, spine |-> w.spine,
                               pages |-> v.pages, done |-> v.section.done]>>
           stops == [w EXCEPT !.cont = NoSpine]
           ends  == [w EXCEPT !.cont = NoSpine, !.est = "complete"]
           fails == [w EXCEPT !.cont = NoSpine, !.est = "partial", !.section = NoSection]
           est == IF n = total THEN "complete" ELSE "partial"
           cont == IF n = total THEN NoSpine ELSE w.cont
           section == [w.section EXCEPT !.avail = n, !.done = (n = total)]
           grows == [w EXCEPT !.section = section, !.pages = n, !.est = est, !.cont = cont]
           r == More(w, ok)
<1>1. /\ w \in WorkerType /\ w.gen \in Nat /\ w.spine \in Spines \cup {NoSpine} /\ w.look \in LookType
      /\ w.section \in {NoSection} \cup SectionType /\ w.cont \in Spines \cup {NoSpine}
  BY DEF WorkerOK, WorkerType
<1>1a. w.pages \in Nat
  BY DEF WorkerOK, WorkerType
<1>2. /\ SectionTrue(w) /\ FaceTrue(w) /\ CacheTrue(w) /\ TimersTrue(w) /\ Idle(w) /\ Held(w)
      /\ Len(w.cache) <= CacheSize
  BY DEF WorkerOK
<1>3. ASSUME NEW kind \in {"progress", "sectionError"}, NEW v \in WorkerType
      PROVE  told(kind, v) \in Seq(ToldType)
  <2>0. v.pages \in Nat /\ v.section \in {NoSection} \cup SectionType
    BY DEF WorkerType
  <2>1. v.pages \in Nat /\ v.section.done \in BOOLEAN
    BY <2>0, SectionDone
  <2>2. [kind |-> kind, gen |-> w.gen, spine |-> w.spine, pages |-> v.pages, done |-> v.section.done]
          \in ToldType
    BY <1>1, <2>1 DEF ToldType
  <2> QED
    BY <2>2
<1>3a. ASSUME NEW kind \in {"progress", "sectionError"}, NEW v \in WorkerType, Kept(v, w), w.pages <= v.pages,
              kind = "progress" => v.section.done = (v.est = "complete")
       PROVE  Grown(v, w, told(kind, v))
  <2> DEFINE m == [kind |-> kind, gen |-> w.gen, spine |-> w.spine, pages |-> v.pages, done |-> v.section.done]
  <2>1. v.pages \in Nat /\ v.section \in {NoSection} \cup SectionType
    BY DEF WorkerType
  <2>2. v.section.done \in BOOLEAN
    BY <2>1, SectionDone
  <2>3. m \in ToldType
    BY <1>1, <2>1, <2>2 DEF ToldType
  <2>4. Says(m, v)
    BY <1>3a, <2>1 DEF Says, Kept
  <2>5. told(kind, v) = <<m>>
    OBVIOUS
  <2> HIDE DEF m, told
  <2> QED
    BY <1>3a, <2>3, <2>4, <2>5 DEF Grown, Kept
<1>4. ASSUME NEW v \in WorkerType, Kept(v, w), v.cont \in {w.cont, NoSpine}, SectionTrue(v)
      PROVE  WorkerOK(v)
  <2>1. FaceTrue(v) /\ TimersTrue(v) /\ Held(v) /\ Len(v.cache) <= CacheSize
    BY <1>2, <1>4 DEF Kept, FaceTrue, TimersTrue, Held
  <2>2. CacheTrue(v)
    BY <1>2, <1>4, CacheKept DEF Kept
  <2>3. Idle(v)
    BY <1>2, <1>4 DEF Kept, Idle
  <2> QED
    BY <1>4, <2>1, <2>2, <2>3 DEF WorkerOK
<1>5. /\ stops \in WorkerType /\ Kept(stops, w) /\ stops.cont = NoSpine /\ SectionTrue(stops)
      /\ stops.pages = w.pages /\ stops.est = w.est
  <2>1. /\ stops \in WorkerType /\ Kept(stops, w) /\ stops.cont = NoSpine /\ stops.section = w.section
        /\ stops.pages = w.pages /\ stops.est = w.est
    BY <1>1 DEF WorkerType, Kept
  <2> HIDE DEF stops
  <2> QED
    BY <1>2, <2>1 DEF SectionTrue, Tracked, Kept
<1>6. /\ fails \in WorkerType /\ Kept(fails, w) /\ fails.cont = NoSpine /\ SectionTrue(fails)
      /\ fails.pages = w.pages
  <2>1. /\ fails \in WorkerType /\ Kept(fails, w) /\ fails.cont = NoSpine /\ fails.section = NoSection
        /\ fails.pages = w.pages
    BY <1>1 DEF WorkerType, Kept
  <2> HIDE DEF fails
  <2> QED
    BY <2>1 DEF SectionTrue, Tracked
<1>7. ASSUME w.section.done = TRUE
      PROVE  /\ ends \in WorkerType /\ Kept(ends, w) /\ ends.cont = NoSpine /\ SectionTrue(ends)
             /\ ends.pages = w.pages /\ ends.section.done = TRUE /\ ends.est = "complete"
  <2>1. /\ ends \in WorkerType /\ Kept(ends, w) /\ ends.cont = NoSpine /\ ends.section = w.section
        /\ ends.pages = w.pages /\ ends.est = "complete"
    BY <1>1 DEF WorkerType, Kept
  <2> HIDE DEF ends
  <2> QED
    BY <1>2, <1>7, <2>1 DEF SectionTrue, Tracked, Kept
<1>8. ASSUME w.section # NoSection, w.cont = w.spine
      PROVE  /\ grows \in WorkerType /\ Kept(grows, w) /\ grows.cont \in {w.cont, NoSpine}
             /\ SectionTrue(grows) /\ grows.section.done = (grows.est = "complete")
             /\ w.section.avail <= grows.pages
             /\ grows = [w EXCEPT !.section.avail = n, !.section.done = (n = total), !.pages = n,
                                  !.est = est, !.cont = cont]
  <2>1. w.section \in SectionType
    BY <1>1, <1>8
  <2>2. w.mounted \in Books /\ w.section.spine \in 0 .. SpineCount[w.mounted] - 1 /\ w.look.layout \in Layouts
    BY <1>1, <1>2, <1>8 DEF SectionTrue, LookType
  <2>3. total \in Nat /\ w.section.avail \in Nat /\ Chunk \in Nat
    BY <2>1, <2>2, PageCountType, PreviewAssumption DEF SectionType
  <2>3a. w.section.avail <= total
    BY <1>2, <1>8 DEF SectionTrue
  <2> HIDE DEF total
  <2>4. n \in Nat /\ n <= total /\ w.section.avail <= n
    BY <2>3, <2>3a
  <2>5. grows = [w EXCEPT !.section.avail = n, !.section.done = (n = total), !.pages = n,
                          !.est = est, !.cont = cont]
    BY <1>1, <2>1 DEF WorkerType, SectionType
  <2> HIDE DEF n
  <2>6. /\ section \in SectionType /\ section.spine = w.section.spine /\ section.laid = w.section.laid
        /\ section.avail = n /\ section.done = (n = total)
    BY <2>1, <2>4 DEF SectionType
  <2>7. est \in {"none", "partial", "complete"} /\ (n = total) = (est = "complete")
        /\ cont \in {w.cont, NoSpine} /\ cont \in Spines \cup {NoSpine}
    BY <1>1
  <2> HIDE DEF section, est, cont
  <2>8. /\ grows \in WorkerType /\ Kept(grows, w) /\ grows.cont = cont /\ grows.section = section
        /\ grows.pages = n /\ grows.est = est
    BY <1>1, <2>4, <2>6, <2>7 DEF WorkerType, Kept
  <2> HIDE DEF grows
  <2>9. SectionTrue(grows)
    <3>1. grows.section.avail <= PageCount[grows.mounted][grows.section.spine][grows.look.layout]
      BY <2>4, <2>6, <2>8 DEF Kept, total
    <3> QED
      BY <1>2, <1>8, <2>6, <2>7, <2>8, <3>1 DEF SectionTrue, Tracked, Kept
  <2> QED
    BY <2>4, <2>5, <2>6, <2>7, <2>8, <2>9
<1> HIDE DEF told, stops, ends, fails, grows, est, cont, n, total
<1>9. CASE w.cont # w.spine
  <2>1. r = [w |-> stops, out |-> << >>]
    BY <1>9 DEF More, stops
  <2>2. Grown(stops, w, << >>)
    BY <1>1, <1>5 DEF Grown, Kept, WorkerType
  <2> QED
    BY <1>4, <1>5, <2>1, <2>2
<1>10. CASE w.cont = w.spine /\ w.section.done = TRUE
  <2>1. r = [w |-> ends, out |-> told("progress", ends)]
    BY <1>10 DEF More, ends, told
  <2>2. ends \in WorkerType /\ WorkerOK(ends) /\ Kept(ends, w)
    BY <1>4, <1>7, <1>10
  <2>3. Grown(ends, w, told("progress", ends))
    <3>0. ends.pages = w.pages
      BY <1>7, <1>10
    <3>1. w.pages <= ends.pages
      BY <1>1a, <3>0
    <3>2. ends.section.done = (ends.est = "complete")
      BY <1>7, <1>10
    <3> QED
      BY <1>3a, <2>2, <3>1, <3>2
  <2> QED
    BY <1>3, <2>1, <2>2, <2>3
<1>11. CASE w.cont = w.spine /\ w.section.done = FALSE /\ ok /\ w.section # NoSection
  <2>1. r = [w |-> grows, out |-> told("progress", grows)]
    BY <1>8, <1>11 DEF More, told, n, total, est, cont
  <2>2. grows \in WorkerType /\ WorkerOK(grows) /\ Kept(grows, w)
    BY <1>4, <1>8, <1>11
  <2>3. w.loaded => Grown(grows, w, told("progress", grows))
    <3>1. w.loaded => w.pages <= grows.pages
      BY <1>2, <1>8, <1>11 DEF SectionTrue, Tracked
    <3> QED
      BY <1>3a, <1>8, <1>11, <2>2, <3>1
  <2> QED
    BY <1>3, <2>1, <2>2, <2>3
<1>12. CASE w.cont = w.spine /\ w.section.done = FALSE /\ ~(ok /\ w.section # NoSection)
  <2>1. r = [w |-> fails, out |-> told("sectionError", fails)]
    BY <1>12 DEF More, fails, told
  <2>2. fails \in WorkerType /\ WorkerOK(fails) /\ Kept(fails, w)
    BY <1>4, <1>6
  <2>3. Grown(fails, w, told("sectionError", fails))
    <3>1. w.pages <= fails.pages
      BY <1>1, <1>6 DEF WorkerType
    <3> QED
      BY <1>3a, <2>2, <3>1
  <2> QED
    BY <1>3, <2>1, <2>2, <2>3
<1>13. w.section.done \in BOOLEAN
  BY <1>1, SectionDone
<1> QED
  BY <1>9, <1>10, <1>11, <1>12, <1>13

-----------------------------------------------------------------------------
(***************************************************************************)
(* The cache of frames and the timers.                                     *)
(***************************************************************************)
LEMMA RemoveAtOK ==
  ASSUME NEW S, NEW s \in Seq(S), NEW i \in DOMAIN s
  PROVE  LET r == RemoveAt(s, i)
         IN  /\ r \in Seq(S) /\ Len(r) <= Len(s)
             /\ \A j \in DOMAIN r : \E k \in DOMAIN s : r[j] = s[k]
<1> DEFINE a == SubSeq(s, 1, i - 1)
           b == SubSeq(s, i + 1, Len(s))
<1>1. i \in 1 .. Len(s) /\ Len(s) \in Nat
  OBVIOUS
<1>2. a \in Seq(S) /\ Len(a) = i - 1 /\ \A j \in 1 .. i - 1 : a[j] = s[j]
  BY <1>1
<1>3. b \in Seq(S) /\ Len(b) = Len(s) - i /\ \A j \in 1 .. Len(s) - i : b[j] = s[i + j]
  BY <1>1
<1> HIDE DEF a, b
<1>4. a \o b \in Seq(S) /\ Len(a \o b) = Len(s) - 1
  BY <1>1, <1>2, <1>3
<1>5. ASSUME NEW j \in 1 .. Len(s) - 1
      PROVE  \E k \in DOMAIN s : (a \o b)[j] = s[k]
  <2>1. CASE j <= i - 1
    <3>1. (a \o b)[j] = s[j] /\ j \in DOMAIN s
      BY <1>1, <1>2, <1>3, <2>1
    <3> QED
      BY <3>1
  <2>2. CASE j > i - 1
    <3>1. (a \o b)[j] = b[j - (i - 1)] /\ j - (i - 1) \in 1 .. Len(s) - i
      BY <1>1, <1>2, <1>3, <2>2
    <3>2. b[j - (i - 1)] = s[j + 1] /\ j + 1 \in DOMAIN s
      BY <1>1, <1>3, <3>1
    <3> QED
      BY <3>1, <3>2
  <2>3. j <= i - 1 \/ j > i - 1
    BY <1>1
  <2> QED
    BY <2>1, <2>2, <2>3
<1>6. DOMAIN (a \o b) = 1 .. Len(s) - 1 /\ Len(s) - 1 <= Len(s)
  BY <1>1, <1>4
<1>7. RemoveAt(s, i) = a \o b
  BY DEF RemoveAt, a, b
<1> HIDE DEF RemoveAt
<1> QED
  BY <1>4, <1>5, <1>6, <1>7

LEMMA SuffixOK ==
  ASSUME NEW S, NEW s \in Seq(S), NEW k \in Nat, k <= Len(s)
  PROVE  LET r == SubSeq(s, k + 1, Len(s))
         IN  r \in Seq(S) /\ Len(r) = Len(s) - k /\ \A j \in 1 .. Len(s) - k : r[j] = s[k + j]
<1>1. PICK n \in Nat : n = Len(s)
  OBVIOUS
<1>2. SubSeq(s, k + 1, n) \in Seq(S)
  BY <1>1
<1>3. Len(SubSeq(s, k + 1, n)) = n - k
  <2>1. CASE k + 1 <= n
    BY <1>1, <2>1
  <2>2. CASE k = n
    <3>1. SubSeq(s, k + 1, n) = << >>
      BY <1>1, <2>2
    <3> QED
      BY <1>1, <2>2, <3>1
  <2>3. k + 1 <= n \/ k = n
    BY <1>1
  <2> QED
    BY <2>1, <2>2, <2>3
<1>4. \A j \in 1 .. n - k : SubSeq(s, k + 1, n)[j] = s[k + j]
  BY <1>1, SMTT(30)
<1> QED
  BY <1>1, <1>2, <1>3, <1>4

\* Everything but the frames, the timers and the continuation.
Alike(v, w) ==
  /\ v.loaded = w.loaded /\ v.mounted = w.mounted /\ v.gen = w.gen /\ v.spec = w.spec
  /\ v.stamp = w.stamp /\ v.custom = w.custom /\ v.applied = w.applied /\ v.look = w.look
  /\ v.spine = w.spine /\ v.pages = w.pages /\ v.est = w.est /\ v.section = w.section
  /\ v.built = w.built /\ v.builtStamp = w.builtStamp

LEMMA AlikeOK ==
  ASSUME NEW w, WorkerOK(w), NEW v \in WorkerType, Alike(v, w), CacheTrue(v), TimersTrue(v), Idle(v),
         Len(v.cache) <= CacheSize
  PROVE  WorkerOK(v)
<1>1. SectionTrue(v)
  BY DEF WorkerOK, Alike, SectionTrue, Tracked
<1>2. FaceTrue(v) /\ Held(v)
  BY DEF WorkerOK, Alike, FaceTrue, Held
<1> QED
  BY <1>1, <1>2 DEF WorkerOK

\* Frames that are current, in place of those the worker has.
LEMMA CacheReplaced ==
  ASSUME NEW w, WorkerOK(w), w.loaded, NEW c \in Seq(EntryType), Len(c) <= CacheSize,
         \A i \in DOMAIN c : Current(w, c[i])
  PROVE  LET v == [w EXCEPT !.cache = c]
         IN  /\ WorkerOK(v) /\ Alike(v, w) /\ v.cache = c /\ v.timers = w.timers /\ v.cont = w.cont
<1> DEFINE v == [w EXCEPT !.cache = c]
<1>1. w \in WorkerType
  BY DEF WorkerOK
<1>2. v \in WorkerType /\ v.cache = c /\ v.timers = w.timers /\ v.cont = w.cont /\ Alike(v, w)
  BY <1>1 DEF WorkerType, Alike
<1> HIDE DEF v
<1>3. CacheTrue(v)
  BY <1>2 DEF CacheTrue, Current, Alike
<1>4. TimersTrue(v) /\ Idle(v)
  BY <1>2 DEF WorkerOK, Alike, TimersTrue, Idle
<1>5. WorkerOK(v)
  BY <1>2, <1>3, <1>4, AlikeOK
<1> QED
  BY <1>2, <1>5 DEF v

\* A frame joins the cache or becomes its newest; the oldest leaves a full one.
LEMMA RememberOK ==
  ASSUME NEW w, WorkerOK(w), w.loaded, NEW key \in FrameKeyType, NEW frame \in FrameType,
         Current(w, [key |-> key, frame |-> frame])
  PROVE  LET v == Remember(w, key, frame)
         IN  WorkerOK(v) /\ Alike(v, w) /\ v.timers = w.timers /\ v.cont = w.cont
<1> DEFINE others == Others(w, key)
           e == [key |-> key, frame |-> frame]
           all == Append(others, e)
           cut == IF Len(all) > CacheSize THEN Len(all) - CacheSize ELSE 0
           c == SubSeq(all, cut + 1, Len(all))
<1>1. w.cache \in Seq(EntryType) /\ CacheTrue(w) /\ Len(w.cache) <= CacheSize /\ CacheSize \in Nat \ {0}
  BY PreviewAssumption DEF WorkerOK, WorkerType
<1>2. /\ others \in Seq(EntryType) /\ Len(others) <= Len(w.cache)
      /\ \A j \in DOMAIN others : \E k \in DOMAIN w.cache : others[j] = w.cache[k]
  <2>1. CASE Hits(w, key) = {}
    BY <1>1, <2>1 DEF Others
  <2>2. CASE Hits(w, key) # {}
    <3> DEFINE i == CHOOSE i \in Hits(w, key) : TRUE
    <3>1. i \in DOMAIN w.cache
      BY <2>2 DEF Hits
    <3>2. others = RemoveAt(w.cache, i)
      BY <2>2 DEF Others
    <3> HIDE DEF i, others
    <3> QED
      BY <1>1, <3>1, <3>2, RemoveAtOK
  <2> QED
    BY <2>1, <2>2
<1>3. e \in EntryType /\ Current(w, e)
  BY DEF EntryType
<1> HIDE DEF others, e
<1>4. all \in Seq(EntryType) /\ Len(all) \in Nat /\ DOMAIN all = 1 .. Len(all)
  BY <1>2, <1>3
<1>5. \A j \in DOMAIN all : Current(w, all[j])
  <2> SUFFICES ASSUME NEW j \in DOMAIN all
               PROVE  Current(w, all[j])
    OBVIOUS
  <2>1. all[j] = e \/ (j \in DOMAIN others /\ all[j] = others[j])
    BY <1>2, <1>3
  <2> QED
    BY <1>1, <1>2, <1>3, <2>1 DEF CacheTrue
<1> HIDE DEF all
<1>6. cut \in Nat /\ cut <= Len(all) /\ Len(all) - cut <= CacheSize
  BY <1>1, <1>4
<1> HIDE DEF cut
<1>7. /\ c \in Seq(EntryType) /\ Len(c) = Len(all) - cut
      /\ \A j \in 1 .. Len(all) - cut : c[j] = all[cut + j]
  BY <1>4, <1>6, SuffixOK
<1> HIDE DEF c
<1>8. Len(c) <= CacheSize /\ \A j \in DOMAIN c : Current(w, c[j])
  <2>1. DOMAIN c = 1 .. Len(all) - cut
    BY <1>7
  <2>2. \A j \in 1 .. Len(all) - cut : cut + j \in DOMAIN all
    BY <1>4, <1>6
  <2> QED
    BY <1>5, <1>6, <1>7, <2>1, <2>2
<1>9. Remember(w, key, frame) = [w EXCEPT !.cache = c]
  BY DEF Remember, others, e, all, cut, c
<1> DEFINE v == [w EXCEPT !.cache = c]
<1>10. WorkerOK(v) /\ Alike(v, w) /\ v.timers = w.timers /\ v.cont = w.cont
  BY <1>7, <1>8, CacheReplaced
<1> QED
  BY <1>9, <1>10

\* The key of a page of the chapter that is being read.
LEMMA KeyOK ==
  ASSUME NEW w, WorkerOK(w), NEW p \in Nat
  PROVE  FrameKey(w, p) \in FrameKeyType
BY DEF WorkerOK, WorkerType, FrameKey, FrameKeyType

\* A page the section has is painted as its key says.
LEMMA PaintOK ==
  ASSUME NEW w, WorkerOK(w), NEW p, CanPaint(w, p), Tracked(w)
  PROVE  /\ p \in Nat /\ Paint(w, p) \in FrameType /\ w.spine \in Spines
         /\ Current(w, [key |-> FrameKey(w, p), frame |-> Paint(w, p)])
<1>1. /\ w \in WorkerType /\ w.section \in {NoSection} \cup SectionType /\ w.look \in LookType
      /\ SectionTrue(w)
  BY DEF WorkerOK, WorkerType
<1>2. w.section # NoSection
  BY DEF CanPaint, NoSection
<1>3. w.section \in SectionType /\ w.section.avail \in Nat /\ p \in Nat
  BY <1>1, <1>2 DEF SectionType, CanPaint
<1>4. w.section.spine = w.spine /\ w.section.laid = Laid(w.look) /\ w.mounted \in Books
  BY <1>1, <1>2 DEF SectionTrue, Tracked
<1>5. w.spine \in Spines
  BY <1>3, <1>4 DEF SectionType
<1>6. Paint(w, p) \in FrameType
  BY <1>1, <1>3, <1>4 DEF Paint, FrameType, SectionType
<1>7. Current(w, [key |-> FrameKey(w, p), frame |-> Paint(w, p)])
  BY <1>4 DEF Current, FrameKey, Paint
<1> QED
  BY <1>3, <1>5, <1>6, <1>7

LEMMA ScheduleOK ==
  ASSUME NEW w, WorkerOK(w), w.loaded, NEW p \in Nat
  PROVE  LET v == Schedule(w, p)
         IN  WorkerOK(v) /\ Alike(v, w) /\ v.cont = w.cont
<1> DEFINE t == [key |-> FrameKey(w, p), pages |-> w.pages]
           timers == w.timers \cup {t}
           v == Schedule(w, p)
<1>1. w \in WorkerType /\ w.gen \in Nat
  BY DEF WorkerOK, WorkerType
<1>2. t \in TimerType /\ t.key.gen = w.gen
  <2>1. FrameKey(w, p) \in FrameKeyType /\ FrameKey(w, p).gen = w.gen
    BY KeyOK DEF FrameKey
  <2> QED
    BY <1>1, <2>1 DEF TimerType, WorkerType
<1>3. v = [w EXCEPT !.timers = timers]
  BY DEF Schedule
<1> HIDE DEF t, v
<1>4. timers \in SUBSET TimerType
  BY <1>1, <1>2 DEF WorkerType
<1>5. \A x \in timers : x.key.gen <= w.gen
  BY <1>1, <1>2 DEF WorkerOK, TimersTrue
<1> HIDE DEF timers
<1>6. v \in WorkerType /\ v.timers = timers /\ v.cont = w.cont /\ v.cache = w.cache /\ Alike(v, w)
  BY <1>1, <1>3, <1>4 DEF WorkerType, Alike
<1>7. TimersTrue(v) /\ Idle(v)
  BY <1>5, <1>6 DEF TimersTrue, Idle, Alike
<1>8. CacheTrue(v) /\ Len(v.cache) <= CacheSize
  BY <1>6, CacheKept DEF WorkerOK, Alike
<1> QED
  BY <1>6, <1>7, <1>8, AlikeOK DEF v

-----------------------------------------------------------------------------
(***************************************************************************)
(* The handlers.                                                           *)
(***************************************************************************)
QueryType    == [spec : SpecType, whole : BOOLEAN, face : BOOLEAN, spine : Spines, page : Nat]
RenderedType == [kind : {"rendered"}, live : BOOLEAN, ok : BOOLEAN, spec : SpecType, face : BOOLEAN,
                 spine : Spines, page : Nat, pages : Nat, complete : BOOLEAN,
                 frame : FrameType \cup {NoFrame}]
OpenedType   == [kind : {"opened"}, live : BOOLEAN, ok : BOOLEAN, book : Books \cup {NoBook}, gen : Nat,
                 spine : Spines, pages : Nat, complete : BOOLEAN, frame : FrameType \cup {NoFrame}]
LoadType     == [book : Books, spec : Settings, live : BOOLEAN]
ReplyType    == RenderedType \cup ToldType

LEMMA OneType ==
  ASSUME NEW S, NEW x \in S
  PROVE  <<x>> \in Seq(S)
OBVIOUS

LEMMA WiderType ==
  ASSUME NEW S, NEW T, S \subseteq T, NEW s \in Seq(S)
  PROVE  s \in Seq(T)
OBVIOUS

LEMMA JoinedType ==
  ASSUME NEW S, NEW s \in Seq(S), NEW t \in Seq(S)
  PROVE  s \o t \in Seq(S)
OBVIOUS

\* What every request leaves alone.
SameBook(v, w) == v.loaded = w.loaded /\ v.mounted = w.mounted /\ v.gen = w.gen

LEMMA ContOK ==
  ASSUME NEW w, WorkerOK(w), w.loaded, NEW c \in Spines \cup {NoSpine}
  PROVE  LET v == [w EXCEPT !.cont = c]
         IN  WorkerOK(v) /\ Alike(v, w) /\ v.timers = w.timers /\ v.cache = w.cache /\ v.cont = c
<1> DEFINE v == [w EXCEPT !.cont = c]
<1>1. w \in WorkerType
  BY DEF WorkerOK
<1>2. v \in WorkerType /\ v.timers = w.timers /\ v.cache = w.cache /\ v.cont = c /\ Alike(v, w)
  BY <1>1 DEF WorkerType, Alike
<1> HIDE DEF v
<1>3. TimersTrue(v) /\ Idle(v) /\ Len(v.cache) <= CacheSize
  BY <1>2 DEF WorkerOK, TimersTrue, Idle, Alike
<1>4. CacheTrue(v)
  BY <1>2, CacheKept DEF WorkerOK, Alike
<1> QED
  BY <1>2, <1>3, <1>4, AlikeOK DEF v

LEMMA AnswerType ==
  ASSUME NEW q \in QueryType, NEW ok \in BOOLEAN, NEW p \in Nat, NEW w, w.pages \in Nat,
         NEW frame \in FrameType \cup {NoFrame}
  PROVE  Answer(q, ok, p, w, frame) \in RenderedType
<1>1. (w.est = "complete") \in BOOLEAN
  OBVIOUS
<1> QED
  BY <1>1 DEF Answer, RenderedType, QueryType

(***************************************************************************)
(* Where an answer puts the reader.                                        *)
(***************************************************************************)
View(m) == [spine |-> m.spine, page |-> IF m.kind = "opened" THEN 0 ELSE m.page, pages |-> m.pages,
            complete |-> m.complete]

\* A place of the chapter the worker is in, with the frame of that page of it ...
Within(v, f, w) ==
  /\ v.spine = w.spine /\ v.page < v.pages /\ v.pages <= w.pages
  /\ f.book = w.mounted /\ f.spine = v.spine /\ f.page = v.page

\* ... that knows how far the chapter has come.
Upto(v, w) == v.pages = w.pages /\ v.complete = (w.est = "complete")

\* A good answer and what is posted with it put the reader where the worker is.
Lands(m, told, w) == m.ok =>
  /\ Within(View(m), m.frame, w)
  /\ \/ told = << >> /\ Upto(View(m), w)
     \/ \E n \in ToldType : told = <<n>> /\ Says(n, w)

Replied(r) == \E m \in RenderedType, told \in Seq(ToldType) :
                r.out = <<m>> \o told /\ m.live /\ Lands(m, told, r.w)

LEMMA AnswerLands ==
  ASSUME NEW q \in QueryType, NEW p, NEW w, p < w.pages, q.spine = w.spine, w.pages \in Nat, NEW frame,
         frame.book = w.mounted, frame.spine = w.spine, frame.page = p
  PROVE  LET m == Answer(q, TRUE, p, w, frame)
         IN  m.live /\ Within(View(m), m.frame, w) /\ Upto(View(m), w)
BY DEF Answer, Within, Upto, View

LEMMA LandsGrown ==
  ASSUME NEW m, NEW w, NEW v, NEW told, m.pages \in Nat, w.pages \in Nat, v.pages \in Nat,
         Within(View(m), m.frame, w), Upto(View(m), w), Grown(v, w, told)
  PROVE  Lands(m, told, v)
<1>1. View(m).pages \in Nat
  BY DEF View
<1>2. Within(View(m), m.frame, v)
  BY <1>1 DEF Within, Grown
<1>3. CASE told = << >> /\ v.pages = w.pages /\ v.est = w.est
  BY <1>2, <1>3 DEF Lands, Upto
<1>4. CASE \E n \in ToldType : told = <<n>> /\ Says(n, v)
  BY <1>2, <1>4 DEF Lands
<1> QED
  BY <1>3, <1>4 DEF Grown

LEMMA RefusedReplies ==
  ASSUME NEW q \in QueryType, NEW w, WorkerOK(w)
  PROVE  Replied(Refused(q, w))
<1> DEFINE m == Answer(q, FALSE, 0, [w EXCEPT !.pages = 0], NoFrame)
           r == Refused(q, w)
<1>1. [w EXCEPT !.pages = 0].pages \in Nat
  BY DEF WorkerOK, WorkerType
<1>2. m \in RenderedType
  BY <1>1, AnswerType
<1>3. m.live /\ ~m.ok
  BY DEF Answer
<1>4. r.out = <<m>>
  BY DEF Refused
<1> HIDE DEF m, r
<1>5. r.out = <<m>> \o << >> /\ << >> \in Seq(ToldType) /\ Lands(m, << >>, r.w)
  BY <1>2, <1>3, <1>4 DEF Lands
<1>6. Replied(r)
  BY <1>2, <1>3, <1>5 DEF Replied
<1> QED
  BY <1>6 DEF r

LEMMA RefusedOK ==
  ASSUME NEW q \in QueryType, NEW w, WorkerOK(w)
  PROVE  Refused(q, w).w = w /\ Refused(q, w).out \in Seq(ReplyType)
<1>1. [w EXCEPT !.pages = 0].pages \in Nat
  BY DEF WorkerOK, WorkerType
<1>2. Answer(q, FALSE, 0, [w EXCEPT !.pages = 0], NoFrame) \in ReplyType
  BY <1>1, AnswerType DEF ReplyType
<1> QED
  BY <1>2, OneType DEF Refused

LEMMA RespecOK ==
  ASSUME NEW w, WorkerOK(w), NEW spec \in SpecType
  PROVE  LET v == Respec(w, spec)
         IN  WorkerOK(v) /\ SameBook(v, w)
<1>1. CASE spec \in {NoSpec, w.spec}
  BY <1>1 DEF Respec, SameBook
<1>2. CASE spec \notin {NoSpec, w.spec}
  <2>1. spec \in Settings /\ spec # w.spec
    BY <1>2 DEF SpecType
  <2>2. Respec(w, spec) = ApplySpec(w, spec)
    BY <1>2 DEF Respec
  <2> QED
    BY <2>1, <2>2, ApplySpecOK DEF SameBook
<1> QED
  BY <1>1, <1>2

LEMMA BuildFailsOK ==
  ASSUME NEW w, WorkerOK(w), w.loaded, NEW q \in QueryType
  PROVE  LET v == BuildFails(w, q)
         IN  WorkerOK(v) /\ SameBook(v, w)
<1> DEFINE cont == IF q.whole THEN w.cont ELSE NoSpine
           section == IF q.spine < SpineCount[w.mounted] THEN NoSection ELSE w.section
           v == BuildFails(w, q)
<1>1. w \in WorkerType
  BY DEF WorkerOK
<1>2. v = [w EXCEPT !.cont = cont, !.section = section]
  BY DEF BuildFails
<1>3. cont \in Spines \cup {NoSpine} /\ section \in {w.section, NoSection}
      /\ section \in {NoSection} \cup SectionType
  BY <1>1 DEF WorkerType
<1> HIDE DEF cont, section, v
<1>4. v \in WorkerType /\ v.section = section /\ Kept(v, w) /\ v.pages = w.pages /\ v.est = w.est
  BY <1>1, <1>2, <1>3 DEF WorkerType, Kept
<1>5. SectionTrue(v)
  BY <1>3, <1>4 DEF WorkerOK, SectionTrue, Tracked, Kept
<1>6. FaceTrue(v) /\ TimersTrue(v) /\ Idle(v) /\ Held(v) /\ Len(v.cache) <= CacheSize
  BY <1>4 DEF WorkerOK, Kept, FaceTrue, TimersTrue, Idle, Held
<1>7. CacheTrue(v)
  BY <1>4, CacheKept DEF WorkerOK, Kept
<1> QED
  BY <1>4, <1>5, <1>6, <1>7 DEF WorkerOK, SameBook, Kept, v

\* A frame of the cache: the page it is asked for exists, and it stays what the engine would paint.
LEMMA FromCacheOK ==
  ASSUME NEW w, WorkerOK(w), w.loaded, NEW q \in QueryType, NEW p, Hits(w, FrameKey(w, p)) # {}
  PROVE  LET r == FromCache(w, q, p)
         IN  /\ WorkerOK(r.w) /\ SameBook(r.w, w) /\ r.out \in Seq(ReplyType)
             /\ q.spine = w.spine /\ w.builtStamp = w.stamp /\ p = Clamp(w, q.page) => Replied(r)
<1> DEFINE key == FrameKey(w, p)
           i == CHOOSE i \in Hits(w, key) : TRUE
           frame == w.cache[i].frame
           kept == Remember(w, key, frame)
<1>1. w \in WorkerType /\ w.cache \in Seq(EntryType) /\ w.pages \in Nat /\ CacheTrue(w)
  BY DEF WorkerOK, WorkerType
<1>2. i \in DOMAIN w.cache /\ w.cache[i].key = key
  BY DEF Hits
<1> HIDE DEF i
<1>3. w.cache[i] \in EntryType
  BY <1>1, <1>2
<1>4. key \in FrameKeyType /\ frame \in FrameType
  BY <1>2, <1>3 DEF EntryType
<1>5. p \in Nat
  BY <1>4 DEF FrameKey, FrameKeyType
<1>6. Current(w, w.cache[i])
  BY <1>1, <1>2 DEF CacheTrue
<1>6a. /\ key.gen = w.gen /\ key.spine = w.spine /\ key.page = p /\ key.spec = w.spec
       /\ key.stamp = w.builtStamp
  BY DEF FrameKey
<1> HIDE DEF key
<1>7. Current(w, [key |-> key, frame |-> frame])
  BY <1>2, <1>6 DEF Current
<1>7a. w.builtStamp = w.stamp => frame.book = w.mounted /\ frame.spine = w.spine /\ frame.page = p
  BY <1>2, <1>6, <1>6a DEF Current
<1> HIDE DEF frame
<1>8. WorkerOK(kept) /\ Alike(kept, w)
  BY <1>4, <1>7, RememberOK
<1>9. FromCache(w, q, p) = [w |-> Schedule(kept, p), out |-> <<Answer(q, TRUE, p, w, frame)>>]
  BY DEF FromCache, key, i, frame
<1> HIDE DEF kept
<1>10. WorkerOK(Schedule(kept, p)) /\ Alike(Schedule(kept, p), kept)
  BY <1>5, <1>8, ScheduleOK DEF Alike
<1>11. Answer(q, TRUE, p, w, frame) \in ReplyType
  BY <1>1, <1>4, <1>5, AnswerType DEF ReplyType
<1>12. <<Answer(q, TRUE, p, w, frame)>> \in Seq(ReplyType)
  BY <1>11, OneType
<1>13. SameBook(Schedule(kept, p), w)
  BY <1>8, <1>10 DEF Alike, SameBook
<1>13a. ASSUME q.spine = w.spine, w.builtStamp = w.stamp, p = Clamp(w, q.page)
        PROVE  Replied([w |-> Schedule(kept, p), out |-> <<Answer(q, TRUE, p, w, frame)>>])
  <2> DEFINE m == Answer(q, TRUE, p, w, frame)
             z == Schedule(kept, p)
  <2>1. p < w.pages
    BY <1>1, <1>5, <1>13a DEF Clamp, QueryType
  <2>2. m \in RenderedType
    BY <1>1, <1>4, <1>5, AnswerType
  <2>3. m.live /\ Within(View(m), m.frame, w) /\ Upto(View(m), w)
    BY <1>1, <1>7a, <1>13a, <2>1, AnswerLands
  <2>4. Grown(z, w, << >>)
    BY <1>1, <1>8, <1>10 DEF Grown, Alike
  <2>5. z.pages \in Nat
    BY <1>10 DEF WorkerOK, WorkerType
  <2> HIDE DEF m, z
  <2>6. Lands(m, << >>, z)
    BY <1>1, <2>2, <2>3, <2>4, <2>5, LandsGrown DEF RenderedType
  <2>7. <<m>> = <<m>> \o << >> /\ << >> \in Seq(ToldType)
    BY <2>2
  <2>8. Replied([w |-> z, out |-> <<m>>])
    BY <2>2, <2>3, <2>6, <2>7 DEF Replied
  <2> QED
    BY <2>8 DEF m, z
<1> DEFINE v == Schedule(kept, p)
           a == <<Answer(q, TRUE, p, w, frame)>>
           r == FromCache(w, q, p)
<1>14. q.spine = w.spine /\ w.builtStamp = w.stamp /\ p = Clamp(w, q.page) => Replied(r)
  BY <1>9, <1>13a
<1>14a. r = [w |-> v, out |-> a] /\ WorkerOK(v) /\ SameBook(v, w) /\ a \in Seq(ReplyType)
  BY <1>9, <1>10, <1>12, <1>13
<1> HIDE DEF v, a, r
<1>15. r.w = v /\ r.out = a
  BY <1>14a
<1> QED
  BY <1>14, <1>14a, <1>15 DEF r

\* A page the section has: painted, remembered, answered, and the rest of a new section begun.
LEMMA FromEngineOK ==
  ASSUME NEW w, WorkerOK(w), w.loaded, NEW q \in QueryType, NEW p, CanPaint(w, p),
         NEW starts \in BOOLEAN, NEW more \in BOOLEAN
  PROVE  LET r == FromEngine(w, q, p, starts, more)
         IN  /\ WorkerOK(r.w) /\ SameBook(r.w, w) /\ r.out \in Seq(ReplyType)
             /\ q.spine = w.spine /\ p = Clamp(w, q.page) => Replied(r)
<1> DEFINE key == FrameKey(w, p)
           frame == Paint(w, p)
           kept == Remember(w, key, frame)
           going == [kept EXCEPT !.cont = w.spine]
           run == IF starts THEN More(going, more) ELSE [w |-> kept, out |-> << >>]
<1>1. w.pages \in Nat /\ Tracked(w)
  BY DEF WorkerOK, WorkerType, SectionTrue
<1>2. p \in Nat /\ frame \in FrameType /\ w.spine \in Spines /\ Current(w, [key |-> key, frame |-> frame])
  BY <1>1, PaintOK
<1>3. key \in FrameKeyType
  BY <1>2, KeyOK
<1>3a. frame.book = w.mounted /\ frame.spine = w.spine /\ frame.page = p
  <2>1. w.section # NoSection
    BY DEF CanPaint, NoSection
  <2> QED
    BY <1>1, <2>1 DEF Tracked, Paint
<1> HIDE DEF key, frame
<1>4. WorkerOK(kept) /\ Alike(kept, w)
  BY <1>2, <1>3, RememberOK
<1> HIDE DEF kept
<1>5. WorkerOK(going) /\ Alike(going, kept)
  <2>1. kept.loaded /\ w.spine \in Spines \cup {NoSpine}
    BY <1>2, <1>4 DEF Alike
  <2> QED
    BY <1>4, <2>1, ContOK
<1> HIDE DEF going
<1>6. WorkerOK(run.w) /\ SameBook(run.w, w) /\ run.out \in Seq(ToldType) /\ Grown(run.w, w, run.out)
  <2>1. CASE starts
    <3>1. run = More(going, more)
      BY <2>1
    <3> HIDE DEF run
    <3>2. WorkerOK(run.w) /\ Kept(run.w, going) /\ run.out \in Seq(ToldType)
      BY <1>5, <3>1, MoreOK
    <3>3. Grown(run.w, going, run.out)
      <4>1. going.loaded
        BY <1>4, <1>5 DEF Alike
      <4> QED
        BY <1>5, <3>1, <4>1, MoreOK
    <3> QED
      BY <1>4, <1>5, <3>2, <3>3 DEF Alike, Kept, SameBook, Grown
  <2>2. CASE ~starts
    <3>1. run = [w |-> kept, out |-> << >>]
      BY <2>2
    <3> HIDE DEF run
    <3>2. run.w = kept /\ run.out = << >>
      BY <3>1
    <3>3. << >> \in Seq(ToldType)
      OBVIOUS
    <3>4. w.pages <= kept.pages
      BY <1>1, <1>4 DEF Alike
    <3>5. Grown(run.w, w, run.out)
      BY <1>4, <3>2, <3>4 DEF Alike, Grown
    <3> QED
      BY <1>4, <3>2, <3>3, <3>5 DEF Alike, SameBook
  <2> QED
    BY <2>1, <2>2
<1>7. FromEngine(w, q, p, starts, more)
        = [w |-> Schedule(run.w, p), out |-> <<Answer(q, TRUE, p, w, frame)>> \o run.out]
  BY DEF FromEngine, key, frame, kept, going
<1> HIDE DEF run
<1>8. WorkerOK(Schedule(run.w, p)) /\ Alike(Schedule(run.w, p), run.w)
  BY <1>2, <1>6, ScheduleOK DEF SameBook
<1>9. Answer(q, TRUE, p, w, frame) \in ReplyType
  BY <1>1, <1>2, AnswerType DEF ReplyType
<1>10. <<Answer(q, TRUE, p, w, frame)>> \o run.out \in Seq(ReplyType)
  <2>1. run.out \in Seq(ReplyType)
    BY <1>6, WiderType DEF ReplyType
  <2>2. <<Answer(q, TRUE, p, w, frame)>> \in Seq(ReplyType)
    BY <1>9, OneType
  <2> QED
    BY <2>1, <2>2, JoinedType
<1>11. SameBook(Schedule(run.w, p), w)
  BY <1>6, <1>8 DEF Alike, SameBook
<1>11a. ASSUME q.spine = w.spine, p = Clamp(w, q.page)
        PROVE  Replied([w |-> Schedule(run.w, p), out |-> <<Answer(q, TRUE, p, w, frame)>> \o run.out])
  <2> DEFINE m == Answer(q, TRUE, p, w, frame)
             z == Schedule(run.w, p)
  <2>1. p < w.pages
    BY <1>1, <1>2, <1>11a DEF Clamp, QueryType
  <2>2. m \in RenderedType
    BY <1>1, <1>2, AnswerType
  <2>3. m.live /\ Within(View(m), m.frame, w) /\ Upto(View(m), w)
    BY <1>1, <1>3a, <1>11a, <2>1, AnswerLands
  <2>4. Grown(z, w, run.out)
    BY <1>6, <1>8 DEF Grown, Alike, Says
  <2>5. z.pages \in Nat
    BY <1>8 DEF WorkerOK, WorkerType
  <2> HIDE DEF m, z
  <2>6. Lands(m, run.out, z)
    BY <1>1, <2>2, <2>3, <2>4, <2>5, LandsGrown DEF RenderedType
  <2>8. Replied([w |-> z, out |-> <<m>> \o run.out])
    BY <1>6, <2>2, <2>3, <2>6 DEF Replied
  <2> QED
    BY <2>8 DEF m, z
<1> DEFINE v == Schedule(run.w, p)
           a == <<Answer(q, TRUE, p, w, frame)>> \o run.out
           r == FromEngine(w, q, p, starts, more)
<1>11b. q.spine = w.spine /\ p = Clamp(w, q.page) => Replied(r)
  BY <1>7, <1>11a
<1>12. r = [w |-> v, out |-> a] /\ WorkerOK(v) /\ SameBook(v, w) /\ a \in Seq(ReplyType)
  BY <1>7, <1>8, <1>10, <1>11
<1> HIDE DEF v, a, r
<1>13. r.w = v /\ r.out = a
  BY <1>12
<1> QED
  BY <1>11b, <1>12, <1>13 DEF r

LEMMA RenderOK ==
  ASSUME NEW w, WorkerOK(w), NEW q \in QueryType, NEW ok \in BOOLEAN, NEW more \in BOOLEAN
  PROVE  LET r == Render(w, q, ok, more)
         IN  WorkerOK(r.w) /\ SameBook(r.w, w) /\ r.out \in Seq(ReplyType) /\ Replied(r)
<1> DEFINE x == Respec(w, q.spec)
           stale == Stale(x, q.spine)
           y == IF stale THEN Build(x, q.spine, q.whole) ELSE x
           p == Clamp(y, q.page)
           r == Render(w, q, ok, more)
<1>1. WorkerOK(x) /\ SameBook(x, w) /\ q.spine \in Spines /\ q.whole \in BOOLEAN
  BY RespecOK DEF QueryType
<1>2. stale \in BOOLEAN /\ q.spine \in Nat
  BY <1>1, PreviewAssumption DEF Stale, Spines
<1>3. CASE ~w.loaded \/ ~HasFace(w, q.spec)
  <2>1. r = Refused(q, w)
    BY <1>3 DEF Render
  <2> HIDE DEF r
  <2>2. WorkerOK(r.w) /\ SameBook(r.w, w) /\ r.out \in Seq(ReplyType) /\ Replied(r)
    BY <2>1, RefusedOK, RefusedReplies DEF SameBook
  <2> QED
    BY <2>2 DEF r
<1>4. CASE w.loaded /\ HasFace(w, q.spec)
  <2>1. x.loaded /\ w.mounted \in Books /\ x.mounted = w.mounted
    BY <1>1, <1>4 DEF WorkerOK, Held, SameBook
  <2>2. r = IF stale /\ ~(ok /\ q.spine < SpineCount[w.mounted]) THEN Refused(q, BuildFails(x, q))
            ELSE IF Hits(y, FrameKey(y, p)) # {} THEN FromCache(y, q, p)
            ELSE IF ~CanPaint(y, p) THEN Refused(q, y)
            ELSE FromEngine(y, q, p, stale /\ ~q.whole, more)
    BY <1>4 DEF Render
  <2> HIDE DEF r
  <2>3. CASE stale /\ ~(ok /\ q.spine < SpineCount[w.mounted])
    <3>1. WorkerOK(BuildFails(x, q)) /\ SameBook(BuildFails(x, q), x)
      BY <1>1, <2>1, BuildFailsOK
    <3>2. r = Refused(q, BuildFails(x, q))
      BY <2>2, <2>3
    <3>3. r.w = BuildFails(x, q) /\ r.out \in Seq(ReplyType) /\ Replied(r)
      BY <3>1, <3>2, RefusedOK, RefusedReplies
    <3>4. SameBook(r.w, w)
      BY <1>1, <3>1, <3>3 DEF SameBook
    <3> QED
      BY <3>1, <3>3, <3>4 DEF r
  <2>4. CASE ~(stale /\ ~(ok /\ q.spine < SpineCount[w.mounted]))
    <3>1. WorkerOK(y) /\ SameBook(y, w) /\ q.spine = y.spine /\ y.builtStamp = y.stamp
      <4>1. CASE stale
        <5>1. SpineCount[w.mounted] \in Nat /\ q.spine \in 0 .. SpineCount[x.mounted] - 1
          <6> HIDE DEF x, stale
          <6>1. SpineCount[w.mounted] \in Nat
            BY <2>1, PreviewAssumption
          <6>2. q.spine < SpineCount[w.mounted] /\ q.spine \in Nat
            BY <1>2, <2>4, <4>1
          <6> QED
            BY <2>1, <6>1, <6>2
        <5>2. y = Build(x, q.spine, q.whole)
          BY <4>1
        <5> HIDE DEF y, x
        <5>0. x.mounted \in Books
          BY <2>1
        <5>3. /\ WorkerOK(y) /\ y.loaded = x.loaded /\ y.mounted = x.mounted /\ y.gen = x.gen
              /\ y.spine = q.spine /\ y.builtStamp = y.stamp
          BY <1>1, <5>0, <5>1, <5>2, BuildOK
        <5> QED
          BY <1>1, <5>3 DEF SameBook
      <4>2. CASE ~stale
        BY <1>1, <4>2 DEF Stale
      <4> QED
        BY <4>1, <4>2
    <3>1a. p = Clamp(y, q.page)
      OBVIOUS
    <3>2. y.loaded
      BY <1>4, <3>1 DEF SameBook
    <3>3. r = IF Hits(y, FrameKey(y, p)) # {} THEN FromCache(y, q, p)
              ELSE IF ~CanPaint(y, p) THEN Refused(q, y)
              ELSE FromEngine(y, q, p, stale /\ ~q.whole, more)
      BY <2>2, <2>4
    <3>4. (stale /\ ~q.whole) \in BOOLEAN
      OBVIOUS
    <3> HIDE DEF x, stale, y, p
    <3>5. CASE Hits(y, FrameKey(y, p)) # {}
      <4>1. r = FromCache(y, q, p)
        BY <3>3, <3>5
      <4>2. WorkerOK(r.w) /\ SameBook(r.w, y) /\ r.out \in Seq(ReplyType) /\ Replied(r)
        BY <3>1, <3>1a, <3>2, <3>5, <4>1, FromCacheOK
      <4>3. SameBook(r.w, w)
        BY <3>1, <4>2 DEF SameBook
      <4> QED
        BY <4>2, <4>3 DEF r
    <3>6. CASE Hits(y, FrameKey(y, p)) = {} /\ ~CanPaint(y, p)
      <4>1. r = Refused(q, y)
        BY <3>3, <3>6
      <4>2. r.w = y /\ r.out \in Seq(ReplyType) /\ Replied(r)
        BY <3>1, <4>1, RefusedOK, RefusedReplies
      <4> QED
        BY <3>1, <4>2 DEF r
    <3>7. CASE Hits(y, FrameKey(y, p)) = {} /\ CanPaint(y, p)
      <4>1. r = FromEngine(y, q, p, stale /\ ~q.whole, more)
        BY <3>3, <3>7
      <4>2. WorkerOK(r.w) /\ SameBook(r.w, y) /\ r.out \in Seq(ReplyType) /\ Replied(r)
        BY <3>1, <3>1a, <3>2, <3>4, <3>7, <4>1, FromEngineOK
      <4>3. SameBook(r.w, w)
        BY <3>1, <4>2 DEF SameBook
      <4> QED
        BY <4>2, <4>3 DEF r
    <3> QED
      BY <3>5, <3>6, <3>7
  <2> QED
    BY <2>3, <2>4
<1> QED
  BY <1>3, <1>4

\* The worker is where it was.
Steady(v, w) ==
  v.gen = w.gen /\ v.mounted = w.mounted /\ v.spine = w.spine /\ v.pages = w.pages /\ v.est = w.est

\* A timer paints only if the book, the chapter and the settings are still those it was started for.
LEMMA PrefetchOK ==
  ASSUME NEW w, WorkerOK(w), NEW t \in w.timers
  PROVE  LET v == Prefetch(w, t)
         IN  WorkerOK(v) /\ SameBook(v, w) /\ v.applied = w.applied /\ Steady(v, w)
<1> DEFINE next == t.key.page + 1
           key == [t.key EXCEPT !.page = next]
           same == /\ t.key = FrameKey(w, t.key.page) /\ t.pages = w.pages
                   /\ next < t.pages /\ Hits(w, key) = {} /\ CanPaint(w, next)
           rest == [w EXCEPT !.timers = @ \ {t}]
           v == Prefetch(w, t)
<1>1. w \in WorkerType /\ t \in TimerType /\ t.key \in FrameKeyType
  BY DEF WorkerOK, WorkerType, TimerType
<1>2. /\ rest \in WorkerType /\ Alike(rest, w) /\ rest.timers = w.timers \ {t} /\ rest.cache = w.cache
      /\ rest.cont = w.cont
  BY <1>1 DEF WorkerType, Alike
<1> HIDE DEF rest
<1>3. WorkerOK(rest)
  <2>1. TimersTrue(rest) /\ Idle(rest) /\ Len(rest.cache) <= CacheSize
    BY <1>2 DEF WorkerOK, TimersTrue, Idle, Alike
  <2>2. CacheTrue(rest)
    BY <1>2, CacheKept DEF WorkerOK, Alike
  <2> QED
    BY <1>2, <2>1, <2>2, AlikeOK
<1>4. v = IF same THEN Remember(rest, key, Paint(w, next)) ELSE rest
  BY DEF Prefetch, rest
<1> HIDE DEF v
<1>5. CASE ~same
  <2>1. v = rest
    BY <1>4, <1>5
  <2> QED
    BY <1>2, <1>3, <2>1 DEF v, Alike, SameBook, Steady
<1>6. CASE same
  <2>1. t.key.gen = w.gen /\ t.key.page \in Nat /\ next \in Nat
    BY <1>1, <1>6 DEF FrameKey, FrameKeyType
  <2>2. w.loaded /\ Tracked(w)
    <3>1. TimersTrue(w) /\ w.gen \in Nat /\ SectionTrue(w) /\ w.loaded \in BOOLEAN
      BY <1>1 DEF WorkerOK, WorkerType
    <3>2. w.loaded
      BY <2>1, <3>1 DEF TimersTrue
    <3> QED
      BY <3>1, <3>2 DEF SectionTrue
  <2>3. /\ Paint(w, next) \in FrameType
        /\ Current(w, [key |-> FrameKey(w, next), frame |-> Paint(w, next)])
    BY <1>6, <2>2, PaintOK
  <2>4. key = FrameKey(w, next) /\ key \in FrameKeyType
    <3>1. key = FrameKey(w, next)
      BY <1>6 DEF FrameKey
    <3> QED
      BY <2>1, <3>1, KeyOK
  <2>5. Current(rest, [key |-> key, frame |-> Paint(w, next)])
    BY <1>2, <2>3, <2>4 DEF Current, Alike
  <2>6. v = Remember(rest, key, Paint(w, next)) /\ rest.loaded
    BY <1>2, <1>4, <1>6, <2>2 DEF Alike
  <2> HIDE DEF key
  <2>7. WorkerOK(v) /\ Alike(v, rest)
    BY <1>3, <2>3, <2>4, <2>5, <2>6, RememberOK
  <2> QED
    BY <1>2, <2>7 DEF v, Alike, SameBook, Steady
<1> QED
  BY <1>5, <1>6

\* The book is open at its first page, and the rest of the chapter has been started.
LEMMA OpensOK ==
  ASSUME NEW w, WorkerOK(w), Begun(w), NEW l \in LoadType, NEW more \in BOOLEAN
  PROVE  LET r == Opens(w, l, more)
         IN  /\ WorkerOK(r.w) /\ r.w.loaded /\ r.w.mounted = l.book /\ r.w.gen = w.gen
             /\ \E m \in OpenedType, told \in Seq(ToldType) :
                  /\ r.out = <<m>> \o told
                  /\ m.ok /\ m.live = l.live /\ m.book = l.book /\ m.gen = w.gen
                  /\ Lands(m, told, r.w)
<1> DEFINE mounted == Mount(w, l.book)
           given == ApplySpec(mounted, l.spec)
           x == Build(given, StartSpine[l.book], FALSE)
           z == [x EXCEPT !.loaded = TRUE, !.cont = x.spine]
           run == More(z, more)
           m == [kind |-> "opened", live |-> l.live, ok |-> TRUE, book |-> l.book, gen |-> x.gen,
                 spine |-> x.spine, pages |-> x.pages, complete |-> x.section.done,
                 frame |-> Paint(x, 0)]
           r == Opens(w, l, more)
<1>1. l.book \in Books /\ l.spec \in Settings /\ l.live \in BOOLEAN
      /\ StartSpine[l.book] \in 0 .. SpineCount[l.book] - 1
  BY PreviewAssumption DEF LoadType
<1>2. WorkerOK(mounted) /\ ~mounted.loaded /\ mounted.mounted = l.book /\ mounted.gen = w.gen
  BY <1>1, MountOK DEF Begun
<1> HIDE DEF mounted
<1>3. mounted.cache = << >>
  BY <1>2 DEF WorkerOK, Idle
<1>4. /\ WorkerOK(given) /\ ~given.loaded /\ given.mounted = l.book /\ given.gen = w.gen
      /\ given.spec = l.spec
  BY <1>1, <1>2, <1>3, ApplySpecOK
<1> HIDE DEF given
<1>5. /\ WorkerOK(x) /\ Tracked(x) /\ x.section # NoSection /\ x.spine = StartSpine[l.book]
      /\ x.section.avail >= 1 /\ ~x.loaded /\ x.mounted = l.book /\ x.gen = w.gen /\ x.spec = l.spec
  <2>1. given.mounted \in Books /\ StartSpine[l.book] \in 0 .. SpineCount[given.mounted] - 1
    BY <1>1, <1>4
  <2> DEFINE s == StartSpine[l.book]
  <2> HIDE DEF s
  <2>0. s \in 0 .. SpineCount[given.mounted] - 1 /\ FALSE \in BOOLEAN
    BY <2>1 DEF s
  <2>2. /\ WorkerOK(x) /\ Tracked(x) /\ x.section # NoSection /\ x.spine = StartSpine[l.book]
        /\ x.section.avail >= 1 /\ x.loaded = given.loaded /\ x.mounted = given.mounted
        /\ x.gen = given.gen /\ x.spec = given.spec
    <3>1. x = Build(given, s, FALSE)
      BY DEF s
    <3> HIDE DEF x
    <3>2. WorkerOK(given) /\ given.mounted \in Books
      BY <1>4, <2>1
    <3>3. /\ WorkerOK(Build(given, s, FALSE)) /\ Tracked(Build(given, s, FALSE))
          /\ Build(given, s, FALSE).section # NoSection /\ Build(given, s, FALSE).spine = s
          /\ Build(given, s, FALSE).section.avail >= 1
          /\ Build(given, s, FALSE).loaded = given.loaded /\ Build(given, s, FALSE).mounted = given.mounted
          /\ Build(given, s, FALSE).gen = given.gen /\ Build(given, s, FALSE).spec = given.spec
      BY <2>0, <3>2, BuildOK
    <3>4. /\ WorkerOK(x) /\ Tracked(x) /\ x.section # NoSection /\ x.spine = s
          /\ x.section.avail >= 1 /\ x.loaded = given.loaded /\ x.mounted = given.mounted
          /\ x.gen = given.gen /\ x.spec = given.spec
      BY <3>1, <3>3
    <3> QED
      BY <3>4 DEF s
  <2> QED
    BY <1>4, <2>2
<1> HIDE DEF x
<1>6. x \in WorkerType /\ x.spine \in Spines /\ x.section \in SectionType
  BY <1>1, <1>5, PageCountType DEF WorkerOK, WorkerType, Spines
<1>7. /\ z \in WorkerType /\ z.loaded = TRUE /\ z.gen = w.gen /\ z.mounted = l.book /\ z.spec = l.spec
      /\ z.section = x.section /\ z.spine = x.spine /\ z.pages = x.pages /\ z.est = x.est
      /\ z.look = x.look /\ z.stamp = x.stamp /\ z.custom = x.custom /\ z.applied = x.applied
      /\ z.cache = x.cache /\ z.timers = x.timers
  BY <1>5, <1>6 DEF WorkerType
<1> HIDE DEF z
<1>8. WorkerOK(z)
  <2>1. SectionTrue(z)
    BY <1>5, <1>7 DEF WorkerOK, SectionTrue, Tracked
  <2>2. FaceTrue(z) /\ Idle(z) /\ Held(z) /\ Len(z.cache) <= CacheSize
    BY <1>1, <1>5, <1>7 DEF WorkerOK, FaceTrue, Idle, Held
  <2>3. CacheTrue(z)
    BY <1>5, <1>7, CacheKept DEF WorkerOK
  <2>4. TimersTrue(z)
    BY <1>5, <1>7 DEF WorkerOK, TimersTrue
  <2> QED
    BY <1>7, <2>1, <2>2, <2>3, <2>4 DEF WorkerOK
<1>9. WorkerOK(run.w) /\ Kept(run.w, z) /\ run.out \in Seq(ToldType) /\ Grown(run.w, z, run.out)
  BY <1>7, <1>8, MoreOK
<1>10. Paint(x, 0) \in FrameType
  <2>1. CanPaint(x, 0)
    BY <1>5, <1>6 DEF CanPaint, SectionType
  <2> QED
    BY <1>5, <2>1, PaintOK
<1>11. m \in OpenedType /\ m.ok /\ m.live = l.live /\ m.book = l.book /\ m.gen = w.gen
  <2>1. x.pages \in Nat /\ x.gen \in Nat /\ x.section.done \in BOOLEAN
    BY <1>6 DEF WorkerType, SectionType
  <2> QED
    BY <1>1, <1>5, <1>6, <1>10, <2>1 DEF OpenedType
<1>11a. Lands(m, run.out, run.w)
  <2>1. x.pages \in Nat /\ x.pages >= 1 /\ x.section.done = (x.est = "complete") /\ x.section.spine = x.spine
    BY <1>5, <1>6 DEF Tracked, WorkerType
  <2>2. Within(View(m), m.frame, z)
    BY <1>5, <1>7, <2>1 DEF Within, View, Paint
  <2>3. Upto(View(m), z)
    BY <1>7, <2>1 DEF Upto, View
  <2>4. m.pages \in Nat /\ z.pages \in Nat /\ run.w.pages \in Nat
    BY <1>7, <1>9, <2>1 DEF WorkerOK, WorkerType
  <2> HIDE DEF m, run
  <2> QED
    BY <1>9, <2>2, <2>3, <2>4, LandsGrown
<1>12. r = [w |-> run.w, out |-> <<m>> \o run.out]
  BY DEF Opens, mounted, given, x, z
<1> HIDE DEF m, run, r
<1>13. r.w = run.w /\ r.out = <<m>> \o run.out
  BY <1>12
<1>14. \E n \in OpenedType, told \in Seq(ToldType) :
         /\ r.out = <<n>> \o told /\ n.ok /\ n.live = l.live /\ n.book = l.book /\ n.gen = w.gen
         /\ Lands(n, told, r.w)
  BY <1>9, <1>11, <1>11a, <1>13
<1>15. WorkerOK(r.w) /\ r.w.loaded /\ r.w.mounted = l.book /\ r.w.gen = w.gen
  BY <1>7, <1>9, <1>13 DEF Kept
<1> QED
  BY <1>14, <1>15 DEF r

LEMMA ZeroSpine ==
  0 \in Spines
<1>1. PICK b \in Books : TRUE
  BY PreviewAssumption
<1>2. SpineCount[b] \in Nat \ {0}
  BY PreviewAssumption
<1> QED
  BY <1>1, <1>2 DEF Spines

LEMMA NotOpenedIs ==
  ASSUME NEW live \in BOOLEAN, NEW b \in Books \cup {NoBook}, NEW gen \in Nat
  PROVE  LET m == NotOpened(live, b, gen)
         IN  m \in OpenedType /\ ~m.ok /\ m.live = live /\ m.book = b /\ m.kind = "opened"
BY ZeroSpine DEF NotOpened, OpenedType

\* No book is open, and nothing the failed open sends can be of a later one.
LEMMA AbortsOK ==
  ASSUME NEW w, WorkerOK(w), Begun(w), NEW l \in LoadType
  PROVE  LET r == Aborts(w, l)
         IN  /\ WorkerOK(r.w) /\ Begun(r.w) /\ r.w.mounted = NoBook
             /\ \E m \in OpenedType :
                  r.out = <<m>> /\ ~m.ok /\ m.live = l.live /\ m.book = l.book
<1> DEFINE m == NotOpened(l.live, l.book, w.gen)
           v == Begin(Mount(w, NoBook))
           r == Aborts(w, l)
<1>1. WorkerOK(Mount(w, NoBook)) /\ Mount(w, NoBook).mounted = NoBook
  BY MountOK
<1>2. WorkerOK(v) /\ Begun(v) /\ v.mounted = NoBook
  BY <1>1, BeginOK
<1>3. l.live \in BOOLEAN /\ l.book \in Books /\ w.gen \in Nat
  BY DEF LoadType, WorkerOK, WorkerType
<1>4. m \in OpenedType /\ ~m.ok /\ m.live = l.live /\ m.book = l.book
  BY <1>3, NotOpenedIs
<1>5. r = [w |-> v, out |-> <<m>>]
  BY DEF Aborts
<1> HIDE DEF m, v, r
<1>6. r.w = v /\ r.out = <<m>>
  BY <1>5
<1> QED
  BY <1>2, <1>4, <1>6 DEF r

\* The worker and the engine change their face together.
LEMMA TakeFaceOK ==
  ASSUME NEW w, WorkerOK(w), NEW f \in Nat
  PROVE  WorkerOK(TakeFace(w, f)) /\ SameBook(TakeFace(w, f), w) /\ Steady(TakeFace(w, f), w)
<1> DEFINE active == [font |-> "custom", stamp |-> w.stamp + 1]
           look == [w.look EXCEPT !.font = "custom", !.face = f]
           v == TakeFace(w, f)
<1>1. w \in WorkerType /\ w.look \in LookType /\ w.stamp \in Nat
  BY DEF WorkerOK, WorkerType
<1>2. look \in LookType /\ look.font = "custom" /\ look.face = f
  BY <1>1 DEF LookType, Fonts
<1>3. active \in FaceType /\ active.font = "custom" /\ w.stamp + 1 \in Nat
  BY <1>1 DEF FaceType, Fonts
<1>4. v = [w EXCEPT !.custom = f, !.stamp = w.stamp + 1, !.applied = active, !.cache = << >>,
                    !.section = NoSection, !.look = look]
  BY DEF TakeFace
<1>5. << >> \in Seq(EntryType)
  OBVIOUS
<1> HIDE DEF active, look, v
<1>6. /\ v \in WorkerType /\ v.custom = f /\ v.applied = active /\ v.cache = << >> /\ v.section = NoSection
      /\ v.look = look /\ v.loaded = w.loaded /\ v.mounted = w.mounted /\ v.gen = w.gen
      /\ v.spec = w.spec /\ v.timers = w.timers /\ v.cont = w.cont
      /\ v.spine = w.spine /\ v.pages = w.pages /\ v.est = w.est
  BY <1>1, <1>2, <1>3, <1>4, <1>5 DEF WorkerType
<1>7. SectionTrue(v) /\ FaceTrue(v)
  BY <1>2, <1>3, <1>6 DEF SectionTrue, Tracked, FaceTrue
<1>8. CacheTrue(v) /\ TimersTrue(v) /\ Idle(v) /\ Held(v) /\ Len(v.cache) <= CacheSize
  BY <1>6, PreviewAssumption DEF WorkerOK, CacheTrue, TimersTrue, Idle, Held
<1> QED
  BY <1>6, <1>7, <1>8 DEF WorkerOK, SameBook, Steady, v

LEMMA DefaultType ==
  Default \in Settings
<1>1. PICK l \in Layouts, t \in Tones : TRUE
  BY PreviewAssumption
<1>2. [font |-> "kopub", layout |-> l, tone |-> t] \in Settings
  BY DEF Settings
<1> QED
  BY <1>2 DEF Default

LEMMA FreshOK ==
  WorkerOK(FreshWorker) /\ ~FreshWorker.loaded /\ FreshWorker.mounted = NoBook
<1> DEFINE w == FreshWorker
<1>1. Default \in Settings
  BY DefaultType
<1>2. Default.layout \in Layouts /\ Default.tone \in Tones
  BY <1>1 DEF Settings
<1>3. NoSpec \in SpecType /\ LayoutKey(NoSpec) \in KeyType /\ NoFace \in FaceType
  BY DEF SpecType, LayoutKey, NoSpec, KeyType, NoFace, FaceType
<1> HIDE DEF w
<1>4. /\ w.loaded = FALSE /\ w.gen = 0 /\ w.applied = NoFace /\ w.cont = NoSpine /\ w.timers = {}
      /\ w.cache = << >> /\ w.mounted = NoBook /\ w.section = NoSection
  BY DEF w, FreshWorker
<1>5. w \in WorkerType
  <2> DEFINE look == [font |-> "kopub", face |-> 0, layout |-> Default.layout, tone |-> Default.tone]
             built == LayoutKey(NoSpec)
  <2>1. look \in LookType
    BY <1>2 DEF LookType, Fonts
  <2>2. built \in KeyType
    BY <1>3
  <2>3. << >> \in Seq(EntryType)
    OBVIOUS
  <2>4. w = [loaded |-> FALSE, gen |-> 0, custom |-> 0, stamp |-> 0, applied |-> NoFace, spec |-> NoSpec,
             spine |-> NoSpine, pages |-> 0, built |-> built, builtStamp |-> 0, est |-> "none",
             cont |-> NoSpine, timers |-> {}, cache |-> << >>, mounted |-> NoBook,
             section |-> NoSection, look |-> look]
    BY DEF w, FreshWorker
  <2> HIDE DEF look, built
  <2> QED
    BY <1>3, <2>1, <2>2, <2>3, <2>4 DEF WorkerType
<1>6. SectionTrue(w) /\ FaceTrue(w) /\ CacheTrue(w) /\ TimersTrue(w) /\ Idle(w) /\ Held(w)
      /\ Len(w.cache) <= CacheSize
  BY <1>4, PreviewAssumption DEF SectionTrue, Tracked, FaceTrue, CacheTrue, TimersTrue, Idle, Held
<1> QED
  BY <1>4, <1>5, <1>6 DEF WorkerOK, w

-----------------------------------------------------------------------------
(***************************************************************************)
(* The session: the inductive invariant.                                   *)
(***************************************************************************)
TakenType   == [kind : {"faceTaken"}, ok : BOOLEAN]
MessageType == RenderedType \cup OpenedType \cup ToldType \cup TakenType

Typed ==
    /\ {book, blob, picked} \subseteq Books \cup {NoBook}
    /\ place \in [spine : Spines, page : Nat, pages : Nat, complete : BOOLEAN]
    /\ choice \in Settings /\ pushed \in SpecType
    /\ {faceLoaded, reported, opening, repaint, booting} \subseteq BOOLEAN
    /\ genSeen \in Nat \cup {-1}
    /\ fontRun \in {"idle", "converting", "sent", "painting"}
    /\ left \in [opens : Int, faces : Int, restarts : Int] /\ left.faces <= MaxFaces
    /\ inbox \in Seq(MessageType) /\ loads \in Seq(LoadType)

\* The answer of the newest open, on its way to the page.
LiveOpen(m) == m.kind = "opened" /\ m.live
Quiet(ms)   == \A i \in DOMAIN ms : ~LiveOpen(ms[i])

\* At most one such answer is on its way ...
OneAnswer(ms) == \A i, j \in DOMAIN ms : LiveOpen(ms[i]) /\ LiveOpen(ms[j]) => i = j

\* ... it is about the last choice, and true of the worker; of a file that was turned away the answer
\* says nothing.
Told(m, w) == IF m.ok THEN w.loaded /\ w.mounted = m.book /\ w.gen = m.gen
                      ELSE m.book # NoBook => ~w.loaded /\ w.mounted = NoBook
AnswersTrue == \A i \in DOMAIN inbox : LiveOpen(inbox[i]) =>
                  inbox[i].book = picked /\ Told(inbox[i], worker)

\* While replacements are queued nothing is open.  The last of them is the newest open, unless a file
\* was turned away since: then all of them are superseded.
Live(ls)      == \A i \in DOMAIN ls : ls[i].live = (i = Len(ls))
Overtaken(ls) == \A i \in DOMAIN ls : ls[i].live = FALSE
Queued ==
    loads # << >> =>
       /\ Begun(worker)
       /\ picked # NoBook => Quiet(inbox) /\ Live(loads) /\ loads[Len(loads)].book = picked
       /\ picked = NoBook => Overtaken(loads)

\* The engine has a book only where the worker calls it open.
Whole(w) == w.loaded <=> w.mounted # NoBook

\* When no answer is awaited, the worker has the book of the page; a page without one has forgotten
\* what a worker that turned its file away still has.
SameMeaning ==
    IF book # NoBook THEN worker.loaded /\ worker.mounted = book /\ genSeen = worker.gen
                     ELSE Whole(worker) /\ (picked # NoBook => ~worker.loaded)
Agreed == /\ loads = << >> => Whole(worker)
          /\ Quiet(inbox) /\ picked = NoBook => book = NoBook
          /\ loads = << >> /\ Quiet(inbox) => SameMeaning

SessionInv == /\ Typed /\ WorkerOK(worker) /\ OneAnswer(inbox)
              /\ AnswersTrue /\ Queued /\ Agreed

\* The same answers of opens are on their way.
Carries(n, m) == \A i \in DOMAIN n : LiveOpen(n[i]) => \E k \in DOMAIN m : m[k] = n[i]
SameOpens(n, m) == Carries(n, m) /\ Carries(m, n) /\ (OneAnswer(m) => OneAnswer(n))

LEMMA KindTells ==
  ASSUME NEW m \in MessageType
  PROVE  /\ m.kind \in {"rendered", "opened", "progress", "sectionError", "faceTaken"}
         /\ m.kind = "rendered" => m \in RenderedType
         /\ m.kind = "opened" => m \in OpenedType
         /\ m.kind \in {"progress", "sectionError"} => m \in ToldType
         /\ m.kind = "faceTaken" => m \in TakenType
<1>1. CASE m \in RenderedType
  <2>1. m.kind = "rendered"
    BY <1>1 DEF RenderedType
  <2> QED
    BY <1>1, <2>1
<1>2. CASE m \in OpenedType
  <2>1. m.kind = "opened"
    BY <1>2 DEF OpenedType
  <2> QED
    BY <1>2, <2>1
<1>3. CASE m \in ToldType
  <2>1. m.kind \in {"progress", "sectionError"}
    BY <1>3 DEF ToldType
  <2> QED
    BY <1>3, <2>1
<1>4. CASE m \in TakenType
  <2>1. m.kind = "faceTaken"
    BY <1>4 DEF TakenType
  <2> QED
    BY <1>4, <2>1
<1> QED
  BY <1>1, <1>2, <1>3, <1>4 DEF MessageType

LEMMA SupersededType ==
  ASSUME NEW ms \in Seq(MessageType), NEW kinds, kinds \subseteq {"rendered", "opened"}
  PROVE  LET n == Superseded(kinds, ms)
         IN  /\ n \in Seq(MessageType) /\ DOMAIN n = DOMAIN ms
             /\ \A i \in DOMAIN ms : ms[i].kind \in kinds => ~LiveOpen(n[i])
             /\ \A i \in DOMAIN ms : ms[i].kind \notin kinds => n[i] = ms[i]
<1> DEFINE n == Superseded(kinds, ms)
<1>1. DOMAIN ms = 1 .. Len(ms) /\ Len(ms) \in Nat
  OBVIOUS
<1>2. /\ DOMAIN n = DOMAIN ms
      /\ \A i \in DOMAIN ms : n[i] = IF ms[i].kind \in kinds THEN [ms[i] EXCEPT !.live = FALSE] ELSE ms[i]
  BY DEF Superseded
<1>3. ASSUME NEW i \in DOMAIN ms, ms[i].kind \in kinds
      PROVE  [ms[i] EXCEPT !.live = FALSE] \in MessageType /\ [ms[i] EXCEPT !.live = FALSE].live = FALSE
  <2> DEFINE m == ms[i]
  <2>1. m \in RenderedType \/ m \in OpenedType
    BY <1>3, KindTells
  <2> HIDE DEF m
  <2>2. CASE m \in RenderedType
    <3>1. [m EXCEPT !.live = FALSE] \in RenderedType /\ [m EXCEPT !.live = FALSE].live = FALSE
      BY <2>2 DEF RenderedType
    <3> QED
      BY <3>1 DEF MessageType, m
  <2>3. CASE m \in OpenedType
    <3>1. [m EXCEPT !.live = FALSE] \in OpenedType /\ [m EXCEPT !.live = FALSE].live = FALSE
      BY <2>3 DEF OpenedType
    <3> QED
      BY <3>1 DEF MessageType, m
  <2> QED
    BY <2>1, <2>2, <2>3
<1>4. \A i \in DOMAIN ms : ms[i] \in MessageType
  OBVIOUS
<1> HIDE DEF n
<1>5. \A i \in DOMAIN ms : n[i] \in MessageType
  BY <1>2, <1>3, <1>4
<1>6. n \in [1 .. Len(ms) -> MessageType]
  <2>1. n = [i \in DOMAIN ms |-> n[i]]
    BY DEF n, Superseded
  <2> QED
    BY <1>1, <1>5, <2>1
<1>7. n \in Seq(MessageType)
  BY <1>1, <1>6
<1>8. \A i \in DOMAIN ms : ms[i].kind \in kinds => ~LiveOpen(n[i])
  BY <1>2, <1>3 DEF LiveOpen
<1> QED
  BY <1>2, <1>7, <1>8 DEF n

LEMMA RendersSuperseded ==
  ASSUME NEW ms \in Seq(MessageType)
  PROVE  Superseded({"rendered"}, ms) \in Seq(MessageType) /\ SameOpens(Superseded({"rendered"}, ms), ms)
<1> DEFINE n == Superseded({"rendered"}, ms)
<1>1. /\ n \in Seq(MessageType) /\ DOMAIN n = DOMAIN ms
      /\ \A i \in DOMAIN ms : ms[i].kind = "rendered" => ~LiveOpen(n[i])
      /\ \A i \in DOMAIN ms : ms[i].kind # "rendered" => n[i] = ms[i]
  BY SupersededType
<1> HIDE DEF n
<1>2. \A i \in DOMAIN ms : LiveOpen(ms[i]) => n[i] = ms[i]
  BY <1>1 DEF LiveOpen
<1>3. \A i \in DOMAIN n : LiveOpen(n[i]) => n[i] = ms[i]
  BY <1>1
<1> QED
  BY <1>1, <1>2, <1>3 DEF SameOpens, Carries, OneAnswer, n

LEMMA AllSuperseded ==
  ASSUME NEW ms \in Seq(MessageType)
  PROVE  /\ Superseded({"rendered", "opened"}, ms) \in Seq(MessageType)
         /\ Quiet(Superseded({"rendered", "opened"}, ms))
<1> DEFINE n == Superseded({"rendered", "opened"}, ms)
           kinds == {"rendered", "opened"}
<1> HIDE DEF kinds
<1>1. /\ n \in Seq(MessageType) /\ DOMAIN n = DOMAIN ms
      /\ \A i \in DOMAIN ms : ms[i].kind \in kinds => ~LiveOpen(n[i])
      /\ \A i \in DOMAIN ms : ms[i].kind \notin kinds => n[i] = ms[i]
  BY SupersededType DEF kinds
<1> HIDE DEF n
<1>2. ASSUME NEW i \in DOMAIN n
      PROVE  ~LiveOpen(n[i])
  <2>1. CASE ms[i].kind \in kinds
    BY <1>1, <2>1
  <2>2. CASE ms[i].kind \notin kinds
    <3>1. n[i].kind \notin kinds
      BY <1>1, <2>2
    <3> QED
      BY <3>1 DEF LiveOpen, kinds
  <2> QED
    BY <2>1, <2>2
<1> QED
  BY <1>1, <1>2 DEF Quiet, n

LEMMA Appended ==
  ASSUME NEW ms \in Seq(MessageType), NEW out \in Seq(MessageType), Quiet(out)
  PROVE  ms \o out \in Seq(MessageType) /\ SameOpens(ms \o out, ms)
<1> DEFINE n == ms \o out
<1>1. /\ n \in Seq(MessageType) /\ DOMAIN n = 1 .. Len(ms) + Len(out) /\ DOMAIN ms = 1 .. Len(ms)
      /\ Len(ms) \in Nat /\ Len(out) \in Nat /\ DOMAIN out = 1 .. Len(out)
  OBVIOUS
<1>2. \A i \in DOMAIN ms : i \in DOMAIN n /\ n[i] = ms[i]
  BY <1>1
<1>3. \A i \in DOMAIN n : i \in DOMAIN ms \/ (i - Len(ms) \in DOMAIN out /\ n[i] = out[i - Len(ms)])
  BY <1>1
<1> HIDE DEF n
<1>4. \A i \in DOMAIN n : LiveOpen(n[i]) => i \in DOMAIN ms /\ n[i] = ms[i]
  BY <1>2, <1>3 DEF Quiet
<1> QED
  BY <1>1, <1>2, <1>4 DEF SameOpens, Carries, OneAnswer, n

LEMMA Taken1 ==
  ASSUME NEW ms \in Seq(MessageType), ms # << >>, ~LiveOpen(Head(ms))
  PROVE  Tail(ms) \in Seq(MessageType) /\ SameOpens(Tail(ms), ms)
<1> DEFINE n == Tail(ms)
<1>1. /\ n \in Seq(MessageType) /\ DOMAIN n = 1 .. Len(ms) - 1 /\ DOMAIN ms = 1 .. Len(ms)
      /\ Len(ms) \in Nat /\ Head(ms) = ms[1]
  OBVIOUS
<1>2. \A i \in DOMAIN n : i + 1 \in DOMAIN ms /\ n[i] = ms[i + 1] /\ i \in Int
  BY <1>1
<1> HIDE DEF n
<1>3. \A i \in DOMAIN ms : i = 1 \/ (i - 1 \in DOMAIN n /\ n[i - 1] = ms[i])
  BY <1>1, <1>2
<1>4. Carries(n, ms)
  BY <1>2 DEF Carries
<1>5. Carries(ms, n)
  BY <1>1, <1>3 DEF Carries
<1>6. ASSUME OneAnswer(ms)
      PROVE  OneAnswer(n)
  <2> SUFFICES ASSUME NEW i \in DOMAIN n, NEW j \in DOMAIN n, LiveOpen(n[i]), LiveOpen(n[j])
               PROVE  i = j
    BY DEF OneAnswer
  <2>1. i + 1 = j + 1
    BY <1>2, <1>6 DEF OneAnswer
  <2> QED
    BY <1>2, <2>1
<1> QED
  BY <1>1, <1>4, <1>5, <1>6 DEF SameOpens, n

LEMMA SameQuiet ==
  ASSUME NEW n, NEW m, SameOpens(n, m)
  PROVE  Quiet(n) <=> Quiet(m)
BY DEF SameOpens, Carries, Quiet

LEMMA SameTwice ==
  ASSUME NEW n, NEW m, NEW k, SameOpens(n, m), SameOpens(m, k)
  PROVE  SameOpens(n, k)
<1>1. ASSUME NEW a, NEW b, NEW c, Carries(a, b), Carries(b, c)
      PROVE  Carries(a, c)
  BY <1>1 DEF Carries
<1> QED
  BY <1>1 DEF SameOpens

LEMMA ReplyQuiet ==
  ASSUME NEW out \in Seq(ReplyType)
  PROVE  out \in Seq(MessageType) /\ Quiet(out)
<1>1. out \in Seq(MessageType)
  BY WiderType DEF ReplyType, MessageType
<1>2. ASSUME NEW i \in DOMAIN out
      PROVE  ~LiveOpen(out[i])
  <2>1. out[i] \in RenderedType \/ out[i] \in ToldType
    BY DEF ReplyType
  <2> DEFINE m == out[i]
  <2> HIDE DEF m
  <2>2. m \in RenderedType \/ m \in ToldType
    BY <2>1 DEF m
  <2>3. m.kind # "opened"
    BY <2>2 DEF RenderedType, ToldType
  <2> QED
    BY <2>3 DEF LiveOpen, m
<1> QED
  BY <1>1, <1>2 DEF Quiet

-----------------------------------------------------------------------------
(***************************************************************************)
(* The position.  The newest answer on its way puts the reader in the      *)
(* worker's chapter; what is posted after it extends the chapter to where  *)
(* the worker is, or says that it was lost.  When none is on its way the   *)
(* same holds of the place on the page, unless an error is on screen.      *)
(***************************************************************************)
NewAnswer(m)  == m.kind \in {"rendered", "opened"} /\ m.live
Landed(ms)    == \A i \in DOMAIN ms : ~NewAnswer(ms[i])
Newest(ms, a) == NewAnswer(ms[a]) /\ \A i \in DOMAIN ms : i > a => ~NewAnswer(ms[i])
Post(m)       == m.kind \in {"progress", "sectionError"}

\* What is posted after message a is about the chapter the worker is in, and the last of it is true,
\* unless the chapter was lost.
Truly(ms, a, w) ==
  \A i \in DOMAIN ms : i > a /\ Post(ms[i]) => ms[i].gen = w.gen /\ ms[i].spine = w.spine /\ ms[i].pages <= w.pages
Lost(ms, a) == \E i \in DOMAIN ms : i > a /\ ms[i].kind = "sectionError"
LastWord(ms, i) == ms[i].kind = "progress" /\ \A j \in DOMAIN ms : j > i => ms[j].kind # "progress"
Ends(ms, a, v, w) ==
  \/ Lost(ms, a)
  \/ (\A i \in DOMAIN ms : i > a => ms[i].kind # "progress") /\ Upto(v, w)
  \/ \E i \in DOMAIN ms : i > a /\ LastWord(ms, i) /\ ms[i].pages = w.pages /\ ms[i].done = (w.est = "complete")

Follows(v, f, ms, a, w) == Within(v, f, w) /\ Truly(ms, a, w) /\ Ends(ms, a, v, w)

AnswersLand(ms, w) ==
  \A a \in DOMAIN ms : Newest(ms, a) /\ ms[a].ok => Follows(View(ms[a]), ms[a].frame, ms, a, w)
PlaceTrue == Landed(inbox) /\ book # NoBook /\ ~reported => Follows(place, shown, inbox, 0, worker)
PositionInv == loads = << >> /\ picked # NoBook => PlaceTrue /\ AnswersLand(inbox, worker)

\* Only where the worker is matters.
LEMMA SteadyFollows ==
  ASSUME NEW w, NEW v, Steady(v, w), NEW at, NEW f, NEW ms, NEW a, Follows(at, f, ms, a, w)
  PROVE  Follows(at, f, ms, a, v)
BY DEF Follows, Within, Truly, Ends, Upto, Steady

LEMMA SteadyLands ==
  ASSUME NEW w, NEW v, Steady(v, w), NEW ms, AnswersLand(ms, w)
  PROVE  AnswersLand(ms, v)
BY SteadyFollows DEF AnswersLand

\* A message has been taken.
LEMMA TailIs ==
  ASSUME NEW ms \in Seq(MessageType), ms # << >>
  PROVE  /\ DOMAIN Tail(ms) = 1 .. Len(ms) - 1 /\ DOMAIN ms = 1 .. Len(ms) /\ Len(ms) \in Nat /\ Len(ms) >= 1
         /\ \A i \in DOMAIN Tail(ms) : i \in Nat /\ i >= 1 /\ i + 1 \in DOMAIN ms /\ Tail(ms)[i] = ms[i + 1]
         /\ \A i \in DOMAIN ms : i > 1 => i - 1 \in DOMAIN Tail(ms) /\ Tail(ms)[i - 1] = ms[i]
         /\ Head(ms) = ms[1] /\ 1 \in DOMAIN ms
<1>1. DOMAIN Tail(ms) = 1 .. Len(ms) - 1 /\ DOMAIN ms = 1 .. Len(ms) /\ Len(ms) \in Nat /\ Len(ms) >= 1
  OBVIOUS
<1>2. \A i \in 1 .. Len(ms) - 1 : Tail(ms)[i] = ms[i + 1]
  OBVIOUS
<1>3. Head(ms) = ms[1]
  OBVIOUS
<1> DEFINE n == Tail(ms)
<1> HIDE DEF n
<1>4. \A i \in DOMAIN ms : i > 1 => i - 1 \in DOMAIN n /\ n[i - 1] = ms[i]
  <2> SUFFICES ASSUME NEW i \in DOMAIN ms, i > 1
               PROVE  i - 1 \in DOMAIN n /\ n[i - 1] = ms[i]
    OBVIOUS
  <2>1. i - 1 \in 1 .. Len(ms) - 1 /\ (i - 1) + 1 = i
    BY <1>1
  <2> QED
    BY <1>1, <1>2, <2>1 DEF n
<1> QED
  BY <1>1, <1>2, <1>3, <1>4 DEF n

LEMMA TailFollows ==
  ASSUME NEW ms \in Seq(MessageType), ms # << >>, NEW a \in Nat, NEW at, NEW f, NEW w,
         Follows(at, f, ms, a + 1, w)
  PROVE  Follows(at, f, Tail(ms), a, w)
<1> DEFINE n == Tail(ms)
<1>1. /\ DOMAIN n = 1 .. Len(ms) - 1 /\ DOMAIN ms = 1 .. Len(ms)
      /\ \A i \in DOMAIN n : i \in Nat /\ i >= 1 /\ i + 1 \in DOMAIN ms /\ n[i] = ms[i + 1]
      /\ \A i \in DOMAIN ms : i \in Nat /\ (i > 1 => i - 1 \in DOMAIN n /\ n[i - 1] = ms[i])
  BY TailIs
<1> HIDE DEF n
<1>2. Within(at, f, w) /\ Truly(n, a, w)
  BY <1>1 DEF Follows, Truly
<1>3. ASSUME Lost(ms, a + 1)
      PROVE  Ends(n, a, at, w)
  <2>1. PICK i \in DOMAIN ms : i > a + 1 /\ ms[i].kind = "sectionError"
    BY <1>3 DEF Lost
  <2>2. i - 1 \in DOMAIN n /\ i - 1 > a /\ n[i - 1].kind = "sectionError"
    BY <1>1, <2>1
  <2> QED
    BY <2>2 DEF Ends, Lost
<1>4. ASSUME (\A i \in DOMAIN ms : i > a + 1 => ms[i].kind # "progress") /\ Upto(at, w)
      PROVE  Ends(n, a, at, w)
  <2>1. \A i \in DOMAIN n : i > a => n[i].kind # "progress"
    BY <1>1, <1>4
  <2> QED
    BY <1>4, <2>1 DEF Ends
<1>5. ASSUME \E i \in DOMAIN ms : i > a + 1 /\ LastWord(ms, i) /\ ms[i].pages = w.pages
                                  /\ ms[i].done = (w.est = "complete")
      PROVE  Ends(n, a, at, w)
  <2>1. PICK i \in DOMAIN ms : i > a + 1 /\ LastWord(ms, i) /\ ms[i].pages = w.pages
                               /\ ms[i].done = (w.est = "complete")
    BY <1>5
  <2> DEFINE k == i - 1
  <2>2. k \in DOMAIN n /\ k > a /\ n[k] = ms[i] /\ k + 1 = i
    BY <1>1, <2>1
  <2> HIDE DEF k
  <2>3. LastWord(n, k)
    BY <1>1, <2>1, <2>2 DEF LastWord
  <2> QED
    BY <2>1, <2>2, <2>3 DEF Ends
<1>6. Ends(n, a, at, w)
  BY <1>3, <1>4, <1>5 DEF Follows, Ends
<1> QED
  BY <1>2, <1>6 DEF Follows, n

LEMMA TailLands ==
  ASSUME NEW ms \in Seq(MessageType), ms # << >>, NEW w, AnswersLand(ms, w)
  PROVE  AnswersLand(Tail(ms), w)
<1> DEFINE n == Tail(ms)
<1> SUFFICES ASSUME NEW a \in DOMAIN n, Newest(n, a), n[a].ok
             PROVE  Follows(View(n[a]), n[a].frame, n, a, w)
  BY DEF AnswersLand
<1>1. /\ a \in Nat /\ a + 1 \in DOMAIN ms /\ n[a] = ms[a + 1]
      /\ \A i \in DOMAIN ms : i \in Nat /\ (i > 1 => i - 1 \in DOMAIN n /\ n[i - 1] = ms[i])
      /\ a >= 1
  BY TailIs
<1> HIDE DEF n
<1>2. \A i \in DOMAIN ms : i > a + 1 => i - 1 \in DOMAIN n /\ i - 1 > a /\ n[i - 1] = ms[i]
  BY <1>1
<1>3. Newest(ms, a + 1)
  BY <1>1, <1>2 DEF Newest
<1>4. Follows(View(n[a]), n[a].frame, ms, a + 1, w)
  BY <1>1, <1>3 DEF AnswersLand
<1> QED
  BY <1>1, <1>4, TailFollows DEF n

\* Messages that post nothing about a chapter move nobody.
LEMMA HeadSkipped ==
  ASSUME NEW ms \in Seq(MessageType), ms # << >>, NEW at, NEW f, NEW w, ~Post(Head(ms)),
         Follows(at, f, ms, 0, w)
  PROVE  Follows(at, f, Tail(ms), 0, w)
<1>1. ms[1].kind \notin {"progress", "sectionError"} /\ DOMAIN ms = 1 .. Len(ms)
  BY TailIs DEF Post
<1>2. Follows(at, f, ms, 1, w)
  <2>1. Truly(ms, 1, w)
    BY <1>1 DEF Follows, Truly
  <2>2. Ends(ms, 1, at, w)
    <3>1. \A i \in DOMAIN ms : ms[i].kind \in {"progress", "sectionError"} => i > 1
      BY <1>1
    <3> QED
      BY <1>1, <3>1 DEF Follows, Ends, Lost, LastWord
  <2> QED
    BY <2>1, <2>2 DEF Follows
<1> QED
  BY <1>2, TailFollows

\* An answer joins, with what is posted after it.
LEMMA AnswerJoins ==
  ASSUME NEW ms \in Seq(MessageType), NEW m \in RenderedType \cup OpenedType, m.live,
         NEW told \in Seq(ToldType), NEW w, Lands(m, told, w)
  PROVE  LET n == ms \o (<<m>> \o told)
         IN  ~Landed(n) /\ AnswersLand(n, w)
<1> DEFINE n == ms \o (<<m>> \o told)
           k == Len(ms) + 1
<1>1. m \in MessageType /\ NewAnswer(m)
  BY DEF MessageType, NewAnswer, RenderedType, OpenedType
<1>2. told \in Seq(MessageType)
  BY WiderType DEF MessageType
<1>3. /\ DOMAIN n = 1 .. k + Len(told) /\ Len(ms) \in Nat /\ Len(told) \in Nat
      /\ DOMAIN ms = 1 .. Len(ms) /\ DOMAIN told = 1 .. Len(told)
  BY <1>1, <1>2
<1>4. n[k] = m /\ k \in DOMAIN n
  BY <1>1, <1>2, <1>3
<1>5. \A i \in DOMAIN n : i > k => i - k \in DOMAIN told /\ n[i] = told[i - k]
  BY <1>1, <1>2, <1>3
<1>6. \A i \in DOMAIN told : ~NewAnswer(told[i])
  <2> SUFFICES ASSUME NEW i \in DOMAIN told
               PROVE  ~NewAnswer(told[i])
    OBVIOUS
  <2>1. told[i] \in ToldType
    OBVIOUS
  <2> QED
    BY <2>1 DEF ToldType, NewAnswer
<1>7. k \in Nat
  BY <1>3
<1> HIDE DEF n, k
<1>8. ~Landed(n)
  BY <1>1, <1>4 DEF Landed
<1>9. ASSUME NEW a \in DOMAIN n, Newest(n, a), n[a].ok
      PROVE  Follows(View(n[a]), n[a].frame, n, a, w)
  <2>1. a = k
    <3>1. a \in Nat
      BY <1>3, <1>7
    <3>2. ~(k > a)
      BY <1>1, <1>4, <1>9 DEF Newest
    <3>3. ~(a > k)
      BY <1>5, <1>6, <1>9 DEF Newest
    <3> QED
      BY <1>7, <3>1, <3>2, <3>3
  <2>2. m.ok /\ Within(View(m), m.frame, w)
    BY <1>4, <1>9, <2>1 DEF Lands
  <2>3. CASE told = << >> /\ Upto(View(m), w)
    <3>1. \A i \in DOMAIN n : ~(i > k)
      BY <1>3, <1>5, <2>3
    <3> QED
      BY <1>4, <2>1, <2>2, <2>3, <3>1 DEF Follows, Truly, Ends
  <2>4. CASE \E x \in ToldType : told = <<x>> /\ Says(x, w)
    <3>1. PICK x \in ToldType : told = <<x>> /\ Says(x, w)
      BY <2>4
    <3>2. Len(told) = 1 /\ told[1] = x
      BY <3>1
    <3>3. \A i \in DOMAIN n : i > k => i = k + 1
      BY <1>3, <1>7, <3>2
    <3>4. k + 1 \in DOMAIN n /\ k + 1 > k /\ n[k + 1] = x
      BY <1>3, <1>5, <1>7, <3>2
    <3>5. Truly(n, k, w)
      BY <3>1, <3>3, <3>4 DEF Truly, Says
    <3>6. Ends(n, k, View(m), w)
      <4>1. CASE x.kind = "sectionError"
        BY <3>4, <4>1 DEF Ends, Lost
      <4>2. CASE x.kind = "progress"
        <5>1. LastWord(n, k + 1)
          <6>1. \A j \in DOMAIN n : ~(j > k + 1)
            BY <1>3, <1>7, <3>2
          <6> QED
            BY <3>4, <4>2, <6>1 DEF LastWord
        <5> QED
          BY <3>1, <3>4, <4>2, <5>1 DEF Ends, Says
      <4> QED
        BY <3>1, <4>1, <4>2 DEF Says
    <3> QED
      BY <1>4, <2>1, <2>2, <3>5, <3>6 DEF Follows
  <2> QED
    BY <1>4, <1>9, <2>1, <2>3, <2>4 DEF Lands
<1> QED
  BY <1>8, <1>9 DEF AnswersLand, n

\* A turn of the continuation extends what it finds; an answer about a face leaves it alone.
LEMMA PostFollows ==
  ASSUME NEW ms \in Seq(MessageType), NEW x \in ToldType \cup TakenType, NEW v, NEW w,
         v.pages \in Nat, w.pages \in Nat, v.gen = w.gen, v.mounted = w.mounted, v.spine = w.spine,
         w.pages <= v.pages, IF x \in ToldType THEN Says(x, v) ELSE Steady(v, w),
         NEW at, at.pages \in Nat, NEW f, NEW a \in 0 .. Len(ms), Follows(at, f, ms, a, w)
  PROVE  Follows(at, f, Append(ms, x), a, v)
<1> DEFINE n == Append(ms, x)
           k == Len(ms) + 1
<1>1. /\ DOMAIN n = 1 .. k /\ DOMAIN ms = 1 .. Len(ms) /\ Len(ms) \in Nat /\ n[k] = x
      /\ \A i \in DOMAIN ms : i \in DOMAIN n /\ n[i] = ms[i] /\ i < k
      /\ \A i \in DOMAIN n : i = k \/ (i \in DOMAIN ms /\ n[i] = ms[i])
  <2>1. x \in MessageType
    BY DEF MessageType
  <2> QED
    BY <2>1
<1>2. k \in DOMAIN n /\ k > a /\ k \in Nat
  BY <1>1
<1>2a. \A i \in DOMAIN ms : ms[i] \in MessageType
  OBVIOUS
<1> HIDE DEF n, k
<1>3. Within(at, f, v)
  BY DEF Follows, Within
<1>4. x.kind = "faceTaken" \/ x.kind = "progress" \/ x.kind = "sectionError"
  BY DEF ToldType, TakenType
<1>5. x.kind # "faceTaken" => x \in ToldType /\ Says(x, v)
  BY DEF TakenType
<1>6. x.kind = "faceTaken" => Steady(v, w)
  BY DEF ToldType
<1>7. Truly(n, a, v)
  <2> SUFFICES ASSUME NEW i \in DOMAIN n, i > a, Post(n[i])
               PROVE  n[i].gen = v.gen /\ n[i].spine = v.spine /\ n[i].pages <= v.pages
    BY DEF Truly
  <2>1. CASE i = k
    BY <1>1, <1>5, <2>1 DEF Post, Says
  <2>2. CASE i \in DOMAIN ms
    <3>1. n[i] = ms[i] /\ ms[i].gen = w.gen /\ ms[i].spine = w.spine /\ ms[i].pages <= w.pages
      BY <1>1, <2>2 DEF Follows, Truly
    <3>2. ms[i].pages \in Nat
      <4>1. ms[i] \in ToldType
        BY <1>2a, <2>2, <3>1, KindTells DEF Post
      <4> QED
        BY <4>1 DEF ToldType
    <3> QED
      BY <3>1, <3>2
  <2> QED
    BY <1>1, <2>1, <2>2
<1>8. Ends(n, a, at, v)
  <2>1. CASE x.kind = "sectionError"
    BY <1>1, <1>2, <2>1 DEF Ends, Lost
  <2>2. CASE x.kind = "progress"
    <3>1. LastWord(n, k)
      <4>1. \A j \in DOMAIN n : ~(j > k)
        BY <1>1, <1>2
      <4> QED
        BY <1>1, <2>2, <4>1 DEF LastWord
    <3>2. n[k].pages = v.pages /\ n[k].done = (v.est = "complete")
      BY <1>1, <1>5, <2>2 DEF Says
    <3> QED
      BY <1>2, <3>1, <3>2 DEF Ends
  <2>3. CASE x.kind = "faceTaken"
    <3>1. Ends(ms, a, at, v)
      BY <1>6, <2>3 DEF Follows, Ends, Upto, Steady
    <3>2. n[k].kind = "faceTaken"
      BY <1>1, <2>3
    <3>3. CASE Lost(ms, a)
      BY <1>1, <3>3 DEF Ends, Lost
    <3>4. CASE (\A i \in DOMAIN ms : i > a => ms[i].kind # "progress") /\ Upto(at, v)
      BY <1>1, <3>2, <3>4 DEF Ends
    <3>5. CASE \E i \in DOMAIN ms : i > a /\ LastWord(ms, i) /\ ms[i].pages = v.pages
                                    /\ ms[i].done = (v.est = "complete")
      <4>1. PICK i \in DOMAIN ms : i > a /\ LastWord(ms, i) /\ ms[i].pages = v.pages
                                   /\ ms[i].done = (v.est = "complete")
        BY <3>5
      <4>2. LastWord(n, i)
        BY <1>1, <3>2, <4>1 DEF LastWord
      <4> QED
        BY <1>1, <4>1, <4>2 DEF Ends
    <3> QED
      BY <3>1, <3>3, <3>4, <3>5 DEF Ends
  <2> QED
    BY <1>4, <2>1, <2>2, <2>3
<1> QED
  BY <1>3, <1>7, <1>8 DEF Follows, n

LEMMA PostLands ==
  ASSUME NEW ms \in Seq(MessageType), NEW x \in ToldType \cup TakenType, NEW v, NEW w,
         v.pages \in Nat, w.pages \in Nat, v.gen = w.gen, v.mounted = w.mounted, v.spine = w.spine,
         w.pages <= v.pages, IF x \in ToldType THEN Says(x, v) ELSE Steady(v, w)
  PROVE  /\ Landed(Append(ms, x)) => Landed(ms)
         /\ AnswersLand(ms, w) => AnswersLand(Append(ms, x), v)
<1> DEFINE n == Append(ms, x)
           k == Len(ms) + 1
<1>1. /\ DOMAIN n = 1 .. k /\ DOMAIN ms = 1 .. Len(ms) /\ Len(ms) \in Nat /\ n[k] = x
      /\ \A i \in DOMAIN ms : i \in DOMAIN n /\ n[i] = ms[i] /\ i < k
      /\ \A i \in DOMAIN n : i = k \/ (i \in DOMAIN ms /\ n[i] = ms[i])
  <2>1. x \in MessageType
    BY DEF MessageType
  <2> QED
    BY <2>1
<1>2. ~NewAnswer(x)
  BY DEF ToldType, TakenType, NewAnswer
<1> HIDE DEF n, k
<1>3. Landed(n) => Landed(ms)
  BY <1>1 DEF Landed
<1>4. ASSUME AnswersLand(ms, w), NEW a \in DOMAIN n, Newest(n, a), n[a].ok
      PROVE  Follows(View(n[a]), n[a].frame, n, a, v)
  <2>1. a \in DOMAIN ms /\ n[a] = ms[a] /\ a \in 0 .. Len(ms)
    BY <1>1, <1>2, <1>4 DEF Newest
  <2>2. Newest(ms, a)
    BY <1>1, <1>4, <2>1 DEF Newest
  <2>3. Follows(View(ms[a]), ms[a].frame, ms, a, w)
    BY <1>4, <2>1, <2>2 DEF AnswersLand
  <2>4. View(ms[a]).pages \in Nat
    <3>1. ms[a] \in MessageType /\ ms[a].kind \in {"rendered", "opened"}
      BY <2>1, <2>2 DEF Newest, NewAnswer
    <3>2. ms[a] \in RenderedType \cup OpenedType
      BY <3>1, KindTells
    <3>3. ms[a].pages \in Nat
      BY <3>2 DEF RenderedType, OpenedType
    <3> QED
      BY <3>3 DEF View
  <2>5. Follows(View(ms[a]), ms[a].frame, n, a, v)
    BY <2>1, <2>3, <2>4, PostFollows DEF n
  <2> QED
    BY <2>1, <2>5
<1> QED
  BY <1>3, <1>4 DEF AnswersLand, n

-----------------------------------------------------------------------------
(***************************************************************************)
(* The steps of the session.                                               *)
(***************************************************************************)
PlaceType == [spine : Spines, page : Nat, pages : Nat, complete : BOOLEAN]

\* A step that answers no open and starts none.
LEMMA StepKeeps ==
  ASSUME SessionInv, Typed', WorkerOK(worker'), SameBook(worker', worker),
         loads # << >> => worker'.applied = worker.applied, SameOpens(inbox', inbox),
         UNCHANGED <<book, genSeen, picked, loads>>
  PROVE  SessionInv'
<1>1. /\ inbox \in Seq(MessageType) /\ Queued /\ AnswersTrue /\ Agreed /\ OneAnswer(inbox)
      /\ Quiet(inbox) <=> Quiet(inbox')
  BY SameQuiet DEF SessionInv, Typed
<1>2. OneAnswer(inbox')
  BY <1>1 DEF SameOpens
<1>3. AnswersTrue'
  <2> SUFFICES ASSUME NEW i \in DOMAIN inbox', LiveOpen(inbox'[i])
               PROVE  inbox'[i].book = picked' /\ Told(inbox'[i], worker')
    BY DEF AnswersTrue
  <2>1. PICK k \in DOMAIN inbox : inbox[k] = inbox'[i]
    BY DEF SameOpens, Carries
  <2>2. inbox[k].book = picked /\ Told(inbox[k], worker)
    BY <1>1, <2>1 DEF AnswersTrue
  <2> QED
    BY <2>1, <2>2 DEF Told, SameBook
<1>4. Queued'
  BY <1>1 DEF Queued, Begun, SameBook
<1>5. Agreed'
  BY <1>1 DEF Agreed, SameMeaning, SameBook, Whole
<1> QED
  BY <1>2, <1>3, <1>4, <1>5 DEF SessionInv

\* The page asks for a page.
LEMMA RefreshKeeps ==
  ASSUME SessionInv, book \in Books, NEW at \in PlaceType, NEW whole \in BOOLEAN, NEW face \in BOOLEAN,
         NEW c \in Settings, NEW ms \in Seq(MessageType), Refresh(at, whole, face, c, ms)
  PROVE  /\ WorkerOK(worker') /\ SameBook(worker', worker) /\ (loads # << >> => worker' = worker)
         /\ inbox' \in Seq(MessageType) /\ SameOpens(inbox', ms)
         /\ loads = << >> => ~Landed(inbox') /\ AnswersLand(inbox', worker')
<1>1. PICK ok \in Outcome("build"), more \in Outcome("more") :
        LET spec == readSpec(c)
            q == [spec |-> IF spec = pushed THEN NoSpec ELSE spec, whole |-> whole, face |-> face,
                  spine |-> IF at.spine < SpineCount[book] THEN at.spine ELSE SpineCount[book] - 1,
                  page |-> at.page]
            r == IF loads = <<>> THEN Render(worker, q, ok, more) ELSE Refused(q, worker)
        IN worker' = r.w /\ inbox' = Superseded({"rendered"}, ms) \o r.out
  BY DEF Refresh
<1> DEFINE spec == IF readSpec(c) = pushed THEN NoSpec ELSE readSpec(c)
           spine == IF at.spine < SpineCount[book] THEN at.spine ELSE SpineCount[book] - 1
           q == [spec |-> spec, whole |-> whole, face |-> face, spine |-> spine, page |-> at.page]
           r == IF loads = <<>> THEN Render(worker, q, ok, more) ELSE Refused(q, worker)
           n == Superseded({"rendered"}, ms)
<1>2. worker' = r.w /\ inbox' = n \o r.out
  BY <1>1
<1>3. ok \in BOOLEAN /\ more \in BOOLEAN /\ WorkerOK(worker)
  BY DEF Outcome, SessionInv
<1>4. q \in QueryType
  <2>1. spec \in SpecType
    <3>1. readSpec(c) \in Settings
      BY DEF readSpec, Settings
    <3> QED
      BY <3>1 DEF SpecType
  <2>2. spine \in Spines /\ at.page \in Nat
    <3>1. at.spine \in Spines /\ at.page \in Nat
      BY DEF PlaceType
    <3>2. SpineCount[book] \in Nat \ {0}
      BY PreviewAssumption
    <3>3. SpineCount[book] - 1 \in Spines
      BY <3>2 DEF Spines
    <3> QED
      BY <3>1, <3>3
  <2> HIDE DEF spec, spine
  <2> QED
    BY <2>1, <2>2 DEF QueryType
<1> HIDE DEF q, r, n
<1>5. WorkerOK(r.w) /\ SameBook(r.w, worker) /\ r.out \in Seq(ReplyType)
      /\ (loads # << >> => r.w = worker) /\ (loads = << >> => Replied(r))
  <2>1. CASE loads = << >>
    <3>1. r = Render(worker, q, ok, more)
      BY <2>1 DEF r
    <3> QED
      BY <1>3, <1>4, <2>1, <3>1, RenderOK
  <2>2. CASE loads # << >>
    <3>1. r = Refused(q, worker)
      BY <2>2 DEF r
    <3>2. r.w = worker /\ r.out \in Seq(ReplyType)
      BY <1>3, <1>4, <3>1, RefusedOK
    <3> QED
      BY <1>3, <2>2, <3>2 DEF SameBook
  <2> QED
    BY <2>1, <2>2
<1>6. n \in Seq(MessageType) /\ SameOpens(n, ms)
  BY RendersSuperseded DEF n
<1>7. r.out \in Seq(MessageType) /\ Quiet(r.out)
  BY <1>5, ReplyQuiet
<1>8. n \o r.out \in Seq(MessageType) /\ SameOpens(n \o r.out, n)
  BY <1>6, <1>7, Appended
<1>9. ASSUME loads = << >>
      PROVE  ~Landed(inbox') /\ AnswersLand(inbox', worker')
  <2>1. PICK m \in RenderedType, told \in Seq(ToldType) :
          r.out = <<m>> \o told /\ m.live /\ Lands(m, told, r.w)
    BY <1>5, <1>9 DEF Replied
  <2> DEFINE x == n \o (<<m>> \o told)
  <2>2. ~Landed(x) /\ AnswersLand(x, r.w)
    BY <1>6, <2>1, AnswerJoins
  <2> HIDE DEF x
  <2>3. inbox' = x
    BY <1>2, <2>1 DEF x
  <2> QED
    BY <1>2, <2>2, <2>3
<1> QED
  BY <1>2, <1>5, <1>6, <1>8, <1>9, SameTwice

\* The page asks for a page: the answer is the newest.
LEMMA RefreshPosition ==
  ASSUME UNCHANGED loads, loads = << >> => ~Landed(inbox') /\ AnswersLand(inbox', worker')
  PROVE  PositionInv'
BY DEF PositionInv, PlaceTrue

LEMMA ContinueStep ==
  ASSUME SessionInv, Continue
  PROVE  SessionInv'
<1>1. PICK ok \in Outcome("more") : worker' = More(worker, ok).w /\ inbox' = inbox \o More(worker, ok).out
  BY DEF Continue
<1> DEFINE r == More(worker, ok)
<1>2. WorkerOK(r.w) /\ Kept(r.w, worker) /\ r.out \in Seq(ToldType)
  BY MoreOK DEF Outcome, SessionInv
<1>3. worker' = r.w /\ inbox' = inbox \o r.out
  BY <1>1
<1> HIDE DEF r
<1>4. r.out \in Seq(ReplyType)
  BY <1>2, WiderType DEF ReplyType
<1>5. inbox' \in Seq(MessageType) /\ SameOpens(inbox', inbox)
  BY <1>3, <1>4, ReplyQuiet, Appended DEF SessionInv, Typed
<1>6. Typed'
  BY <1>5 DEF Continue, page, SessionInv, Typed
<1> QED
  BY <1>2, <1>3, <1>5, <1>6, StepKeeps DEF Continue, page, Kept, SameBook

LEMMA TimerStep ==
  ASSUME SessionInv, TimerFires
  PROVE  SessionInv'
<1>1. PICK t \in worker.timers : worker' = Prefetch(worker, t)
  BY DEF TimerFires
<1>2. WorkerOK(worker') /\ SameBook(worker', worker) /\ worker'.applied = worker.applied
  BY <1>1, PrefetchOK DEF SessionInv
<1>3. Typed' /\ SameOpens(inbox', inbox)
  BY DEF TimerFires, page, SessionInv, Typed, SameOpens, Carries
<1> QED
  BY <1>2, <1>3, StepKeeps DEF TimerFires, page

\* A page turn, a chapter: another place is asked for, and the answer will say where that is.
LEMMA MovesStep ==
  ASSUME SessionInv, book # NoBook, NEW at \in PlaceType, NEW whole \in BOOLEAN, Moves(at, whole)
  PROVE  SessionInv' /\ PositionInv'
<1>1. book \in Books /\ choice \in Settings /\ inbox \in Seq(MessageType)
  BY DEF SessionInv, Typed
<1>2. /\ WorkerOK(worker') /\ SameBook(worker', worker) /\ (loads # << >> => worker' = worker)
      /\ inbox' \in Seq(MessageType) /\ SameOpens(inbox', inbox)
      /\ loads = << >> => ~Landed(inbox') /\ AnswersLand(inbox', worker')
  BY <1>1, RefreshKeeps DEF Moves
<1>3. Typed'
  BY <1>2 DEF Moves, SessionInv, Typed, PlaceType
<1>4. PositionInv'
  BY <1>2, RefreshPosition DEF Moves
<1> QED
  BY <1>2, <1>3, <1>4, StepKeeps DEF Moves

LEMMA PageTurnStep ==
  ASSUME SessionInv, NEW delta \in {-1, 1}, goPage(delta)
  PROVE  SessionInv' /\ PositionInv'
<1>1. /\ place \in PlaceType /\ place.spine \in Spines /\ place.page \in Nat /\ place.spine \in Nat
      /\ book # NoBook
  <2>1. place \in PlaceType /\ book # NoBook
    BY DEF SessionInv, Typed, PlaceType, goPage
  <2>2. place.spine \in Spines /\ place.page \in Nat
    BY <2>1 DEF PlaceType
  <2>3. PICK b \in Books : place.spine \in 0 .. SpineCount[b] - 1
    BY <2>2 DEF Spines
  <2>4. place.spine \in Nat
    BY <2>3, PreviewAssumption
  <2> QED
    BY <2>1, <2>2, <2>4
<1> DEFINE target == place.page + delta
           back == [place EXCEPT !.spine = @ - 1, !.page = Far]
           same == [place EXCEPT !.page = target]
           on   == [place EXCEPT !.spine = @ + 1, !.page = 0]
<1>2. \/ place.spine > 0 /\ Moves(back, TRUE)
      \/ target >= 0 /\ Moves(same, FALSE)
      \/ place.spine < SpineCount[book] - 1 /\ Moves(on, FALSE)
  BY DEF goPage
<1>3. place.spine > 0 => back \in PlaceType
  <2> SUFFICES ASSUME place.spine > 0
               PROVE  back \in PlaceType
    OBVIOUS
  <2>1. PICK b \in Books : place.spine \in 0 .. SpineCount[b] - 1
    BY <1>1 DEF Spines
  <2>2. place.spine - 1 \in 0 .. SpineCount[b] - 1
    BY <2>1, PreviewAssumption
  <2>3. place.spine - 1 \in Spines
    BY <2>2 DEF Spines
  <2> QED
    BY <1>1, <2>3 DEF PlaceType, Far
<1>4. target >= 0 => same \in PlaceType
  BY <1>1 DEF PlaceType
<1>5. place.spine < SpineCount[book] - 1 => on \in PlaceType
  <2> SUFFICES ASSUME place.spine < SpineCount[book] - 1
               PROVE  on \in PlaceType
    OBVIOUS
  <2>1. book \in Books
    BY <1>1 DEF SessionInv, Typed
  <2>2. place.spine + 1 \in 0 .. SpineCount[book] - 1
    BY <1>1, <2>1, PreviewAssumption
  <2>3. place.spine + 1 \in Spines
    BY <2>1, <2>2 DEF Spines
  <2> QED
    BY <1>1, <2>3 DEF PlaceType
<1> HIDE DEF back, same, on
<1>6. CASE place.spine > 0 /\ Moves(back, TRUE)
  BY <1>1, <1>3, <1>6, MovesStep
<1>7. CASE target >= 0 /\ Moves(same, FALSE)
  BY <1>1, <1>4, <1>7, MovesStep
<1>8. CASE place.spine < SpineCount[book] - 1 /\ Moves(on, FALSE)
  BY <1>1, <1>5, <1>8, MovesStep
<1> QED
  BY <1>2, <1>6, <1>7, <1>8

LEMMA ChapterStep ==
  ASSUME SessionInv, PickChapter
  PROVE  SessionInv' /\ PositionInv'
<1>1. PICK s \in 0 .. SpineCount[book] - 1 : Moves([place EXCEPT !.spine = s, !.page = 0], FALSE)
  BY DEF PickChapter
<1>2. book # NoBook /\ book \in Books /\ place \in PlaceType
  BY DEF PickChapter, SessionInv, Typed, PlaceType
<1>3. s \in Spines
  BY <1>2 DEF Spines
<1>4. [place EXCEPT !.spine = s, !.page = 0] \in PlaceType
  BY <1>2, <1>3 DEF PlaceType
<1> QED
  BY <1>1, <1>2, <1>4, MovesStep

\* Controls, debounces and conversions touch neither the worker nor what it has said.
LEMMA ControlStep ==
  ASSUME SessionInv, TurnKnob \/ ChooseFace \/ PickFace \/ ConvertEnds
  PROVE  SessionInv'
<1>1. choice' \in Settings
  BY DEF SessionInv, Typed, TurnKnob, ChooseFace, PickFace, ConvertEnds, Settings
<1>2. UNCHANGED <<book, blob, place, pushed, faceLoaded, reported, opening, booting, genSeen, picked,
                  inbox, loads, worker>>
  BY DEF TurnKnob, ChooseFace, PickFace, ConvertEnds
<1>3. repaint' \in BOOLEAN /\ fontRun' \in {"idle", "converting", "sent", "painting"}
  BY DEF SessionInv, Typed, TurnKnob, ChooseFace, PickFace, ConvertEnds
<1>4. left' \in [opens : Int, faces : Int, restarts : Int] /\ left'.faces <= MaxFaces
  <2>1. left' = left \/ left' = [left EXCEPT !.faces = @ - 1]
    BY DEF TurnKnob, ChooseFace, PickFace, ConvertEnds
  <2>2. left \in [opens : Int, faces : Int, restarts : Int] /\ left.faces <= MaxFaces /\ MaxFaces \in Nat
    BY PreviewAssumption DEF SessionInv, Typed
  <2> QED
    BY <2>1, <2>2
<1>5. Typed'
  BY <1>1, <1>2, <1>3, <1>4 DEF SessionInv, Typed
<1>6. WorkerOK(worker') /\ SameBook(worker', worker) /\ SameOpens(inbox', inbox)
  BY <1>2 DEF SessionInv, SameBook, SameOpens, Carries
<1> QED
  BY <1>2, <1>5, <1>6, StepKeeps

LEMMA RepaintStep ==
  ASSUME SessionInv, Repaint
  PROVE  SessionInv'
<1>1. CASE book = NoBook
  <2>1. UNCHANGED <<worker, inbox>>
    BY <1>1 DEF Repaint
  <2>2. Typed'
    BY <2>1 DEF Repaint, SessionInv, Typed
  <2>3. WorkerOK(worker') /\ SameBook(worker', worker) /\ SameOpens(inbox', inbox)
    BY <2>1 DEF SessionInv, SameBook, SameOpens, Carries
  <2> QED
    BY <2>1, <2>2, <2>3, StepKeeps DEF Repaint
<1>2. CASE book # NoBook
  <2>1. book \in Books /\ choice \in Settings /\ inbox \in Seq(MessageType) /\ place \in PlaceType
    BY <1>2 DEF SessionInv, Typed, PlaceType
  <2>2. /\ WorkerOK(worker') /\ SameBook(worker', worker) /\ (loads # << >> => worker' = worker)
        /\ inbox' \in Seq(MessageType) /\ SameOpens(inbox', inbox)
    BY <1>2, <2>1, RefreshKeeps DEF Repaint
  <2>3. Typed'
    BY <2>2 DEF Repaint, SessionInv, Typed
  <2> QED
    BY <2>2, <2>3, StepKeeps DEF Repaint
<1> QED
  BY <1>1, <1>2

LEMMA SendFaceStep ==
  ASSUME SessionInv, SendFace
  PROVE  SessionInv'
<1>1. PICK ok \in Outcome("face") :
        LET taken == ok /\ loads = <<>>
        IN /\ worker' = IF taken THEN TakeFace(worker, MaxFaces - left.faces) ELSE worker
           /\ inbox' = Append(inbox, [kind |-> "faceTaken", ok |-> taken])
  BY DEF SendFace
<1> DEFINE taken == ok /\ loads = <<>>
           m == [kind |-> "faceTaken", ok |-> taken]
           f == MaxFaces - left.faces
<1>2. worker' = (IF taken THEN TakeFace(worker, f) ELSE worker) /\ inbox' = Append(inbox, m)
  BY <1>1
<1>3. taken \in BOOLEAN /\ WorkerOK(worker) /\ inbox \in Seq(MessageType)
  BY DEF Outcome, SessionInv, Typed
<1>4. f \in Nat
  BY PreviewAssumption DEF SessionInv, Typed
<1>5. taken => loads = << >>
  OBVIOUS
<1>6. m \in MessageType /\ ~LiveOpen(m)
  BY <1>3 DEF TakenType, MessageType, LiveOpen
<1> HIDE DEF taken, m, f
<1>7. WorkerOK(worker') /\ SameBook(worker', worker) /\ (loads # << >> => worker' = worker)
  <2>1. CASE taken
    BY <1>2, <1>3, <1>4, <1>5, <2>1, TakeFaceOK
  <2>2. CASE ~taken
    BY <1>2, <1>3, <2>2 DEF SameBook
  <2> QED
    BY <2>1, <2>2
<1>8. inbox' \in Seq(MessageType) /\ SameOpens(inbox', inbox)
  <2>1. <<m>> \in Seq(MessageType) /\ Quiet(<<m>>)
    BY <1>6 DEF Quiet
  <2>2. inbox' = inbox \o <<m>>
    BY <1>2, <1>3, <1>6
  <2> QED
    BY <1>3, <2>1, <2>2, Appended
<1>9. Typed'
  BY <1>8 DEF SendFace, SessionInv, Typed
<1> QED
  BY <1>7, <1>8, <1>9, StepKeeps DEF SendFace

\* An answer that is not that of an open.
LEMMA HeadKind ==
  ASSUME SessionInv, NEW kind \in {"rendered", "progress", "sectionError", "faceTaken"}, Hears(kind)
  PROVE  /\ inbox # << >> /\ Head(inbox) \in MessageType /\ Head(inbox).kind = kind
         /\ ~LiveOpen(Head(inbox))
         /\ Tail(inbox) \in Seq(MessageType) /\ SameOpens(Tail(inbox), inbox)
<1>1. inbox # << >> /\ Head(inbox) \in MessageType /\ Head(inbox).kind = kind /\ inbox \in Seq(MessageType)
  BY DEF SessionInv, Typed, Hears
<1>2. ~LiveOpen(Head(inbox))
  BY <1>1 DEF LiveOpen
<1> QED
  BY <1>1, <1>2, Taken1

LEMMA ReplyStep ==
  ASSUME SessionInv, RenderReply \/ Progress \/ SectionError
  PROVE  SessionInv'
<1> DEFINE m == Head(inbox)
<1>1. inbox' = Tail(inbox) /\ \E kind \in {"rendered", "progress", "sectionError"} : Hears(kind)
  BY DEF RenderReply, Progress, SectionError, Taken
<1>2. m \in MessageType /\ inbox' \in Seq(MessageType) /\ SameOpens(inbox', inbox)
  BY <1>1, HeadKind
<1>3. UNCHANGED <<book, blob, choice, genSeen, opening, repaint, booting, picked, left, loads, worker>>
  BY DEF RenderReply, Progress, SectionError
<1>4. Typed'
  <2>1. CASE RenderReply
    <3>1. m \in RenderedType
      BY <1>2, <2>1, KindTells DEF RenderReply, Hears
    <3> HIDE DEF m
    <3>2. /\ m.spec \in SpecType /\ m.face \in BOOLEAN /\ m.ok \in BOOLEAN /\ m.spine \in Spines
          /\ m.page \in Nat /\ m.pages \in Nat /\ m.complete \in BOOLEAN
      BY <3>1 DEF RenderedType
    <3>3. /\ pushed' = IF m.ok /\ m.spec # NoSpec THEN m.spec ELSE pushed
          /\ place' = IF m.ok /\ m.live THEN [spine |-> m.spine, page |-> m.page, pages |-> m.pages,
                                              complete |-> m.complete] ELSE place
          /\ reported' = IF m.live THEN ~m.ok ELSE reported
          /\ faceLoaded' = (faceLoaded \/ m.face)
          /\ fontRun' = IF m.face THEN "idle" ELSE fontRun
      BY <2>1 DEF RenderReply, m
    <3>4. pushed' \in SpecType /\ place' \in PlaceType
      BY <3>2, <3>3 DEF SessionInv, Typed, PlaceType
    <3>5. reported' \in BOOLEAN /\ faceLoaded' \in BOOLEAN
          /\ fontRun' \in {"idle", "converting", "sent", "painting"}
      BY <3>3 DEF SessionInv, Typed
    <3> QED
      BY <1>2, <1>3, <3>4, <3>5 DEF SessionInv, Typed, PlaceType
  <2>2. CASE Progress
    <3>1. m \in ToldType
      BY <1>2, <2>2, KindTells DEF Progress, Hears
    <3> HIDE DEF m
    <3>2. m.pages \in Nat /\ m.done \in BOOLEAN
      BY <3>1 DEF ToldType
    <3>3. place' = IF Concerns(m)
                   THEN [place EXCEPT !.pages = IF m.pages > @ THEN m.pages ELSE @, !.complete = m.done]
                   ELSE place
      BY <2>2 DEF Progress, m
    <3>4. place' \in PlaceType
      BY <3>2, <3>3 DEF SessionInv, Typed, PlaceType
    <3> QED
      BY <1>2, <1>3, <2>2, <3>4 DEF Progress, SessionInv, Typed, PlaceType
  <2>3. CASE SectionError
    <3>1. reported' \in BOOLEAN
      BY <2>3 DEF SectionError
    <3> QED
      BY <1>2, <1>3, <2>3, <3>1 DEF SectionError, SessionInv, Typed
  <2> QED
    BY <2>1, <2>2, <2>3
<1>5. WorkerOK(worker') /\ SameBook(worker', worker)
  BY <1>3 DEF SessionInv, SameBook
<1> QED
  BY <1>2, <1>3, <1>4, <1>5, StepKeeps

LEMMA FaceReplyStep ==
  ASSUME SessionInv, FaceReply
  PROVE  SessionInv'
<1> DEFINE to == [choice EXCEPT !.font = "custom"]
<1>1. Tail(inbox) \in Seq(MessageType) /\ SameOpens(Tail(inbox), inbox) /\ inbox \in Seq(MessageType)
  BY HeadKind DEF FaceReply, SessionInv, Typed
<1>2. UNCHANGED <<book, blob, place, pushed, genSeen, shown, reported, opening, repaint, booting,
                  picked, left, loads>>
  BY DEF FaceReply
<1>3. to \in Settings /\ choice' \in {choice, to} /\ faceLoaded' \in BOOLEAN
      /\ fontRun' \in {"idle", "converting", "sent", "painting"}
  BY DEF FaceReply, SessionInv, Typed, Settings
<1>4. choice' \in Settings
  BY <1>3 DEF SessionInv, Typed
<1>5. /\ WorkerOK(worker') /\ SameBook(worker', worker) /\ (loads # << >> => worker' = worker)
      /\ inbox' \in Seq(MessageType) /\ SameOpens(inbox', inbox)
  <2>1. CASE book # NoBook /\ Refresh(place, FALSE, TRUE, to, Tail(inbox))
    <3>1. book \in Books /\ place \in PlaceType
      BY <2>1 DEF SessionInv, Typed, PlaceType
    <3> HIDE DEF to
    <3>2. /\ WorkerOK(worker') /\ SameBook(worker', worker) /\ (loads # << >> => worker' = worker)
          /\ inbox' \in Seq(MessageType) /\ SameOpens(inbox', Tail(inbox))
      BY <1>1, <1>3, <2>1, <3>1, RefreshKeeps
    <3> QED
      BY <1>1, <3>2, SameTwice
  <2>2. CASE worker' = worker /\ inbox' = Tail(inbox)
    BY <1>1, <2>2 DEF SessionInv, SameBook
  <2> QED
    BY <2>1, <2>2 DEF FaceReply, Taken
<1>6. Typed'
  BY <1>2, <1>3, <1>4, <1>5 DEF SessionInv, Typed
<1> QED
  BY <1>2, <1>5, <1>6, StepKeeps

\* No queued replacement is the newest open any more.
LEMMA SupersededOK ==
  ASSUME loads \in Seq(LoadType)
  PROVE  SupersededLoads \in Seq(LoadType) /\ Len(SupersededLoads) = Len(loads) /\ Overtaken(SupersededLoads)
<1> DEFINE ls == SupersededLoads
<1>1. Len(loads) \in Nat /\ DOMAIN loads = 1 .. Len(loads)
  OBVIOUS
<1>2. \A i \in DOMAIN loads : [loads[i] EXCEPT !.live = FALSE] \in LoadType
                              /\ [loads[i] EXCEPT !.live = FALSE].live = FALSE
  <2> SUFFICES ASSUME NEW i \in DOMAIN loads
               PROVE  [loads[i] EXCEPT !.live = FALSE] \in LoadType
                      /\ [loads[i] EXCEPT !.live = FALSE].live = FALSE
    OBVIOUS
  <2>1. loads[i] \in LoadType
    OBVIOUS
  <2> QED
    BY <2>1 DEF LoadType
<1>3. ls \in [1 .. Len(loads) -> LoadType]
  BY <1>1, <1>2 DEF SupersededLoads
<1>4. \A i \in 1 .. Len(loads) : ls[i].live = FALSE
  BY <1>1, <1>2 DEF SupersededLoads
<1> HIDE DEF ls
<1>5. ls \in Seq(LoadType) /\ Len(ls) = Len(loads) /\ DOMAIN ls = 1 .. Len(loads)
  BY <1>1, <1>3
<1> QED
  BY <1>4, <1>5 DEF Overtaken, ls

\* Every earlier open is superseded, and nothing is open until this one has its file.
LEMMA OpenOK ==
  ASSUME SessionInv, NEW b \in Books, Open(b)
  PROVE  /\ inbox' \in Seq(MessageType) /\ Quiet(inbox') /\ WorkerOK(worker') /\ Begun(worker')
         /\ loads' \in Seq(LoadType) /\ loads' # << >> /\ loads'[Len(loads')].book = b
         /\ Live(loads')
         /\ genSeen' = -1 /\ opening' = TRUE /\ picked' = b
<1> DEFINE ls == SupersededLoads
           l == [book |-> b, spec |-> readSpec(choice), live |-> TRUE]
<1>1. loads \in Seq(LoadType) /\ inbox \in Seq(MessageType) /\ choice \in Settings /\ WorkerOK(worker)
      /\ Queued
  BY DEF SessionInv, Typed
<1>2. Len(loads) \in Nat
  BY <1>1
<1>4. ls \in Seq(LoadType) /\ Len(ls) = Len(loads) /\ \A i \in 1 .. Len(loads) : ls[i].live = FALSE
  <2>1. ls \in Seq(LoadType) /\ Len(ls) = Len(loads) /\ Overtaken(ls)
    BY <1>1, SupersededOK
  <2> HIDE DEF ls
  <2>2. DOMAIN ls = 1 .. Len(loads)
    BY <2>1
  <2> QED
    BY <2>1, <2>2 DEF Overtaken
<1>5. l \in LoadType /\ l.book = b /\ l.live = TRUE
  <2>1. readSpec(choice) \in Settings
    BY <1>1 DEF readSpec, Settings
  <2> QED
    BY <2>1 DEF LoadType
<1>6. loads' = Append(ls, l)
  BY DEF Open
<1> HIDE DEF ls, l
<1>7. /\ loads' \in Seq(LoadType) /\ Len(loads') = Len(loads) + 1 /\ loads'[Len(loads) + 1] = l
      /\ \A i \in 1 .. Len(loads) : loads'[i] = ls[i]
  BY <1>2, <1>4, <1>5, <1>6
<1>8. loads' # << >> /\ loads'[Len(loads')].book = b
  BY <1>2, <1>5, <1>7
<1>9. ASSUME NEW i \in DOMAIN loads'
      PROVE  loads'[i].live = (i = Len(loads'))
  <2>1. i \in 1 .. Len(loads) + 1
    BY <1>7
  <2>2. CASE i = Len(loads) + 1
    BY <1>5, <1>7, <2>2
  <2>3. CASE i # Len(loads) + 1
    <3>1. i \in 1 .. Len(loads) /\ i # Len(loads')
      BY <1>2, <1>7, <2>1, <2>3
    <3>2. loads'[i].live = FALSE
      BY <1>4, <1>7, <3>1
    <3> QED
      BY <3>1, <3>2
  <2> QED
    BY <2>2, <2>3
<1>10. WorkerOK(worker') /\ Begun(worker')
  <2>1. CASE loads = << >>
    BY <1>1, <2>1, BeginOK DEF Open
  <2>2. CASE loads # << >>
    BY <1>1, <2>2 DEF Open, Queued
  <2> QED
    BY <2>1, <2>2
<1>11. inbox' \in Seq(MessageType) /\ Quiet(inbox') /\ genSeen' = -1 /\ opening' = TRUE /\ picked' = b
  BY <1>1, AllSuperseded DEF Open
<1> QED
  BY <1>7, <1>8, <1>9, <1>10, <1>11 DEF Live

LEMMA OpenStep ==
  ASSUME SessionInv, NEW b \in Books, Open(b), Typed'
  PROVE  SessionInv'
<1>1. /\ Quiet(inbox') /\ WorkerOK(worker') /\ Begun(worker') /\ picked' = b
      /\ loads' # << >> /\ loads'[Len(loads')].book = b /\ Live(loads')
  BY OpenOK
<1>2. OneAnswer(inbox') /\ AnswersTrue'
  BY <1>1 DEF OneAnswer, AnswersTrue, Quiet
<1>3. b # NoBook
  BY PreviewAssumption DEF NoBook
<1>4. Queued' /\ Agreed'
  BY <1>1, <1>3 DEF Queued, Agreed
<1> QED
  BY <1>1, <1>2, <1>4 DEF SessionInv

\* Every earlier open is superseded by a file of which the answer is on its way already; the worker and
\* what it is opening stay.
LEMMA TurnedAwayOK ==
  ASSUME SessionInv, TurnedAway
  PROVE  /\ inbox' \in Seq(MessageType) /\ OneAnswer(inbox') /\ ~Quiet(inbox')
         /\ \A i \in DOMAIN inbox' : LiveOpen(inbox'[i]) => inbox'[i].book = NoBook /\ ~inbox'[i].ok
         /\ loads' \in Seq(LoadType) /\ (loads' = << >> <=> loads = << >>) /\ Overtaken(loads')
         /\ genSeen' = -1 /\ opening' = TRUE /\ picked' = NoBook /\ worker' = worker
<1> DEFINE q == Superseded({"rendered", "opened"}, inbox)
           m == NotOpened(TRUE, NoBook, worker.gen)
<1>1. loads \in Seq(LoadType) /\ inbox \in Seq(MessageType) /\ worker.gen \in Nat
  BY DEF SessionInv, Typed, WorkerOK, WorkerType
<1>2. q \in Seq(MessageType) /\ Quiet(q)
  BY <1>1, AllSuperseded
<1>3. m \in OpenedType /\ ~m.ok /\ m.live = TRUE /\ m.book = NoBook /\ m.kind = "opened"
  BY <1>1, NotOpenedIs
<1>4. inbox' = Append(q, m)
  BY DEF TurnedAway
<1> HIDE DEF q, m
<1>5. m \in MessageType
  BY <1>3 DEF MessageType
<1>6. /\ inbox' \in Seq(MessageType) /\ DOMAIN inbox' = 1 .. Len(q) + 1 /\ inbox'[Len(q) + 1] = m
      /\ Len(q) \in Nat /\ DOMAIN q = 1 .. Len(q) /\ \A i \in DOMAIN q : inbox'[i] = q[i]
  BY <1>2, <1>4, <1>5
<1>7. \A i \in DOMAIN inbox' : LiveOpen(inbox'[i]) => i = Len(q) + 1
  BY <1>2, <1>6 DEF Quiet
<1>8. LiveOpen(inbox'[Len(q) + 1]) /\ Len(q) + 1 \in DOMAIN inbox'
  BY <1>3, <1>6 DEF LiveOpen
<1>9. OneAnswer(inbox') /\ ~Quiet(inbox')
  BY <1>7, <1>8 DEF OneAnswer, Quiet
<1>10. \A i \in DOMAIN inbox' : LiveOpen(inbox'[i]) => inbox'[i].book = NoBook /\ ~inbox'[i].ok
  BY <1>3, <1>6, <1>7
<1>11. loads' = SupersededLoads /\ genSeen' = -1 /\ opening' = TRUE /\ picked' = NoBook /\ worker' = worker
  BY DEF TurnedAway
<1>12. loads' \in Seq(LoadType) /\ Overtaken(loads') /\ Len(loads') = Len(loads)
  BY <1>1, <1>11, SupersededOK
<1>13. loads' = << >> <=> loads = << >>
  BY <1>1, <1>12
<1> QED
  BY <1>6, <1>9, <1>10, <1>11, <1>12, <1>13

LEMMA TurnedAwayStep ==
  ASSUME SessionInv, TurnedAway, Typed'
  PROVE  SessionInv'
<1>1. /\ OneAnswer(inbox') /\ ~Quiet(inbox')
      /\ \A i \in DOMAIN inbox' : LiveOpen(inbox'[i]) => inbox'[i].book = NoBook /\ ~inbox'[i].ok
      /\ (loads' = << >> <=> loads = << >>) /\ Overtaken(loads')
      /\ picked' = NoBook /\ worker' = worker
  BY TurnedAwayOK
<1>2. AnswersTrue'
  BY <1>1 DEF AnswersTrue, Told
<1>3. Queued'
  BY <1>1 DEF SessionInv, Queued
<1>4. Agreed'
  BY <1>1 DEF SessionInv, Agreed
<1> QED
  BY <1>1, <1>2, <1>3, <1>4 DEF SessionInv

\* The messages, the queue and the history after either.
LEMMA OpeningTypes ==
  ASSUME SessionInv, TurnedAway \/ \E b \in Books : Open(b)
  PROVE  /\ inbox' \in Seq(MessageType) /\ loads' \in Seq(LoadType) /\ picked' \in Books \cup {NoBook}
         /\ genSeen' = -1 /\ opening' = TRUE
<1>1. CASE TurnedAway
  BY <1>1, TurnedAwayOK
<1>2. CASE \E b \in Books : Open(b)
  BY <1>2, OpenOK
<1> QED
  BY <1>1, <1>2

LEMMA PickStep ==
  ASSUME SessionInv, PickBook
  PROVE  SessionInv'
<1>1. TurnedAway \/ \E b \in Books : Open(b)
  BY DEF PickBook
<1>2. /\ inbox' \in Seq(MessageType) /\ loads' \in Seq(LoadType) /\ picked' \in Books \cup {NoBook}
      /\ genSeen' = -1 /\ opening' = TRUE
  BY <1>1, OpeningTypes
<1>3. left' \in [opens : Int, faces : Int, restarts : Int] /\ left'.faces <= MaxFaces
  BY DEF PickBook, SessionInv, Typed
<1>4. Typed'
  BY <1>2, <1>3 DEF PickBook, SessionInv, Typed
<1> QED
  BY <1>1, <1>4, OpenStep, TurnedAwayStep

LEMMA BootedStep ==
  ASSUME SessionInv, Booted
  PROVE  SessionInv'
<1>1. CASE TurnedAway \/ \E b \in Books : Open(b)
  <2>1. /\ inbox' \in Seq(MessageType) /\ loads' \in Seq(LoadType) /\ picked' \in Books \cup {NoBook}
        /\ genSeen' = -1 /\ opening' = TRUE
    BY <1>1, OpeningTypes
  <2>2. Typed'
    BY <2>1 DEF Booted, SessionInv, Typed
  <2> QED
    BY <1>1, <2>2, OpenStep, TurnedAwayStep
<1>2. CASE UNCHANGED <<inbox, loads, worker, genSeen, opening, picked>>
  <2>1. Typed'
    BY <1>2 DEF Booted, SessionInv, Typed
  <2>2. WorkerOK(worker') /\ SameBook(worker', worker) /\ SameOpens(inbox', inbox)
    BY <1>2 DEF SessionInv, SameBook, SameOpens, Carries
  <2> QED
    BY <1>2, <2>1, <2>2, StepKeeps DEF Booted
<1>3. blob # NoBook => blob \in Books
  BY DEF SessionInv, Typed
<1> QED
  BY <1>1, <1>2, <1>3 DEF Booted

\* The answer of an open joins messages that hold none.
LEMMA Joins ==
  ASSUME NEW ms \in Seq(MessageType), NEW m \in OpenedType, NEW told \in Seq(ToldType), Quiet(ms)
  PROVE  LET n == ms \o (<<m>> \o told)
         IN  /\ n \in Seq(MessageType) /\ \E i \in DOMAIN n : n[i] = m
             /\ \A i \in DOMAIN n : LiveOpen(n[i]) => i = Len(ms) + 1 /\ n[i] = m
<1> DEFINE n == ms \o (<<m>> \o told)
<1>1. told \in Seq(MessageType) /\ Quiet(told)
  <2>1. told \in Seq(ReplyType)
    BY WiderType DEF ReplyType
  <2> QED
    BY <2>1, ReplyQuiet
<1>2. m \in MessageType
  BY DEF MessageType
<1>3. /\ n \in Seq(MessageType) /\ DOMAIN n = 1 .. Len(ms) + 1 + Len(told) /\ Len(ms) \in Nat
      /\ Len(told) \in Nat /\ DOMAIN ms = 1 .. Len(ms) /\ DOMAIN told = 1 .. Len(told)
  BY <1>1, <1>2
<1>4. n[Len(ms) + 1] = m /\ Len(ms) + 1 \in DOMAIN n
  BY <1>1, <1>2, <1>3
<1>5. \A i \in DOMAIN ms : n[i] = ms[i]
  BY <1>1, <1>2, <1>3
<1>6. \A i \in DOMAIN n : i \in DOMAIN ms \/ i = Len(ms) + 1
                          \/ (i - (Len(ms) + 1) \in DOMAIN told /\ n[i] = told[i - (Len(ms) + 1)])
  BY <1>1, <1>2, <1>3
<1> HIDE DEF n
<1>7. \A i \in DOMAIN n : LiveOpen(n[i]) => i = Len(ms) + 1 /\ n[i] = m
  BY <1>1, <1>4, <1>5, <1>6 DEF Quiet
<1> QED
  BY <1>3, <1>4, <1>7 DEF n

\* What the first replacement of the queue comes to, before the next one begins.
ReadAs(v, m, told) ==
  /\ WorkerOK(v) /\ worker' = (IF Tail(loads) = << >> THEN v ELSE Begin(v))
  /\ inbox' = inbox \o (<<m>> \o told)
  /\ m.live = Head(loads).live /\ m.book = Head(loads).book
  /\ Told(m, v) /\ Lands(m, told, v)

LEMMA ReadOK ==
  ASSUME SessionInv, ReadEnds
  PROVE  \E v : \E m \in OpenedType, told \in Seq(ToldType) : ReadAs(v, m, told)
<1>1. PICK ok \in Outcome("load"), more \in Outcome("more") :
        LET l == Head(loads)
            r == IF ok /\ HasFace(worker, l.spec) THEN Opens(worker, l, more) ELSE Aborts(worker, l)
        IN /\ worker' = IF Tail(loads) = <<>> THEN r.w ELSE Begin(r.w)
           /\ inbox' = inbox \o r.out
  BY DEF ReadEnds
<1> DEFINE l == Head(loads)
           r == IF ok /\ HasFace(worker, l.spec) THEN Opens(worker, l, more) ELSE Aborts(worker, l)
<1>2. /\ worker' = IF Tail(loads) = <<>> THEN r.w ELSE Begin(r.w)
      /\ inbox' = inbox \o r.out /\ loads' = Tail(loads) /\ loads # << >>
      /\ UNCHANGED <<book, blob, place, choice, faceLoaded, pushed, genSeen, shown, reported, opening,
                     repaint, fontRun, booting, picked, left>>
  BY <1>1 DEF ReadEnds, page
<1>3. l \in LoadType /\ WorkerOK(worker) /\ Begun(worker)
  BY <1>2 DEF SessionInv, Typed, Queued
<1> HIDE DEF l
<1>4. /\ WorkerOK(r.w)
      /\ \E m \in OpenedType, told \in Seq(ToldType) :
           /\ r.out = <<m>> \o told /\ m.live = l.live /\ m.book = l.book /\ Told(m, r.w)
           /\ Lands(m, told, r.w)
  <2>1. CASE ok /\ HasFace(worker, l.spec)
    <3>1. r = Opens(worker, l, more)
      BY <2>1
    <3> HIDE DEF r
    <3>2. more \in BOOLEAN
      BY DEF Outcome
    <3> DEFINE x == Opens(worker, l, more)
    <3>3. /\ WorkerOK(x.w) /\ x.w.loaded /\ x.w.mounted = l.book /\ x.w.gen = worker.gen
          /\ \E m \in OpenedType, told \in Seq(ToldType) :
               /\ x.out = <<m>> \o told
               /\ m.ok /\ m.live = l.live /\ m.book = l.book /\ m.gen = worker.gen
               /\ Lands(m, told, x.w)
      BY <1>3, <3>2, OpensOK
    <3> HIDE DEF x
    <3>4. PICK m \in OpenedType, told \in Seq(ToldType) :
            /\ x.out = <<m>> \o told
            /\ m.ok /\ m.live = l.live /\ m.book = l.book /\ m.gen = worker.gen
            /\ Lands(m, told, x.w)
      BY <3>3
    <3>5. Told(m, x.w)
      BY <3>3, <3>4 DEF Told
    <3>6. r = x
      BY <3>1 DEF x
    <3> QED
      BY <3>3, <3>4, <3>5, <3>6
  <2>2. CASE ~(ok /\ HasFace(worker, l.spec))
    <3>1. r = Aborts(worker, l)
      BY <2>2
    <3> HIDE DEF r
    <3> DEFINE x == Aborts(worker, l)
    <3>0. /\ WorkerOK(x.w) /\ Begun(x.w) /\ x.w.mounted = NoBook
          /\ \E m \in OpenedType : x.out = <<m>> /\ ~m.ok /\ m.live = l.live /\ m.book = l.book
      BY <1>3, AbortsOK
    <3>1a. r = x
      BY <3>1
    <3> HIDE DEF x
    <3>2. /\ WorkerOK(r.w) /\ Begun(r.w) /\ r.w.mounted = NoBook
          /\ \E m \in OpenedType : r.out = <<m>> /\ ~m.ok /\ m.live = l.live /\ m.book = l.book
      BY <3>0, <3>1a
    <3>3. PICK m \in OpenedType : r.out = <<m>> /\ ~m.ok /\ m.live = l.live /\ m.book = l.book
      BY <3>2
    <3>4. << >> \in Seq(ToldType) /\ r.out = <<m>> \o << >>
      BY <3>3
    <3>5. Told(m, r.w) /\ Lands(m, << >>, r.w)
      BY <3>2, <3>3 DEF Told, Begun, Lands
    <3> QED
      BY <3>2, <3>3, <3>4, <3>5
  <2> QED
    BY <2>1, <2>2
<1> HIDE DEF r
<1>5. PICK m \in OpenedType, told \in Seq(ToldType) :
        /\ r.out = <<m>> \o told /\ m.live = l.live /\ m.book = l.book /\ Told(m, r.w)
        /\ Lands(m, told, r.w)
  BY <1>4
<1> DEFINE v == r.w
<1>6. /\ WorkerOK(v) /\ worker' = (IF Tail(loads) = << >> THEN v ELSE Begin(v))
      /\ inbox' = inbox \o (<<m>> \o told)
      /\ m.live = Head(loads).live /\ m.book = Head(loads).book
      /\ Told(m, v) /\ Lands(m, told, v)
  BY <1>2, <1>4, <1>5 DEF l
<1> HIDE DEF v
<1>7. ReadAs(v, m, told) /\ m \in OpenedType /\ told \in Seq(ToldType)
  BY <1>5, <1>6 DEF ReadAs
<1>8. \E n \in OpenedType, t \in Seq(ToldType) : ReadAs(v, n, t)
  BY <1>7
<1> QED
  BY <1>8

LEMMA ReadNewest ==
  ASSUME SessionInv, ReadEnds, picked # NoBook
  PROVE  SessionInv'
<1> DEFINE l == Head(loads)
<1>2. /\ loads' = Tail(loads) /\ loads # << >>
      /\ UNCHANGED <<book, blob, place, choice, faceLoaded, pushed, genSeen, shown, reported, opening,
                     repaint, fontRun, booting, picked, left>>
  BY DEF ReadEnds, page
<1>3. /\ loads \in Seq(LoadType) /\ l \in LoadType /\ Quiet(inbox)
      /\ inbox \in Seq(MessageType) /\ l = loads[1]
      /\ \A i \in DOMAIN loads : loads[i].live = (i = Len(loads))
      /\ loads[Len(loads)].book = picked
  BY <1>2 DEF SessionInv, Typed, Queued, Live
<1>4a. PICK v : \E m \in OpenedType, told \in Seq(ToldType) : ReadAs(v, m, told)
  BY ReadOK
<1>4b. PICK m \in OpenedType, told \in Seq(ToldType) : ReadAs(v, m, told)
  BY <1>4a
<1>4. /\ WorkerOK(v) /\ worker' = (IF Tail(loads) = << >> THEN v ELSE Begin(v))
      /\ inbox' = inbox \o (<<m>> \o told)
      /\ m.live = l.live /\ m.book = l.book /\ Told(m, v)
  BY <1>4b DEF ReadAs
<1> HIDE DEF l
<1>6. /\ inbox' \in Seq(MessageType) /\ \E i \in DOMAIN inbox' : inbox'[i] = m
      /\ \A i \in DOMAIN inbox' : LiveOpen(inbox'[i]) => i = Len(inbox) + 1 /\ inbox'[i] = m
  <2> DEFINE n == inbox \o (<<m>> \o told)
  <2>1. /\ n \in Seq(MessageType) /\ \E i \in DOMAIN n : n[i] = m
        /\ \A i \in DOMAIN n : LiveOpen(n[i]) => i = Len(inbox) + 1 /\ n[i] = m
    <3>1. inbox \in Seq(MessageType) /\ Quiet(inbox)
      BY <1>3
    <3>2. n \in Seq(MessageType)
      BY <3>1, Joins
    <3>3. \E i \in DOMAIN n : n[i] = m
      BY <3>1, Joins
    <3>4. \A i \in DOMAIN n : LiveOpen(n[i]) => i = Len(inbox) + 1 /\ n[i] = m
      BY <3>1, Joins
    <3> QED
      BY <3>2, <3>3, <3>4
  <2>2. inbox' = n
    BY <1>4
  <2> HIDE DEF n
  <2> QED
    BY <2>1, <2>2
<1>7. OneAnswer(inbox')
  BY <1>6 DEF OneAnswer
<1>8. loads' \in Seq(LoadType) /\ Len(loads') = Len(loads) - 1 /\ Len(loads) \in Nat
      /\ DOMAIN loads = 1 .. Len(loads) /\ DOMAIN loads' = 1 .. Len(loads) - 1
      /\ \A i \in DOMAIN loads' : loads'[i] = loads[i + 1]
  BY <1>2, <1>3
<1>9. Typed'
  BY <1>2, <1>6, <1>8 DEF SessionInv, Typed
<1>10. CASE loads' = << >>
  <2>0. Len(loads') = 0
    BY <1>10
  <2>1. Len(loads) = 1 /\ 1 \in DOMAIN loads
    BY <1>8, <2>0
  <2>2. l.live /\ l.book = picked
    <3>1. loads[1].live = (1 = Len(loads)) /\ loads[1].book = picked
      BY <1>3, <2>1
    <3> QED
      BY <1>3, <2>1, <3>1
  <2>3. worker' = v
    BY <1>2, <1>4, <1>10
  <2>4. AnswersTrue'
    BY <1>2, <1>4, <1>6, <2>2, <2>3 DEF AnswersTrue
  <2>5. ~Quiet(inbox')
    <3>1. LiveOpen(m)
      BY <1>4, <2>2 DEF LiveOpen, OpenedType
    <3> QED
      BY <1>6, <3>1 DEF Quiet
  <2>5a. Whole(v)
    <3>1. m.book # NoBook
      BY <1>4, <2>2
    <3> QED
      BY <1>4, <3>1 DEF Told, Whole
  <2>6. Queued' /\ Agreed'
    BY <1>2, <1>10, <2>3, <2>5, <2>5a DEF Queued, Agreed
  <2> QED
    BY <1>4, <1>7, <1>9, <2>3, <2>4, <2>6 DEF SessionInv
<1>11. CASE loads' # << >>
  <2>1. Len(loads) > 1 /\ Len(loads') \in DOMAIN loads'
    BY <1>2, <1>3, <1>8, <1>11
  <2>2. ~l.live
    <3>1. 1 \in DOMAIN loads /\ 1 # Len(loads)
      BY <1>8, <2>1
    <3>2. loads[1].live = (1 = Len(loads))
      BY <1>3, <3>1
    <3> QED
      BY <1>3, <3>1, <3>2
  <2>3. Quiet(inbox')
    BY <1>4, <1>6, <2>2 DEF Quiet, LiveOpen
  <2>4. WorkerOK(worker') /\ Begun(worker')
    BY <1>2, <1>4, <1>11, BeginOK
  <2>5. \A i \in DOMAIN loads' : loads'[i].live = (i = Len(loads'))
    <3> SUFFICES ASSUME NEW i \in DOMAIN loads'
                 PROVE  loads'[i].live = (i = Len(loads'))
      OBVIOUS
    <3>1. i + 1 \in DOMAIN loads /\ loads'[i] = loads[i + 1]
      BY <1>8
    <3>2. (i + 1 = Len(loads)) <=> (i = Len(loads'))
      BY <1>8
    <3> QED
      BY <1>3, <3>1, <3>2
  <2>6. loads'[Len(loads')].book = picked
    <3>1. loads'[Len(loads')] = loads[Len(loads') + 1] /\ Len(loads') + 1 = Len(loads)
      BY <1>8, <2>1
    <3> QED
      BY <1>3, <3>1
  <2>7. AnswersTrue' /\ Agreed'
    BY <1>2, <1>11, <2>3 DEF AnswersTrue, Agreed, Quiet
  <2>8. Queued'
    BY <1>2, <2>3, <2>4, <2>5, <2>6 DEF Queued, Live
  <2> QED
    BY <1>7, <1>9, <2>4, <2>7, <2>8 DEF SessionInv
<1> QED
  BY <1>10, <1>11

\* A replacement that is superseded ends while nobody waits for its answer; the worker keeps its book.
LEMMA ReadOvertaken ==
  ASSUME SessionInv, ReadEnds, picked = NoBook
  PROVE  SessionInv'
<1>1. /\ loads' = Tail(loads) /\ loads # << >>
      /\ UNCHANGED <<book, blob, place, choice, faceLoaded, pushed, genSeen, shown, reported, opening,
                     repaint, fontRun, booting, picked, left>>
  BY DEF ReadEnds, page
<1>2. /\ loads \in Seq(LoadType) /\ inbox \in Seq(MessageType) /\ Begun(worker) /\ Overtaken(loads)
      /\ OneAnswer(inbox) /\ AnswersTrue /\ Agreed
  BY <1>1 DEF SessionInv, Typed, Queued
<1>3. /\ loads' \in Seq(LoadType) /\ Head(loads) = loads[1] /\ 1 \in DOMAIN loads /\ Head(loads) \in LoadType
      /\ \A i \in DOMAIN loads' : i + 1 \in DOMAIN loads /\ loads'[i] = loads[i + 1]
  BY <1>1, <1>2
<1>4. PICK v : \E m \in OpenedType, told \in Seq(ToldType) : ReadAs(v, m, told)
  BY ReadOK
<1>5. PICK m \in OpenedType, told \in Seq(ToldType) : ReadAs(v, m, told)
  BY <1>4
<1>6. /\ WorkerOK(v) /\ worker' = (IF loads' = << >> THEN v ELSE Begin(v))
      /\ inbox' = inbox \o (<<m>> \o told) /\ m.live = FALSE /\ m.book \in Books /\ Told(m, v)
  <2>1. Head(loads).live = FALSE /\ Head(loads).book \in Books
    BY <1>2, <1>3 DEF Overtaken, LoadType
  <2> QED
    BY <1>1, <1>5, <2>1 DEF ReadAs
<1>7. inbox' \in Seq(MessageType) /\ SameOpens(inbox', inbox)
  <2> DEFINE out == <<m>> \o told
  <2>1. told \in Seq(MessageType) /\ Quiet(told)
    <3>1. told \in Seq(ReplyType)
      BY WiderType DEF ReplyType
    <3> QED
      BY <3>1, ReplyQuiet
  <2>2. m \in MessageType /\ ~LiveOpen(m)
    BY <1>6 DEF MessageType, LiveOpen
  <2>3. /\ out \in Seq(MessageType) /\ Len(told) \in Nat /\ DOMAIN told = 1 .. Len(told)
        /\ DOMAIN out = 1 .. Len(told) + 1 /\ out[1] = m
        /\ \A i \in DOMAIN told : out[i + 1] = told[i]
    BY <2>1, <2>2
  <2> HIDE DEF out
  <2>4. \A i \in DOMAIN out : i = 1 \/ (i - 1 \in DOMAIN told /\ out[i] = told[i - 1])
    BY <2>3
  <2>5. Quiet(out)
    BY <2>1, <2>2, <2>3, <2>4 DEF Quiet
  <2>6. inbox \o out \in Seq(MessageType) /\ SameOpens(inbox \o out, inbox)
    BY <1>2, <2>3, <2>5, Appended
  <2> QED
    BY <1>6, <2>6 DEF out
<1>8. OneAnswer(inbox') /\ (Quiet(inbox') <=> Quiet(inbox))
  BY <1>2, <1>7, SameQuiet DEF SameOpens
<1>9. AnswersTrue'
  <2> SUFFICES ASSUME NEW i \in DOMAIN inbox', LiveOpen(inbox'[i])
               PROVE  inbox'[i].book = picked' /\ Told(inbox'[i], worker')
    BY DEF AnswersTrue
  <2>1. PICK k \in DOMAIN inbox : inbox[k] = inbox'[i]
    BY <1>7 DEF SameOpens, Carries
  <2>2. inbox[k].book = picked /\ Told(inbox[k], worker)
    BY <1>2, <2>1 DEF AnswersTrue
  <2>3. ~inbox[k].ok
    BY <1>2, <2>2 DEF Told, Begun
  <2> QED
    BY <1>1, <2>1, <2>2, <2>3 DEF Told
<1>10. WorkerOK(worker') /\ (loads' # << >> => Begun(worker'))
  BY <1>6, BeginOK
<1>11. Queued'
  BY <1>1, <1>2, <1>3, <1>10 DEF Queued, Overtaken
<1>12. Agreed'
  <2>1. loads' = << >> => Whole(worker')
    <3>1. m.book # NoBook
      BY <1>6, PreviewAssumption DEF NoBook
    <3> QED
      BY <1>6, <3>1 DEF Told, Whole
  <2> QED
    BY <1>1, <1>2, <1>8, <2>1 DEF Agreed, SameMeaning
<1>13. Typed'
  BY <1>1, <1>3, <1>7 DEF SessionInv, Typed
<1> QED
  BY <1>8, <1>9, <1>10, <1>11, <1>12, <1>13 DEF SessionInv

LEMMA ReadStep ==
  ASSUME SessionInv, ReadEnds
  PROVE  SessionInv'
BY ReadNewest, ReadOvertaken

\* The page hears what became of an open: of the newest it believes every word.
LEMMA OpenReplyStep ==
  ASSUME SessionInv, OpenReply
  PROVE  SessionInv' /\ (book' # book => book' \in {NoBook, picked})
<1> DEFINE m == Head(inbox)
<1>1. /\ inbox \in Seq(MessageType) /\ inbox # << >> /\ inbox' = Tail(inbox) /\ m.kind = "opened"
      /\ UNCHANGED <<choice, faceLoaded, repaint, fontRun, booting, picked, left, loads, worker>>
  BY DEF OpenReply, Hears, Taken, SessionInv, Typed
<1>2. m \in OpenedType /\ inbox' \in Seq(MessageType)
  BY <1>1, KindTells
<1>3. \/ ~m.live /\ UNCHANGED <<book, blob, place, genSeen, pushed, shown, reported, opening>>
      \/ /\ m.live /\ m.ok
         /\ book' = m.book /\ blob' = m.book /\ genSeen' = m.gen
         /\ place' = [spine |-> m.spine, page |-> 0, pages |-> m.pages, complete |-> m.complete]
         /\ pushed' = NoSpec /\ shown' = m.frame /\ reported' = FALSE /\ opening' = FALSE
      \/ /\ m.live /\ ~m.ok
         /\ Cleared /\ reported' = TRUE /\ opening' = FALSE
         /\ UNCHANGED <<genSeen, pushed, shown>>
  BY DEF OpenReply
<1>4. m = inbox[1] /\ 1 \in DOMAIN inbox
  BY <1>1
<1> HIDE DEF m
<1>5. /\ m.book \in Books \cup {NoBook} /\ m.gen \in Nat /\ m.spine \in Spines /\ m.pages \in Nat
      /\ m.complete \in BOOLEAN
  BY <1>2 DEF OpenedType
<1>6. Typed'
  <2>1. inbox' \in Seq(MessageType) /\ loads' \in Seq(LoadType)
    BY <1>1, <1>2 DEF SessionInv, Typed
  <2>2. /\ book' \in Books \cup {NoBook} /\ blob' \in Books \cup {NoBook} /\ genSeen' \in Nat \cup {-1}
        /\ pushed' \in SpecType /\ reported' \in BOOLEAN /\ opening' \in BOOLEAN
    BY <1>3, <1>5 DEF Cleared, SessionInv, Typed, SpecType
  <2>3. place' \in [spine : Spines, page : Nat, pages : Nat, complete : BOOLEAN]
    <3>1. CASE UNCHANGED place
      BY <3>1 DEF SessionInv, Typed
    <3>2. CASE place' = [spine |-> m.spine, page |-> 0, pages |-> m.pages, complete |-> m.complete]
      BY <1>5, <3>2
    <3>3. CASE Cleared
      BY <3>3, ZeroSpine DEF Cleared, NoPlace
    <3> QED
      BY <1>3, <3>1, <3>2, <3>3
  <2> QED
    BY <1>1, <2>1, <2>2, <2>3 DEF SessionInv, Typed
<1>7. CASE ~m.live
  <2>1. SameOpens(inbox', inbox)
    BY <1>1, <1>7, Taken1 DEF LiveOpen, m
  <2>2. WorkerOK(worker') /\ SameBook(worker', worker)
    BY <1>1 DEF SessionInv, SameBook
  <2>3. UNCHANGED <<book, genSeen>>
    BY <1>3, <1>7
  <2> QED
    BY <1>1, <1>6, <2>1, <2>2, <2>3, StepKeeps
<1>8. CASE m.live
  <2>1. LiveOpen(inbox[1])
    BY <1>1, <1>4, <1>8 DEF LiveOpen, m
  <2>2. loads = << >> \/ picked = NoBook
    BY <1>4, <2>1 DEF SessionInv, Queued, Quiet
  <2>3. m.book = picked /\ Told(m, worker)
    BY <1>4, <2>1 DEF SessionInv, AnswersTrue
  <2>3a. m.ok => m.book \in Books /\ picked # NoBook
    <3>1. m.ok => m.book \in Books
      BY <2>3 DEF Told, SessionInv, WorkerOK, Held
    <3> QED
      BY <2>3, <3>1, PreviewAssumption DEF NoBook
  <2>4. Quiet(inbox')
    <3> SUFFICES ASSUME NEW i \in DOMAIN inbox', LiveOpen(inbox'[i])
                 PROVE  FALSE
      BY DEF Quiet
    <3>1. i + 1 \in DOMAIN inbox /\ inbox'[i] = inbox[i + 1] /\ i + 1 # 1
      BY <1>1
    <3> QED
      BY <1>4, <2>1, <3>1 DEF SessionInv, OneAnswer
  <2>5. OneAnswer(inbox') /\ AnswersTrue' /\ Queued'
    <3>1. OneAnswer(inbox') /\ AnswersTrue'
      BY <2>4 DEF OneAnswer, AnswersTrue, Quiet
    <3> QED
      BY <1>1, <2>2, <3>1 DEF SessionInv, Queued
  <2>6. Agreed' /\ book' \in {NoBook, picked}
    <3>1. CASE m.ok
      <4>1. book' = m.book /\ genSeen' = m.gen /\ book' # NoBook
        BY <1>3, <1>8, <2>3, <2>3a, <3>1
      <4> QED
        BY <1>1, <2>3, <2>3a, <3>1, <4>1 DEF SessionInv, Agreed, SameMeaning, Told
    <3>2. CASE ~m.ok
      <4>1. book' = NoBook
        BY <1>3, <1>8, <3>2 DEF Cleared
      <4> QED
        BY <1>1, <2>3, <3>2, <4>1 DEF SessionInv, Agreed, SameMeaning, Told
    <3> QED
      BY <3>1, <3>2
  <2>7. WorkerOK(worker')
    BY <1>1 DEF SessionInv
  <2> QED
    BY <1>6, <2>5, <2>6, <2>7 DEF SessionInv
<1> QED
  BY <1>7, <1>8

LEMMA DiesStep ==
  ASSUME SessionInv, WorkerDies
  PROVE  SessionInv'
<1>1. WorkerOK(worker') /\ ~worker'.loaded /\ worker'.mounted = NoBook
  BY FreshOK DEF WorkerDies
<1>2. inbox' = << >> /\ loads' = << >> /\ book' = NoBook
  BY DEF WorkerDies
<1>3. inbox' \in Seq(MessageType) /\ loads' \in Seq(LoadType) /\ DOMAIN inbox' = {}
  BY <1>2
<1>4. Typed'
  <2>1. blob' \in Books \cup {NoBook} /\ place' \in PlaceType
    <3>1. NoPlace \in PlaceType /\ NoBook \in Books \cup {NoBook}
      BY ZeroSpine DEF NoPlace, PlaceType
    <3>2. blob \in Books \cup {NoBook} /\ place \in PlaceType
      BY DEF SessionInv, Typed, PlaceType
    <3>3. (blob' = NoBook /\ place' = NoPlace) \/ (blob' = blob /\ place' = place)
      BY DEF WorkerDies, Cleared
    <3> QED
      BY <3>1, <3>2, <3>3
  <2>2. /\ reported' \in BOOLEAN /\ faceLoaded' \in BOOLEAN /\ opening' \in BOOLEAN /\ booting' \in BOOLEAN
        /\ fontRun' \in {"idle", "converting", "sent", "painting"}
    BY DEF WorkerDies, SessionInv, Typed
  <2>3. left' \in [opens : Int, faces : Int, restarts : Int] /\ left'.faces <= MaxFaces
    BY DEF WorkerDies, SessionInv, Typed
  <2> QED
    BY <1>2, <1>3, <2>1, <2>2, <2>3 DEF WorkerDies, SessionInv, Typed, PlaceType
<1>5. OneAnswer(inbox') /\ AnswersTrue' /\ Queued'
  BY <1>2, <1>3 DEF OneAnswer, AnswersTrue, Queued
<1>6. Agreed'
  BY <1>1, <1>2 DEF Agreed, SameMeaning, Whole
<1> QED
  BY <1>1, <1>4, <1>5, <1>6 DEF SessionInv

LEMMA SessionInit ==
  Init => SessionInv
<1> SUFFICES ASSUME Init
             PROVE  SessionInv
  OBVIOUS
<1>1. WorkerOK(worker) /\ ~worker.loaded /\ worker.mounted = NoBook
  BY FreshOK DEF Init
<1>2. inbox = << >> /\ loads = << >> /\ book = NoBook
  BY DEF Init
<1>3. inbox \in Seq(MessageType) /\ loads \in Seq(LoadType) /\ DOMAIN inbox = {}
  BY <1>2
<1>4. Typed
  <2>1. place \in PlaceType /\ choice \in Settings /\ pushed \in SpecType
    BY ZeroSpine, DefaultType DEF Init, NoPlace, PlaceType, SpecType
  <2>2. left \in [opens : Int, faces : Int, restarts : Int] /\ left.faces <= MaxFaces
    BY PreviewAssumption DEF Init
  <2> QED
    BY <1>2, <1>3, <2>1, <2>2 DEF Init, Typed, PlaceType
<1>5. OneAnswer(inbox) /\ AnswersTrue /\ Queued /\ Agreed
  BY <1>1, <1>2, <1>3 DEF OneAnswer, AnswersTrue, Queued, Agreed, SameMeaning, Whole
<1> QED
  BY <1>1, <1>4, <1>5 DEF SessionInv

LEMMA SessionNext ==
  SessionInv /\ [Next]_vars => SessionInv'
<1> SUFFICES ASSUME SessionInv, [Next]_vars
             PROVE  SessionInv'
  OBVIOUS
<1>1. CASE WorkerSteps
  BY <1>1, ContinueStep, TimerStep, ReadStep DEF WorkerSteps
<1>2. CASE ReaderSteps
  <2>1. CASE NextPage \/ PrevPage
    BY <2>1, PageTurnStep DEF NextPage, PrevPage
  <2>2. CASE PickChapter \/ PickBook
    BY <2>2, ChapterStep, PickStep
  <2>3. CASE TurnKnob \/ ChooseFace \/ PickFace
    BY <2>3, ControlStep
  <2> QED
    BY <1>2, <2>1, <2>2, <2>3 DEF ReaderSteps
<1>3. CASE PageSteps
  <2>1. CASE Replies
    BY <2>1, ReplyStep, OpenReplyStep, FaceReplyStep DEF Replies
  <2>2. CASE Repaint \/ ConvertEnds \/ SendFace \/ Booted
    BY <2>2, RepaintStep, ControlStep, SendFaceStep, BootedStep
  <2> QED
    BY <1>3, <2>1, <2>2 DEF PageSteps
<1>4. CASE WorkerDies
  BY <1>4, DiesStep
<1>5. CASE UNCHANGED vars
  <2>1. Typed'
    BY <1>5 DEF vars, page, SessionInv, Typed
  <2>2. WorkerOK(worker') /\ SameBook(worker', worker) /\ SameOpens(inbox', inbox)
    BY <1>5 DEF vars, page, SessionInv, SameBook, SameOpens, Carries
  <2> QED
    BY <1>5, <2>1, <2>2, StepKeeps DEF vars, page
<1> QED
  BY <1>1, <1>2, <1>3, <1>4, <1>5 DEF Next

\* SessionInv is an invariant of the session.
LEMMA SessionHolds ==
  Spec => []SessionInv
BY SessionInit, SessionNext, PTL DEF Spec

-----------------------------------------------------------------------------
(***************************************************************************)
(* The steps keep the position true.                                       *)
(***************************************************************************)
LEMMA SameSteady ==
  ASSUME NEW w
  PROVE  Steady(w, w)
BY DEF Steady

LEMMA LandedQuiet ==
  ASSUME NEW ms, Landed(ms)
  PROVE  Quiet(ms)
BY DEF Landed, Quiet, NewAnswer, LiveOpen

LEMMA SteadyPosition ==
  ASSUME PositionInv, Steady(worker', worker), UNCHANGED <<book, place, shown, reported, picked, inbox, loads>>
  PROVE  PositionInv'
<1> SUFFICES ASSUME loads = << >>, picked # NoBook
             PROVE  PlaceTrue' /\ AnswersLand(inbox', worker')
  BY DEF PositionInv
<1>1. PlaceTrue /\ AnswersLand(inbox, worker)
  BY DEF PositionInv
<1>2. PlaceTrue'
  BY <1>1, SteadyFollows DEF PlaceTrue
<1> QED
  BY <1>1, <1>2, SteadyLands

\* A message joins that is not an answer about a place.
LEMMA PostPosition ==
  ASSUME SessionInv, PositionInv, WorkerOK(worker'), NEW x \in ToldType \cup TakenType,
         worker'.gen = worker.gen, worker'.mounted = worker.mounted, worker'.spine = worker.spine,
         worker.pages <= worker'.pages, IF x \in ToldType THEN Says(x, worker') ELSE Steady(worker', worker),
         inbox' = Append(inbox, x), UNCHANGED <<book, place, shown, reported, picked, loads>>
  PROVE  PositionInv'
<1> SUFFICES ASSUME loads = << >>, picked # NoBook
             PROVE  PlaceTrue' /\ AnswersLand(inbox', worker')
  BY DEF PositionInv
<1>1. PlaceTrue /\ AnswersLand(inbox, worker) /\ inbox \in Seq(MessageType) /\ place.pages \in Nat
  BY DEF PositionInv, SessionInv, Typed
<1>2. worker.pages \in Nat /\ worker'.pages \in Nat
  BY DEF SessionInv, WorkerOK, WorkerType
<1> DEFINE n == Append(inbox, x)
           v == worker'
<1>3. inbox' = n /\ worker' = v
  OBVIOUS
<1> HIDE DEF v
<1>4. /\ v.pages \in Nat /\ v.gen = worker.gen /\ v.mounted = worker.mounted /\ v.spine = worker.spine
      /\ worker.pages <= v.pages /\ (IF x \in ToldType THEN Says(x, v) ELSE Steady(v, worker))
  BY <1>2 DEF v
<1>5. (Landed(n) => Landed(inbox)) /\ AnswersLand(n, v)
  BY <1>1, <1>2, <1>4, PostLands
<1>6. Follows(place, shown, inbox, 0, worker) => Follows(place, shown, n, 0, v)
  <2>1. 0 \in 0 .. Len(inbox)
    BY <1>1
  <2> QED
    BY <1>1, <1>2, <1>4, <2>1, PostFollows
<1> HIDE DEF n
<1>7. PlaceTrue'
  BY <1>1, <1>3, <1>5, <1>6 DEF PlaceTrue
<1> QED
  BY <1>3, <1>5, <1>7

LEMMA ContinuePosition ==
  ASSUME SessionInv, PositionInv, Continue
  PROVE  PositionInv'
<1>1. PICK ok \in Outcome("more") : worker' = More(worker, ok).w /\ inbox' = inbox \o More(worker, ok).out
  BY DEF Continue
<1> DEFINE r == More(worker, ok)
<1>2. worker.loaded
  BY DEF Continue, SessionInv, WorkerOK, Idle
<1>3. WorkerOK(r.w) /\ r.out \in Seq(ToldType) /\ Grown(r.w, worker, r.out)
  BY <1>2, MoreOK DEF Outcome, SessionInv
<1>4. worker' = r.w /\ inbox' = inbox \o r.out
  BY <1>1
<1> HIDE DEF r
<1>5. UNCHANGED <<book, place, shown, reported, picked, loads>> /\ inbox \in Seq(MessageType)
  BY DEF Continue, page, SessionInv, Typed
<1>6. CASE r.out = << >> /\ worker'.pages = worker.pages /\ worker'.est = worker.est
  <2>1. inbox' = inbox
    BY <1>4, <1>5, <1>6
  <2>2. Steady(worker', worker)
    BY <1>3, <1>4, <1>6 DEF Grown, Steady
  <2> QED
    BY <1>5, <2>1, <2>2, SteadyPosition
<1>7. CASE \E n \in ToldType : r.out = <<n>> /\ Says(n, worker')
  <2>1. PICK n \in ToldType : r.out = <<n>> /\ Says(n, worker')
    BY <1>7
  <2>2. inbox' = Append(inbox, n)
    <3>1. n \in MessageType
      BY DEF MessageType
    <3> QED
      BY <1>4, <1>5, <2>1, <3>1
  <2>3. /\ worker'.gen = worker.gen /\ worker'.mounted = worker.mounted /\ worker'.spine = worker.spine
        /\ worker.pages <= worker'.pages /\ WorkerOK(worker')
    BY <1>3, <1>4 DEF Grown
  <2> QED
    BY <1>5, <2>1, <2>2, <2>3, PostPosition
<1> QED
  BY <1>3, <1>4, <1>6, <1>7 DEF Grown

\* Of a queue of replacements the last one's answer is the newest, unless it is superseded by a file
\* that was turned away: then the page will have no book.
LEMMA ReadPosition ==
  ASSUME SessionInv, ReadEnds
  PROVE  PositionInv'
<1> SUFFICES ASSUME loads' = << >>, picked' # NoBook
             PROVE  PlaceTrue' /\ AnswersLand(inbox', worker')
  BY DEF PositionInv
<1>0. picked # NoBook
  BY DEF ReadEnds, page
<1>1. PICK v : \E m \in OpenedType, told \in Seq(ToldType) : ReadAs(v, m, told)
  BY ReadOK
<1>2. PICK m \in OpenedType, told \in Seq(ToldType) : ReadAs(v, m, told)
  BY <1>1
<1>3. /\ loads \in Seq(LoadType) /\ loads # << >> /\ Tail(loads) = << >> /\ inbox \in Seq(MessageType)
      /\ \A i \in DOMAIN loads : loads[i].live = (i = Len(loads))
  BY <1>0 DEF ReadEnds, SessionInv, Typed, Queued, Live
<1>4. worker' = v /\ inbox' = inbox \o (<<m>> \o told) /\ m.live = Head(loads).live /\ Lands(m, told, v)
  BY <1>2, <1>3 DEF ReadAs
<1>5. Head(loads).live
  <2>1. Len(Tail(loads)) = Len(loads) - 1 /\ Len(loads) \in Nat
    BY <1>3
  <2>2. Len(loads) = 1 /\ 1 \in DOMAIN loads /\ Head(loads) = loads[1]
    <3>1. Len(Tail(loads)) = Len(<< >>)
      BY <1>3
    <3>2. Len(loads) = 1
      BY <2>1, <3>1
    <3> QED
      BY <1>3, <3>2
  <2>3. loads[1].live = (1 = Len(loads))
    BY <1>3, <2>2
  <2> QED
    BY <2>2, <2>3
<1> DEFINE n == inbox \o (<<m>> \o told)
<1>6. ~Landed(n) /\ AnswersLand(n, v)
  BY <1>3, <1>4, <1>5, AnswerJoins
<1>7. inbox' = n
  BY <1>4
<1> HIDE DEF n
<1> QED
  BY <1>4, <1>6, <1>7 DEF PlaceTrue

\* The page takes an answer or a post over.
LEMMA RenderPosition ==
  ASSUME SessionInv, PositionInv, RenderReply
  PROVE  PositionInv'
<1> SUFFICES ASSUME loads = << >>, picked # NoBook
             PROVE  PlaceTrue' /\ AnswersLand(inbox', worker')
  BY DEF PositionInv, RenderReply
<1> DEFINE m == Head(inbox)
<1>1. /\ inbox \in Seq(MessageType) /\ inbox # << >> /\ inbox' = Tail(inbox) /\ m.kind = "rendered"
      /\ worker' = worker /\ book' = book /\ PlaceTrue /\ AnswersLand(inbox, worker)
      /\ place' = IF m.ok /\ m.live THEN [spine |-> m.spine, page |-> m.page, pages |-> m.pages,
                                          complete |-> m.complete] ELSE place
      /\ shown' = IF m.ok /\ m.live THEN m.frame ELSE shown
      /\ reported' = IF m.live THEN ~m.ok ELSE reported
  BY DEF RenderReply, Hears, Taken, SessionInv, Typed, PositionInv
<1>2. m = inbox[1] /\ 1 \in DOMAIN inbox
  BY <1>1, TailIs
<1> HIDE DEF m
<1>3. AnswersLand(inbox', worker')
  BY <1>1, TailLands
<1>4. ASSUME Landed(inbox'), book' # NoBook, ~reported'
      PROVE  Follows(place', shown', inbox', 0, worker')
  <2>1. \A i \in DOMAIN inbox : i > 1 => ~NewAnswer(inbox[i])
    BY <1>1, <1>4, TailIs DEF Landed
  <2>2. CASE m.live
    <3>1. Newest(inbox, 1) /\ m.ok
      BY <1>1, <1>2, <1>4, <2>1, <2>2 DEF Newest, NewAnswer
    <3>2. Follows(View(m), m.frame, inbox, 1, worker)
      BY <1>1, <1>2, <3>1 DEF AnswersLand
    <3>3. place' = View(m) /\ shown' = m.frame
      BY <1>1, <2>2, <3>1 DEF View
    <3>4. Follows(View(m), m.frame, Tail(inbox), 0, worker)
      BY <1>1, <3>2, TailFollows
    <3> QED
      BY <1>1, <3>3, <3>4
  <2>3. CASE ~m.live
    <3>1. Landed(inbox)
      <4>1. ~NewAnswer(inbox[1])
        BY <1>2, <2>3 DEF NewAnswer
      <4>2. \A i \in DOMAIN inbox : i = 1 \/ i > 1
        BY <1>1
      <4> QED
        BY <2>1, <4>1, <4>2 DEF Landed
    <3>2. Follows(place, shown, inbox, 0, worker)
      BY <1>1, <1>4, <2>3, <3>1 DEF PlaceTrue
    <3>3. ~Post(Head(inbox))
      BY <1>1, <1>2, TailIs DEF Post
    <3>4. Follows(place, shown, Tail(inbox), 0, worker)
      BY <1>1, <3>2, <3>3, HeadSkipped
    <3> QED
      BY <1>1, <2>3, <3>4
  <2> QED
    BY <2>2, <2>3
<1> QED
  BY <1>3, <1>4 DEF PlaceTrue

LEMMA OpenedPosition ==
  ASSUME SessionInv, PositionInv, OpenReply
  PROVE  PositionInv'
<1> SUFFICES ASSUME loads = << >>, picked # NoBook
             PROVE  PlaceTrue' /\ AnswersLand(inbox', worker')
  BY DEF PositionInv, OpenReply
<1> DEFINE m == Head(inbox)
<1>1. /\ inbox \in Seq(MessageType) /\ inbox # << >> /\ inbox' = Tail(inbox) /\ m.kind = "opened"
      /\ worker' = worker /\ PlaceTrue /\ AnswersLand(inbox, worker)
  BY DEF OpenReply, Hears, Taken, SessionInv, Typed, PositionInv
<1>1a. \/ ~m.live /\ UNCHANGED <<book, place, shown, reported>>
       \/ /\ m.live /\ m.ok /\ shown' = m.frame
          /\ place' = [spine |-> m.spine, page |-> 0, pages |-> m.pages, complete |-> m.complete]
       \/ m.live /\ ~m.ok /\ book' = NoBook
  BY DEF OpenReply, Cleared
<1>2. m = inbox[1] /\ 1 \in DOMAIN inbox
  BY <1>1, TailIs
<1> HIDE DEF m
<1>3. AnswersLand(inbox', worker')
  BY <1>1, TailLands
<1>4. ASSUME Landed(inbox'), book' # NoBook, ~reported'
      PROVE  Follows(place', shown', inbox', 0, worker')
  <2>1. \A i \in DOMAIN inbox : i > 1 => ~NewAnswer(inbox[i])
    BY <1>1, <1>4, TailIs DEF Landed
  <2>2. CASE m.live /\ m.ok
    <3>1. Newest(inbox, 1)
      BY <1>1, <1>2, <2>1, <2>2 DEF Newest, NewAnswer
    <3>2. Follows(View(m), m.frame, inbox, 1, worker)
      BY <1>1, <1>2, <2>2, <3>1 DEF AnswersLand
    <3>3. place' = View(m) /\ shown' = m.frame
      BY <1>1, <1>1a, <2>2 DEF View
    <3>4. Follows(View(m), m.frame, Tail(inbox), 0, worker)
      BY <1>1, <3>2, TailFollows
    <3> QED
      BY <1>1, <3>3, <3>4
  <2>3. CASE ~m.live
    <3>1. Landed(inbox)
      <4>1. ~NewAnswer(inbox[1])
        BY <1>2, <2>3 DEF NewAnswer
      <4>2. \A i \in DOMAIN inbox : i = 1 \/ i > 1
        BY <1>1
      <4> QED
        BY <2>1, <4>1, <4>2 DEF Landed
    <3>2. Follows(place, shown, inbox, 0, worker)
      BY <1>1, <1>1a, <1>4, <2>3, <3>1 DEF PlaceTrue
    <3>3. ~Post(Head(inbox))
      BY <1>1, <1>2, TailIs DEF Post
    <3>4. Follows(place, shown, Tail(inbox), 0, worker)
      BY <1>1, <3>2, <3>3, HeadSkipped
    <3> QED
      BY <1>1, <1>1a, <2>3, <3>4
  <2> QED
    BY <1>1a, <1>4, <2>2, <2>3
<1> QED
  BY <1>3, <1>4 DEF PlaceTrue

\* Pages that were laid out meanwhile: the page believes the post, which is about the worker's chapter.
LEMMA ProgressPosition ==
  ASSUME SessionInv, PositionInv, Progress
  PROVE  PositionInv'
<1> SUFFICES ASSUME loads = << >>, picked # NoBook
             PROVE  PlaceTrue' /\ AnswersLand(inbox', worker')
  BY DEF PositionInv, Progress
<1> DEFINE m == Head(inbox)
<1>1. /\ inbox \in Seq(MessageType) /\ inbox # << >> /\ inbox' = Tail(inbox) /\ m.kind = "progress"
      /\ UNCHANGED <<worker, book, shown, reported>> /\ PlaceTrue /\ AnswersLand(inbox, worker)
      /\ place' = IF Concerns(m)
                  THEN [place EXCEPT !.pages = IF m.pages > @ THEN m.pages ELSE @, !.complete = m.done]
                  ELSE place
  BY DEF Progress, Hears, Taken, SessionInv, Typed, PositionInv
<1>2. m = inbox[1] /\ 1 \in DOMAIN inbox /\ m \in MessageType
  BY <1>1, TailIs
<1>2a. m \in ToldType
  BY <1>1, <1>2, KindTells
<1> HIDE DEF m
<1>3. AnswersLand(inbox', worker')
  BY <1>1, TailLands
<1>4. ASSUME Landed(inbox'), book' # NoBook, ~reported'
      PROVE  Follows(place', shown', inbox', 0, worker')
  <2>1. Landed(inbox)
    <3>1. \A i \in DOMAIN inbox : i > 1 => ~NewAnswer(inbox[i])
      BY <1>1, <1>4, TailIs DEF Landed
    <3>2. ~NewAnswer(inbox[1])
      BY <1>1, <1>2 DEF NewAnswer
    <3>3. \A i \in DOMAIN inbox : i = 1 \/ i > 1
      BY <1>1
    <3> QED
      BY <3>1, <3>2, <3>3 DEF Landed
  <2>2. Follows(place, shown, inbox, 0, worker)
    BY <1>1, <1>4, <2>1 DEF PlaceTrue
  <2>3. m.gen = worker.gen /\ m.spine = worker.spine /\ m.pages <= worker.pages
    BY <1>1, <1>2, <2>2 DEF Follows, Truly, Post
  <2>4. Concerns(m)
    <3>1. genSeen = worker.gen
      BY <1>1, <1>4, <2>1, LandedQuiet DEF SessionInv, Agreed, SameMeaning
    <3> QED
      BY <2>2, <2>3, <3>1 DEF Concerns, Follows, Within
  <2> DEFINE at == [place EXCEPT !.pages = IF m.pages > @ THEN m.pages ELSE @, !.complete = m.done]
  <2>5. place' = at
    BY <1>1, <2>4
  <2>6. /\ place \in PlaceType /\ m.pages \in Nat /\ worker.pages \in Nat /\ m.done \in BOOLEAN
    BY <1>2a DEF SessionInv, Typed, PlaceType, WorkerOK, WorkerType, ToldType
  <2>7. /\ at.spine = place.spine /\ at.page = place.page /\ at.complete = m.done
        /\ at.pages = (IF m.pages > place.pages THEN m.pages ELSE place.pages)
        /\ place.page \in Nat /\ place.pages \in Nat
    BY <2>6 DEF PlaceType
  <2> HIDE DEF at
  <2>8. Within(at, shown, worker)
    BY <2>2, <2>3, <2>6, <2>7 DEF Follows, Within
  <2>9. Follows(at, shown, inbox, 1, worker)
    <3>1. Truly(inbox, 1, worker)
      BY <1>1, <2>2 DEF Follows, Truly
    <3>2. \A i \in DOMAIN inbox : i = 1 \/ i > 1
      BY <1>1
    <3>3. Ends(inbox, 1, at, worker)
      <4>1. CASE Lost(inbox, 0)
        <5>1. PICK i \in DOMAIN inbox : inbox[i].kind = "sectionError"
          BY <4>1 DEF Lost
        <5>2. i > 1
          BY <1>1, <1>2, <3>2, <5>1
        <5> QED
          BY <5>1, <5>2 DEF Ends, Lost
      <4>2. CASE \A i \in DOMAIN inbox : i > 0 => inbox[i].kind # "progress"
        BY <1>1, <1>2, <4>2
      <4>3. CASE \E i \in DOMAIN inbox : i > 0 /\ LastWord(inbox, i) /\ inbox[i].pages = worker.pages
                                         /\ inbox[i].done = (worker.est = "complete")
        <5>1. PICK i \in DOMAIN inbox : LastWord(inbox, i) /\ inbox[i].pages = worker.pages
                                        /\ inbox[i].done = (worker.est = "complete")
          BY <4>3
        <5>2. CASE i > 1
          BY <5>1, <5>2 DEF Ends
        <5>3. CASE i = 1
          <6>1. m.pages = worker.pages /\ m.done = (worker.est = "complete")
            BY <1>2, <5>1, <5>3
          <6>2. place.pages <= worker.pages
            BY <2>2 DEF Follows, Within
          <6>3. Upto(at, worker)
            BY <2>6, <2>7, <6>1, <6>2 DEF Upto
          <6>4. \A j \in DOMAIN inbox : j > 1 => inbox[j].kind # "progress"
            BY <5>1, <5>3 DEF LastWord
          <6> QED
            BY <6>3, <6>4 DEF Ends
        <5> QED
          BY <3>2, <5>2, <5>3
      <4> QED
        BY <2>2, <4>1, <4>2, <4>3 DEF Follows, Ends
    <3> QED
      BY <2>8, <3>1, <3>3 DEF Follows
  <2>10. Follows(at, shown, Tail(inbox), 0, worker)
    <3>1. inbox \in Seq(MessageType) /\ inbox # << >> /\ Follows(at, shown, inbox, 0 + 1, worker)
      BY <1>1, <2>9
    <3> QED
      BY <3>1, TailFollows
  <2> QED
    BY <1>1, <2>5, <2>10
<1> QED
  BY <1>3, <1>4 DEF PlaceTrue

\* The chapter was lost: an error is on screen if it is the one that is read.
LEMMA LostPosition ==
  ASSUME SessionInv, PositionInv, SectionError
  PROVE  PositionInv'
<1> SUFFICES ASSUME loads = << >>, picked # NoBook
             PROVE  PlaceTrue' /\ AnswersLand(inbox', worker')
  BY DEF PositionInv, SectionError
<1> DEFINE m == Head(inbox)
<1>1. /\ inbox \in Seq(MessageType) /\ inbox # << >> /\ inbox' = Tail(inbox) /\ m.kind = "sectionError"
      /\ UNCHANGED <<worker, book, place, shown>> /\ PlaceTrue /\ AnswersLand(inbox, worker)
      /\ reported' = (reported \/ Concerns(m))
  BY DEF SectionError, Hears, Taken, SessionInv, Typed, PositionInv
<1>2. m = inbox[1] /\ 1 \in DOMAIN inbox
  BY <1>1, TailIs
<1> HIDE DEF m
<1>3. AnswersLand(inbox', worker')
  BY <1>1, TailLands
<1>4. ASSUME Landed(inbox'), book' # NoBook, ~reported'
      PROVE  FALSE
  <2>1. Landed(inbox)
    <3>1. \A i \in DOMAIN inbox : i > 1 => ~NewAnswer(inbox[i])
      BY <1>1, <1>4, TailIs DEF Landed
    <3>2. ~NewAnswer(inbox[1])
      BY <1>1, <1>2 DEF NewAnswer
    <3>3. \A i \in DOMAIN inbox : i = 1 \/ i > 1
      BY <1>1
    <3> QED
      BY <3>1, <3>2, <3>3 DEF Landed
  <2>2. Follows(place, shown, inbox, 0, worker)
    BY <1>1, <1>4, <2>1 DEF PlaceTrue
  <2>3. m.gen = worker.gen /\ m.spine = worker.spine
    BY <1>1, <1>2, <2>2 DEF Follows, Truly, Post
  <2>4. genSeen = worker.gen
    BY <1>1, <1>4, <2>1, LandedQuiet DEF SessionInv, Agreed, SameMeaning
  <2>5. Concerns(m)
    BY <2>2, <2>3, <2>4 DEF Concerns, Follows, Within
  <2> QED
    BY <1>1, <1>4, <2>5
<1> QED
  BY <1>3, <1>4 DEF PlaceTrue

LEMMA FaceReplyPosition ==
  ASSUME SessionInv, PositionInv, FaceReply
  PROVE  PositionInv'
<1> DEFINE to == [choice EXCEPT !.font = "custom"]
<1>1. /\ Tail(inbox) \in Seq(MessageType) /\ inbox \in Seq(MessageType) /\ inbox # << >>
      /\ Head(inbox).kind = "faceTaken" /\ UNCHANGED <<book, place, shown, reported, picked, loads>>
  BY HeadKind DEF FaceReply, SessionInv, Typed
<1>2. to \in Settings
  BY DEF SessionInv, Typed, Settings
<1>3. CASE book # NoBook /\ Refresh(place, FALSE, TRUE, to, Tail(inbox))
  <2>1. book \in Books /\ place \in PlaceType
    BY <1>3 DEF SessionInv, Typed, PlaceType
  <2> HIDE DEF to
  <2>2. loads = << >> => ~Landed(inbox') /\ AnswersLand(inbox', worker')
    BY <1>1, <1>2, <1>3, <2>1, RefreshKeeps
  <2> QED
    BY <1>1, <2>2, RefreshPosition
<1>4. CASE worker' = worker /\ inbox' = Tail(inbox)
  <2> SUFFICES ASSUME loads = << >>, picked # NoBook
               PROVE  PlaceTrue' /\ AnswersLand(inbox', worker')
    BY <1>1 DEF PositionInv
  <2>1. PlaceTrue /\ AnswersLand(inbox, worker)
    BY DEF PositionInv
  <2>2. AnswersLand(inbox', worker')
    BY <1>1, <1>4, <2>1, TailLands
  <2>3. ASSUME Landed(inbox'), book # NoBook, ~reported
        PROVE  Follows(place, shown, inbox', 0, worker')
    <3>1. Landed(inbox)
      <4>1. \A i \in DOMAIN inbox : i > 1 => ~NewAnswer(inbox[i])
        BY <1>1, <1>4, <2>3, TailIs DEF Landed
      <4>2. ~NewAnswer(inbox[1])
        BY <1>1, TailIs DEF NewAnswer
      <4>3. \A i \in DOMAIN inbox : i = 1 \/ i > 1
        BY <1>1
      <4> QED
        BY <4>1, <4>2, <4>3 DEF Landed
    <3>2. Follows(place, shown, inbox, 0, worker)
      BY <2>1, <2>3, <3>1 DEF PlaceTrue
    <3>3. ~Post(Head(inbox))
      BY <1>1 DEF Post
    <3> QED
      BY <1>1, <1>4, <3>2, <3>3, HeadSkipped
  <2> QED
    BY <1>1, <2>2, <2>3 DEF PlaceTrue
<1> QED
  BY <1>3, <1>4 DEF FaceReply, Taken

\* The page asks for nothing, or for another look of the page it is on.
LEMMA RepaintPosition ==
  ASSUME SessionInv, PositionInv, Repaint
  PROVE  PositionInv'
<1>1. CASE book = NoBook
  <2>1. UNCHANGED <<book, place, shown, reported, picked, inbox, loads, worker>>
    BY <1>1 DEF Repaint
  <2> QED
    BY <2>1, SameSteady, SteadyPosition
<1>2. CASE book # NoBook
  <2>1. book \in Books /\ choice \in Settings /\ inbox \in Seq(MessageType) /\ place \in PlaceType
    BY <1>2 DEF SessionInv, Typed, PlaceType
  <2>2. loads = << >> => ~Landed(inbox') /\ AnswersLand(inbox', worker')
    BY <1>2, <2>1, RefreshKeeps DEF Repaint
  <2> QED
    BY <2>2, RefreshPosition DEF Repaint
<1> QED
  BY <1>1, <1>2

LEMMA SendFacePosition ==
  ASSUME SessionInv, PositionInv, SendFace
  PROVE  PositionInv'
<1>1. PICK ok \in Outcome("face") :
        LET taken == ok /\ loads = <<>>
        IN /\ worker' = IF taken THEN TakeFace(worker, MaxFaces - left.faces) ELSE worker
           /\ inbox' = Append(inbox, [kind |-> "faceTaken", ok |-> taken])
  BY DEF SendFace
<1> DEFINE taken == ok /\ loads = <<>>
           m == [kind |-> "faceTaken", ok |-> taken]
           f == MaxFaces - left.faces
<1>2. worker' = (IF taken THEN TakeFace(worker, f) ELSE worker) /\ inbox' = Append(inbox, m)
  BY <1>1
<1>3. taken \in BOOLEAN /\ WorkerOK(worker) /\ f \in Nat
  BY PreviewAssumption DEF Outcome, SessionInv, Typed
<1>4. m \in TakenType /\ m \notin ToldType
  BY <1>3 DEF TakenType, ToldType
<1> HIDE DEF taken, m, f
<1>5. WorkerOK(worker') /\ Steady(worker', worker)
  <2>1. CASE taken
    BY <1>2, <1>3, <2>1, TakeFaceOK
  <2>2. CASE ~taken
    BY <1>2, <1>3, <2>2, SameSteady
  <2> QED
    BY <2>1, <2>2
<1>6. /\ worker'.gen = worker.gen /\ worker'.mounted = worker.mounted /\ worker'.spine = worker.spine
      /\ worker.pages <= worker'.pages
  <2>1. worker.pages \in Nat
    BY <1>3 DEF WorkerOK, WorkerType
  <2> QED
    BY <1>5, <2>1 DEF Steady
<1>7. UNCHANGED <<book, place, shown, reported, picked, loads>>
  BY DEF SendFace
<1> QED
  BY <1>2, <1>4, <1>5, <1>6, <1>7, PostPosition

\* Timers, controls, debounces and conversions move nobody.
LEMMA StillPosition ==
  ASSUME SessionInv, PositionInv, TimerFires \/ TurnKnob \/ ChooseFace \/ PickFace \/ ConvertEnds
  PROVE  PositionInv'
<1>1. UNCHANGED <<book, place, shown, reported, picked, inbox, loads>>
  BY DEF TimerFires, TurnKnob, ChooseFace, PickFace, ConvertEnds, page
<1>2. CASE TimerFires
  <2>1. PICK t \in worker.timers : worker' = Prefetch(worker, t)
    BY <1>2 DEF TimerFires
  <2>2. Steady(worker', worker)
    BY <2>1, PrefetchOK DEF SessionInv
  <2> QED
    BY <1>1, <2>2, SteadyPosition
<1>3. CASE TurnKnob \/ ChooseFace \/ PickFace \/ ConvertEnds
  <2>1. worker' = worker
    BY <1>3 DEF TurnKnob, ChooseFace, PickFace, ConvertEnds
  <2> QED
    BY <1>1, <2>1, SameSteady, SteadyPosition
<1> QED
  BY <1>2, <1>3

\* A book that is being opened, or turned away, makes every place on its way worthless.
LEMMA OpeningPosition ==
  ASSUME SessionInv, PositionInv, PickBook \/ Booted
  PROVE  PositionInv'
<1>1. CASE TurnedAway \/ \E b \in Books : Open(b)
  <2>1. loads' # << >> \/ picked' = NoBook
    BY <1>1, OpenOK, TurnedAwayOK
  <2> QED
    BY <2>1 DEF PositionInv
<1>2. CASE UNCHANGED <<book, place, shown, reported, picked, inbox, loads, worker>>
  BY <1>2, SameSteady, SteadyPosition
<1>3. blob # NoBook => blob \in Books
  BY DEF SessionInv, Typed
<1> QED
  BY <1>1, <1>2, <1>3 DEF PickBook, Booted

LEMMA DiesPosition ==
  ASSUME WorkerDies
  PROVE  PositionInv'
<1>1. inbox' = << >> /\ book' = NoBook
  BY DEF WorkerDies
<1>2. DOMAIN inbox' = {}
  BY <1>1
<1> QED
  BY <1>1, <1>2 DEF PositionInv, PlaceTrue, AnswersLand

LEMMA PositionInit ==
  Init => PositionInv
<1> SUFFICES ASSUME Init
             PROVE  PositionInv
  OBVIOUS
<1>1. inbox = << >> /\ book = NoBook
  BY DEF Init
<1>2. DOMAIN inbox = {}
  BY <1>1
<1> QED
  BY <1>1, <1>2 DEF PositionInv, PlaceTrue, AnswersLand

LEMMA PositionNext ==
  SessionInv /\ PositionInv /\ [Next]_vars => PositionInv'
<1> SUFFICES ASSUME SessionInv, PositionInv, [Next]_vars
             PROVE  PositionInv'
  OBVIOUS
<1>1. CASE WorkerSteps
  BY <1>1, ContinuePosition, StillPosition, ReadPosition DEF WorkerSteps
<1>2. CASE ReaderSteps
  <2>1. CASE NextPage \/ PrevPage
    BY <2>1, PageTurnStep DEF NextPage, PrevPage
  <2>2. CASE PickChapter \/ PickBook
    BY <2>2, ChapterStep, OpeningPosition
  <2>3. CASE TurnKnob \/ ChooseFace \/ PickFace
    BY <2>3, StillPosition
  <2> QED
    BY <1>2, <2>1, <2>2, <2>3 DEF ReaderSteps
<1>3. CASE PageSteps
  <2>1. CASE Replies
    BY <2>1, RenderPosition, OpenedPosition, ProgressPosition, LostPosition, FaceReplyPosition DEF Replies
  <2>2. CASE Repaint \/ ConvertEnds \/ SendFace \/ Booted
    BY <2>2, RepaintPosition, StillPosition, SendFacePosition, OpeningPosition
  <2> QED
    BY <1>3, <2>1, <2>2 DEF PageSteps
<1>4. CASE WorkerDies
  BY <1>4, DiesPosition
<1>5. CASE UNCHANGED vars
  <2>1. UNCHANGED <<book, place, shown, reported, picked, inbox, loads, worker>>
    BY <1>5 DEF vars, page
  <2> QED
    BY <2>1, SameSteady, SteadyPosition
<1> QED
  BY <1>1, <1>2, <1>3, <1>4, <1>5 DEF Next

\* PositionInv is an invariant of the session.
LEMMA PositionHolds ==
  Spec => [](SessionInv /\ PositionInv)
BY SessionInit, SessionNext, PositionInit, PositionNext, PTL DEF Spec

-----------------------------------------------------------------------------
(***************************************************************************)
(* What the session guarantees.                                            *)
(***************************************************************************)
\* Page and worker only ever hold what they are meant to: positions in chapters of a picked book,
\* settings the controls offer, a cache within its budget (FRAME_CACHE_BUDGET).
THEOREM SessionTypeCorrect ==
  Spec => []TypeOK
<1>1. SessionInv => TypeOK
  <2> SUFFICES ASSUME SessionInv
               PROVE  TypeOK
    OBVIOUS
  <2>1. Typed
    BY DEF SessionInv
  <2>2. \A i \in DOMAIN inbox :
           inbox[i].kind \in {"rendered", "opened", "progress", "sectionError", "faceTaken"}
    <3> SUFFICES ASSUME NEW i \in DOMAIN inbox
                 PROVE  inbox[i].kind \in {"rendered", "opened", "progress", "sectionError", "faceTaken"}
      OBVIOUS
    <3>1. inbox[i] \in MessageType
      BY <2>1 DEF Typed
    <3> QED
      BY <3>1, KindTells
  <2>3. \A i \in DOMAIN loads : loads[i].book \in Books /\ loads[i].spec \in Settings
    <3> SUFFICES ASSUME NEW i \in DOMAIN loads
                 PROVE  loads[i].book \in Books /\ loads[i].spec \in Settings
      OBVIOUS
    <3>1. loads[i] \in LoadType
      BY <2>1 DEF Typed
    <3> QED
      BY <3>1 DEF LoadType
  <2>4. /\ worker.mounted \in Books \cup {NoBook} /\ worker.spine \in Spines \cup {NoSpine}
        /\ worker.spec \in Settings \cup {NoSpec} /\ Len(worker.cache) <= CacheSize
    BY DEF SessionInv, WorkerOK, WorkerType, SpecType
  <2> QED
    BY <2>1, <2>2, <2>3, <2>4 DEF Typed, TypeOK, SpecType
<1> QED
  BY <1>1, SessionHolds, PTL

\* applyFont trusts its record of the active face rightly: no replacement of the book, upload or change
\* of the preset, in any order, leaves the worker believing in a face the engine does not have.
THEOREM BelievedFaceIsActive ==
  Spec => []AppliedFaceIsTrue
<1>1. SessionInv => AppliedFaceIsTrue
  BY DEF SessionInv, WorkerOK, FaceTrue, AppliedFaceIsTrue
<1> QED
  BY <1>1, SessionHolds, PTL

\* When the render command skips a rebuild, the engine holds the chapter the worker describes, in the
\* layout of now, with as many pages and the same end.
THEOREM BelievedSectionIsBuilt ==
  Spec => []TrackingIsTrue
<1>1. SessionInv => TrackingIsTrue
  BY DEF SessionInv, WorkerOK, SectionTrue, Tracked, TrackingIsTrue
<1> QED
  BY <1>1, SessionHolds, PTL

\* A page turn answered from frameCache shows what the engine would paint now.
THEOREM CachedFramesAreCurrent ==
  Spec => []CacheIsCurrent
<1>1. SessionInv => CacheIsCurrent
  <2> SUFFICES ASSUME SessionInv, NEW i \in DOMAIN worker.cache,
                      worker.cache[i].key.gen = worker.gen, worker.cache[i].key.spec = worker.spec,
                      worker.cache[i].key.stamp = worker.stamp
               PROVE  worker.cache[i].frame
                        = [book |-> worker.mounted, spine |-> worker.cache[i].key.spine,
                           page |-> worker.cache[i].key.page, laid |-> Laid(worker.look),
                           look |-> worker.look]
    BY DEF CacheIsCurrent
  <2> QED
    BY DEF SessionInv, WorkerOK, CacheTrue, Current
<1> QED
  BY <1>1, SessionHolds, PTL

\* However selections are queued in the worker (bookLoadTail) or turned away before the queue, and whatever
\* becomes of each, the worker has the book the page shows once all of it has landed, at the generation
\* its messages carry.  A page without a book has a worker without one (abortBookOpen), a worker that died
\* on the way included, unless the last file was turned away (validateBookInput): then the worker has a
\* whole book or none.
THEOREM PageAndWorkerAgree ==
  Spec => []OneBookEverywhere
<1>1. SessionInv => OneBookEverywhere
  <2> SUFFICES ASSUME SessionInv, Settled
               PROVE  SameMeaning
    BY DEF OneBookEverywhere, SameMeaning, Whole
  <2>1. loads = << >> /\ Quiet(inbox)
    BY DEF Settled, Quiet
  <2> QED
    BY <2>1 DEF SessionInv, Agreed
<1> QED
  BY <1>1, SessionHolds, PTL

\* Whatever was answered, posted or painted in between, when nothing is on its way and no error is on
\* screen the reader is where the page says: goPage turns from the worker's chapter and a page of it
\* that exists, Progress has brought the page count up to the worker's, and the frame on screen is that
\* page of that book.
THEOREM ReaderIsWhereThePageSays ==
  Spec => []PositionIsTrue
<1>1. SessionInv /\ PositionInv => PositionIsTrue
  <2> SUFFICES ASSUME SessionInv, PositionInv, Settled, book # NoBook, ~reported
               PROVE  /\ place.spine = worker.spine /\ place.pages = worker.pages
                      /\ place.complete = (worker.est = "complete")
                      /\ place.page < place.pages
                      /\ <<shown.book, shown.spine, shown.page>> = <<book, place.spine, place.page>>
    BY DEF PositionIsTrue
  <2>1. inbox = << >> /\ loads = << >>
    BY DEF Settled
  <2>2. DOMAIN inbox = {}
    BY <2>1
  <2>3. Landed(inbox) /\ Quiet(inbox)
    BY <2>2 DEF Landed, Quiet
  <2>3a. picked # NoBook
    BY <2>3 DEF SessionInv, Agreed
  <2>4. Follows(place, shown, inbox, 0, worker)
    BY <2>1, <2>3, <2>3a DEF PositionInv, PlaceTrue
  <2>5. Within(place, shown, worker) /\ Upto(place, worker)
    BY <2>2, <2>4 DEF Follows, Ends, Lost
  <2>6. worker.mounted = book
    BY <2>1, <2>3 DEF SessionInv, Agreed, SameMeaning
  <2> QED
    BY <2>5, <2>6 DEF Within, Upto
<1> QED
  BY <1>1, PositionHolds, PTL

\* The page never takes a book over from an open that another one has superseded (loadBook compares
\* its ticket after every await), nor one a queue of loads left behind.
THEOREM LateOpensAreIgnored ==
  Spec => LastChoiceWins
<1>1. SessionInv /\ [Next]_vars => [book' # book => book' \in {NoBook, picked}]_vars
  <2> SUFFICES ASSUME SessionInv, Next, book' # book
               PROVE  book' \in {NoBook, picked}
    OBVIOUS
  <2>1. CASE OpenReply
    BY <2>1, OpenReplyStep
  <2>2. CASE WorkerDies
    BY <2>2 DEF WorkerDies
  <2>3. CASE Next /\ ~OpenReply /\ ~WorkerDies
    <3>1. UNCHANGED book
      BY <2>3 DEF Next, WorkerSteps, ReaderSteps, PageSteps, Replies, Continue, TimerFires, ReadEnds,
           NextPage, PrevPage, goPage, Moves, PickChapter, PickBook, TurnKnob, ChooseFace, PickFace,
           RenderReply, Progress, SectionError, FaceReply, Repaint, ConvertEnds, SendFace, Booted, page
    <3> QED
      BY <3>1
  <2> QED
    BY <2>1, <2>2, <2>3
<1> QED
  BY <1>1, SessionHolds, PTL DEF Spec, LastChoiceWins

================================================================================
