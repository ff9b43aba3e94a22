------------------------- MODULE EngineTransactions -------------------------
(***************************************************************************)
(* The C API of the wasm engine (src/src/wasm_api.cpp): the mounted book,  *)
(* the live reader spec, the section and page used by the preview, and the *)
(* three transactions that produce a file - the serial export, the         *)
(* assembler of encoded spines and the prefix planner.                     *)
(*                                                                         *)
(* One action is one exported call.  A call the code refuses before it     *)
(* touches any state is not a step.  The caller is free: it may ignore a   *)
(* -1 and call anything next, in any order.  Calls says which entry points *)
(* the caller of this engine uses at all: the page's export worker and a   *)
(* pool member use different ones.                                         *)
(***************************************************************************)
EXTENDS Integers, Sequences

CONSTANTS
  Books,          \* books that may be opened
  NoBook,         \* "no book mounted"
  Spines,         \* spine indices a caller may name, 0-based
  Layouts,        \* values of the layout settings in ko::Spec, the font id included
  DefaultLayout,  \* the settings with the built-in face
  CustomLayout,   \* the settings with fontId = CUSTOM_FONT_ID
  SpineCount,     \* SpineCount[b]: number of spines of book b
  PageCount,      \* PageCount[b][s][l]: pages of spine s under layout l
  Toc,            \* Toc[b][s]: the navigation entries of spine s that have a usable title, in
                  \* navigation order, each as the local page of its anchor (-1: no such anchor)
  MaxPages,       \* page ceiling of an exported or assembled container (maxPagesForMode)
  MaxPlanPages,   \* page ceiling of a planned one (MAX_CONTAINER_FILE_BYTES)
  MaxChapters,    \* MAX_EXPORTED_CHAPTERS
  Calls           \* entry points this engine's caller uses

Modes == {"mono", "gray"}
Profiles == {"X3", "X4"}

ASSUME EngineAssumption ==
  /\ NoBook \notin Books
  /\ Spines \subseteq Nat
  /\ DefaultLayout \in Layouts /\ CustomLayout \in Layouts
  /\ SpineCount \in [Books -> Nat]
  /\ PageCount \in [Books -> [Spines -> [Layouts -> Nat]]]
  /\ Toc \in [Books -> [Spines -> Seq(Int)]]
  /\ MaxPages \in Nat /\ MaxPlanPages \in Nat /\ MaxChapters \in Nat

\* One engine serves one caller: the export worker runs the serial export, a pool member encodes,
\* assembles and plans.  The two share g_totalPages and must not run on the same engine.
ASSUME CallerAssumption == ~({"serial", "pool"} \subseteq Calls)

VARIABLES
  book,         \* the book the driver has mounted
  spec,         \* g_spec
  face,         \* a custom face is registered with the renderer
  section,      \* the driver's section_: the spine last laid out, whoever asked for it
  currentSpine, \* g_currentSpine, -1 when the preview has none
  planes,       \* g_page: the page the three planes hold
  rgba,         \* g_rgbaReady
  writer,       \* g_xtch: pending records, mode, profile, metadata
  export,       \* the serial export transaction
  snapshot,     \* g_exportSpec and g_exportMode
  totalPages,   \* g_totalPages, which the serial export and the assembler share
  asm,          \* the assembly transaction and its writer
  plan,         \* the prefix planner
  enc,          \* g_enc: the records of the encoded spine awaiting transfer
  out           \* g_xtchOut with g_xtchFullReady

preview == <<section, currentSpine, planes, rgba>>
serial == <<writer, export, snapshot, totalPages>>
vars == <<book, spec, face, preview, serial, asm, plan, enc, out>>

(***************************************************************************)
(* Page records.  The records of a spine are numbered from 1; a record     *)
(* remembers what it was made from.                                        *)
(***************************************************************************)
Specs == [layout : Layouts, profile : Profiles]
Chapter == [start : Nat, end : Int]
Section == [book : Books, spine : Spines, spec : Specs]
Page == [book : Books, spine : Spines, no : Nat \ {0}, spec : Specs, mode : Modes]

Count(b, s, sp) == PageCount[b][s][sp.layout]

\* Mutated forms: numbering from 0; rendering with the live settings.
Records_FromZero(b, s, sp, m, k) ==
  [i \in 1..k |-> [book |-> b, spine |-> s, no |-> i - 1, spec |-> sp, mode |-> m]]
Records_LiveSpec(b, s, sp, m, k) ==
  [i \in 1..k |-> [book |-> b, spine |-> s, no |-> i, spec |-> spec, mode |-> m]]

\* The first k page records of spine s.
Records(b, s, sp, m, k) ==
  [i \in 1..k |-> [book |-> b, spine |-> s, no |-> i, spec |-> sp, mode |-> m]]

\* Chapter candidates are start pages; a full list refuses more.
Retain(cands, new) ==
  LET all == cands \o new
  IN  IF Len(all) <= MaxChapters THEN all ELSE SubSeq(all, 1, MaxChapters)

\* Mutated form: an anchor beyond the spine's last page is kept.
SpineToc_Unclamped(b, s, base, n) ==
  [i \in 1..Len(Toc[b][s]) |-> base + IF Toc[b][s][i] >= 0 THEN Toc[b][s][i] ELSE 0]

\* Where the navigation entries of spine s land when it starts at page base and has n pages:
\* an anchor the layout did not record starts the spine.
SpineToc(b, s, base, n) ==
  [i \in 1..Len(Toc[b][s]) |-> base + IF Toc[b][s][i] \in 0..n-1 THEN Toc[b][s][i] ELSE 0]

Starts(cands) == {cands[i] : i \in 1..Len(cands)}
NextStart(starts, p) == CHOOSE q \in starts : q > p /\ \A r \in starts : r > p => q <= r

\* Mutated form: a chapter ends where the next begins, not before it.
ChapterEnd_Overlapping(starts, total, p) ==
  IF \E q \in starts : q > p THEN NextStart(starts, p) ELSE total - 1

\* A chapter ends where the next one begins, the last one with the file.
ChapterEnd(starts, total, p) ==
  IF \E q \in starts : q > p THEN NextStart(starts, p) - 1 ELSE total - 1

\* The chapter table: one chapter per distinct start page inside the file.
Chapters(cands, total) ==
  LET End(p) == ChapterEnd(Starts(cands), total, p)
  IN  {[start |-> p, end |-> IF End(p) < p THEN p ELSE End(p)] :
         p \in {q \in Starts(cands) : q <= total - 1}}

(***************************************************************************)
(* The cleared values of the globals, and the predicates the calls test.   *)
(***************************************************************************)
NoSection == [book |-> NoBook, spine |-> -1]
NoExport == [active |-> FALSE, failed |-> FALSE, start |-> 0, toc |-> << >>]
NoPlan == [active |-> FALSE, failed |-> FALSE, pages |-> 0, toc |-> << >>, prefix |-> {}]
NoFile == [ready |-> FALSE, pages |-> << >>, meta |-> NoBook, chapters |-> {}, wrapped |-> FALSE]

\* Mutated form: the failed flag of a transaction is not consulted.
Healthy_Active(t) == t.active
Healthy(t) == t.active /\ ~t.failed
InTransaction == export.active \/ asm.active \/ plan.active
RequireBook == book # NoBook
RequireSpine(s) == book # NoBook /\ s < SpineCount[book]

Init ==
  /\ book = NoBook
  /\ spec = [layout |-> DefaultLayout, profile |-> "X4"]
  /\ face = FALSE
  /\ section = NoSection /\ currentSpine = -1 /\ planes = NoSection /\ rgba = FALSE
  /\ writer = [pages |-> << >>, mode |-> "gray", profile |-> "X4", meta |-> NoBook]
  /\ export = NoExport
  /\ snapshot = [spec |-> spec, mode |-> "gray"]
  /\ totalPages = 0
  /\ asm = [active |-> FALSE, failed |-> FALSE, has |-> FALSE, pages |-> << >>, toc |-> << >>,
            mode |-> "gray", profile |-> "X4", meta |-> NoBook]
  /\ plan = NoPlan
  /\ enc = << >>
  /\ out = NoFile

(***************************************************************************)
(* Live settings.  A layout change drops the section and the page made     *)
(* under the old one.                                                      *)
(***************************************************************************)
\* invalidateLayoutState()
InvalidateLayoutState ==
  section' = NoSection /\ currentSpine' = -1 /\ planes' = NoSection /\ rgba' = FALSE

\* ko_set_font and the other layout setters; the custom face must be registered to be selected.
SetLayout(l) ==
  /\ l # spec.layout
  /\ l = CustomLayout => face
  /\ spec' = [spec EXCEPT !.layout = l]
  /\ InvalidateLayoutState
  /\ UNCHANGED <<book, face, serial, asm, plan, enc, out>>

\* ko_load_epdfont, when the candidate parses: registers the face and selects it.
LoadFace ==
  /\ face' = TRUE
  /\ spec' = [spec EXCEPT !.layout = CustomLayout]
  /\ InvalidateLayoutState
  /\ UNCHANGED <<book, serial, asm, plan, enc, out>>

\* What dropRuntimeCustomFont() does to the spec.
WithoutFace(sp) == IF sp.layout = CustomLayout THEN [sp EXCEPT !.layout = DefaultLayout] ELSE sp

\* ko_clear_custom_font
ClearFace ==
  /\ face
  /\ face' = FALSE
  /\ spec' = WithoutFace(spec)
  /\ IF spec.layout = CustomLayout THEN InvalidateLayoutState ELSE UNCHANGED preview
  /\ UNCHANGED <<book, serial, asm, plan, enc, out>>

\* ko_set_device_profile, to another profile
SetDeviceProfile(p) ==
  /\ p # spec.profile
  /\ ~InTransaction
  /\ spec' = [spec EXCEPT !.profile = p]
  /\ writer' = [writer EXCEPT !.pages = << >>, !.profile = p]
  /\ InvalidateLayoutState
  /\ UNCHANGED <<book, face, export, snapshot, totalPages, asm, plan, enc, out>>

\* ko_export_set_mode
ExportSetMode(m) ==
  /\ ~InTransaction
  /\ writer' = [writer EXCEPT !.mode = m]
  /\ UNCHANGED <<book, spec, face, preview, export, snapshot, totalPages, asm, plan, enc, out>>

(***************************************************************************)
(* Books.                                                                  *)
(***************************************************************************)
\* Mutated form: clearBookOutputs() forgets the encoded spine and the finished container.
CloseTransactions_KeepOutputs ==
  /\ export' = NoExport /\ plan' = NoPlan /\ totalPages' = 0
  /\ asm' = [asm EXCEPT !.active = FALSE, !.failed = FALSE, !.has = FALSE,
                        !.pages = << >>, !.toc = << >>]
  /\ UNCHANGED <<enc, out>>

\* Every export, assembly and plan in progress is over and holds nothing.
CloseTransactions ==
  /\ export' = NoExport /\ plan' = NoPlan /\ totalPages' = 0
  /\ asm' = [asm EXCEPT !.active = FALSE, !.failed = FALSE, !.has = FALSE,
                        !.pages = << >>, !.toc = << >>]
  /\ enc' = << >>
  /\ out' = NoFile

\* beginBookReplacement() with clearBookOutputs(), followed by the mount of b when it parses.
Replace(b) ==
  /\ book' = b
  /\ face' = FALSE
  /\ spec' = WithoutFace(spec)
  /\ InvalidateLayoutState
  /\ writer' = [writer EXCEPT !.pages = << >>, !.meta = b]
  /\ CloseTransactions
  /\ UNCHANGED snapshot

\* ko_load_epub, ko_load_epub_owned and ko_load_epub_external: a parse failure leaves no book.
LoadEpub(b) == Replace(b) \/ Replace(NoBook)

\* ko_unload_book
UnloadBook == Replace(NoBook)

(***************************************************************************)
(* Preview: lay out a spine, render one page of it, compose the pixels.    *)
(***************************************************************************)
LaidOut(s, sp) == [book |-> book, spine |-> s, spec |-> sp]

\* ko_build_spine and ko_start_spine: a failed build has already replaced the section.
BuildSpine(s) ==
  /\ RequireSpine(s)
  /\ section' = LaidOut(s, spec)
  /\ currentSpine' \in {s, currentSpine}
  /\ UNCHANGED <<book, spec, face, planes, rgba, serial, asm, plan, enc, out>>

\* ko_render_page: the planes hold a complete page or nothing.
RenderPage ==
  /\ rgba' = FALSE
  /\ planes' \in IF RequireBook /\ currentSpine >= 0 THEN {section, NoSection} ELSE {NoSection}
  /\ UNCHANGED <<book, spec, face, section, currentSpine, serial, asm, plan, enc, out>>

\* ko_compose_rgba
ComposeRgba ==
  /\ rgba' = (planes # NoSection)
  /\ UNCHANGED <<book, spec, face, section, currentSpine, planes, serial, asm, plan, enc, out>>

(***************************************************************************)
(* The serial export.                                                      *)
(***************************************************************************)
\* failExport: poisoned until the next begin or abort, and its bytes are dropped.
FailExport ==
  /\ export' = [export EXCEPT !.failed = TRUE]
  /\ out' = NoFile

\* Mutated form: a new transaction starts beside the previous one's bytes.
DropOutput_Keep == UNCHANGED out

\* The bytes of an earlier container go when a new one begins.
DropOutput == out' = NoFile

\* ko_export_begin: refused while one is active; otherwise a fresh writer and a snapshot.
ExportBegin ==
  /\ RequireBook
  /\ ~export.active
  /\ export' = [NoExport EXCEPT !.active = TRUE]
  /\ snapshot' = [spec |-> spec, mode |-> writer.mode]
  /\ writer' = [writer EXCEPT !.pages = << >>, !.profile = spec.profile, !.meta = book]
  /\ totalPages' = 0
  /\ DropOutput
  /\ UNCHANGED <<book, spec, face, preview, asm, plan, enc>>

\* ko_export_spine refused before any layout: no healthy export, or no such spine, or a full file.
ExportSpineRefused(s) ==
  /\ ~Healthy(export) \/ ~RequireSpine(s) \/ totalPages >= MaxPages
  /\ FailExport
  /\ UNCHANGED <<book, spec, face, preview, writer, snapshot, totalPages, asm, plan, enc>>

\* ko_export_spine laying out spine s and appending its first k records; the whole spine, or
\* the export fails: a layout error, a page that does not render, a page or memory limit.
ExportSpine(s, k) ==
  LET n == Count(book, s, snapshot.spec)
  IN  /\ Healthy(export) /\ RequireSpine(s) /\ totalPages < MaxPages
      /\ k <= n /\ totalPages + k <= MaxPages
      /\ section' = LaidOut(s, snapshot.spec)
      /\ writer' = [writer EXCEPT
           !.mode = snapshot.mode,
           !.pages = @ \o Records(book, s, snapshot.spec, snapshot.mode, k)]
      /\ totalPages' = totalPages + k
      /\ \/ /\ k = n
            /\ export' = IF n = 0 THEN export ELSE
                 [export EXCEPT !.start = @ + n,
                                !.toc = Retain(@, SpineToc(book, s, export.start, n))]
            /\ UNCHANGED out
         \/ /\ k < n \/ n = 0
            /\ FailExport
      /\ UNCHANGED <<book, spec, face, currentSpine, planes, rgba, snapshot, asm, plan, enc>>

\* ko_export_finish on a healthy export; an empty book and a file over budget fail instead.
ExportFinish ==
  /\ Healthy(export)
  /\ \/ /\ RequireBook /\ totalPages > 0
        /\ out' = [ready |-> TRUE, pages |-> writer.pages, meta |-> writer.meta,
                   chapters |-> Chapters(export.toc, totalPages), wrapped |-> FALSE]
        /\ export' = [export EXCEPT !.active = FALSE]
        /\ writer' = [writer EXCEPT !.pages = << >>]   \* finish() releases the records
     \/ FailExport /\ UNCHANGED writer
  /\ UNCHANGED <<book, spec, face, preview, snapshot, totalPages, asm, plan, enc>>

\* ko_export_abort ends every transaction of the engine, finished bytes included.
ExportAbort ==
  /\ CloseTransactions
  /\ writer' = [writer EXCEPT !.pages = << >>]
  /\ UNCHANGED <<book, spec, face, preview, snapshot>>

\* ko_xtcz_wrap: in place, once; refused without headroom.
XtczWrap ==
  /\ out.ready /\ ~out.wrapped
  /\ out' = [out EXCEPT !.wrapped = TRUE]
  /\ UNCHANGED <<book, spec, face, preview, serial, asm, plan, enc>>

\* ko_xtch_release
XtchRelease ==
  /\ out' = NoFile
  /\ UNCHANGED <<book, spec, face, preview, serial, asm, plan, enc>>

(***************************************************************************)
(* One spine, encoded for transfer by a pool member.                       *)
(***************************************************************************)
\* ko_encode_spine: the previous spine's records go first; then the whole spine or none of it.
EncodeSpine(s) ==
  /\ IF RequireSpine(s)
     THEN /\ section' = LaidOut(s, spec)
          /\ enc' \in {<< >>, Records(book, s, spec, writer.mode, Count(book, s, spec))}
     ELSE enc' = << >> /\ UNCHANGED section
  /\ UNCHANGED <<book, spec, face, currentSpine, planes, rgba, serial, asm, plan, out>>

\* ko_spine_release
SpineRelease ==
  /\ enc' = << >>
  /\ UNCHANGED <<book, spec, face, preview, serial, asm, plan, out>>

(***************************************************************************)
(* The assembler.  Records come back from any pool member, so their        *)
(* layout, profile and mode are the caller's; the caller sends records of  *)
(* the mounted book.                                                       *)
(***************************************************************************)
\* failAssembly
FailAssembly ==
  /\ asm' = [asm EXCEPT !.active = FALSE, !.failed = TRUE, !.has = FALSE,
                        !.pages = << >>, !.toc = << >>]
  /\ out' = NoFile

\* ko_assemble_begin
AssembleBegin(m) ==
  /\ RequireBook
  /\ ~asm.active
  /\ asm' = [active |-> TRUE, failed |-> FALSE, has |-> TRUE, pages |-> << >>, toc |-> << >>,
             mode |-> m, profile |-> spec.profile, meta |-> writer.meta]
  /\ DropOutput
  /\ UNCHANGED <<book, spec, face, preview, serial, plan, enc>>

\* Mutated form: a record's own header is not looked at.
Accepts_Any(recs) == TRUE

\* addRawPage: a record must be of the assembler's mode and geometry.
Accepts(recs) ==
  \A i \in 1..Len(recs) : recs[i].mode = asm.mode /\ recs[i].spec.profile = asm.profile

\* Mutated form: a spine that does not fit is cut at the limit.
AssembleAddSpine_UntilFull(recs) ==
  /\ asm.has /\ Healthy(asm)
  /\ LET room == MaxPages - Len(asm.pages)
     IN  asm' = [asm EXCEPT !.pages = @ \o IF Len(recs) <= room THEN recs ELSE SubSeq(recs, 1, room)]
  /\ UNCHANGED <<book, spec, face, preview, serial, plan, enc, out>>

\* ko_assemble_add_spine appending the records recs: all of them, or the assembly fails - a record
\* of another mode or geometry, a truncated one, a page or memory limit.
AssembleAddSpine(recs) ==
  /\ \/ /\ asm.has /\ Healthy(asm)
        /\ Len(asm.pages) + Len(recs) <= MaxPages
        /\ Accepts(recs)
        /\ asm' = [asm EXCEPT !.pages = @ \o recs]
        /\ UNCHANGED out
     \/ /\ ~(asm.has /\ Healthy(asm)) \/ recs # << >>
        /\ FailAssembly
  /\ UNCHANGED <<book, spec, face, preview, serial, plan, enc>>

\* ko_assemble_add_toc with spineBase + localPage = p
AssembleAddToc(p) ==
  /\ IF asm.has /\ Healthy(asm) /\ p \in 0 .. Len(asm.pages) - 1
     THEN asm' = [asm EXCEPT !.toc = Retain(@, <<p>>)] /\ UNCHANGED out
     ELSE FailAssembly
  /\ UNCHANGED <<book, spec, face, preview, serial, plan, enc>>

\* ko_assemble_finish on a healthy assembly
AssembleFinish ==
  /\ Healthy(asm)
  /\ \/ /\ asm.has /\ RequireBook /\ asm.pages # << >>
        /\ out' = [ready |-> TRUE, pages |-> asm.pages, meta |-> asm.meta,
                   chapters |-> Chapters(asm.toc, Len(asm.pages)), wrapped |-> FALSE]
        /\ totalPages' = Len(asm.pages)
        /\ asm' = [asm EXCEPT !.active = FALSE, !.pages = << >>]   \* finish() releases the records
     \/ FailAssembly /\ UNCHANGED totalPages
  /\ UNCHANGED <<book, spec, face, preview, writer, export, snapshot, plan, enc>>

(***************************************************************************)
(* The prefix planner: the same container, from record lengths alone.      *)
(***************************************************************************)
\* failPlan
FailPlan == plan' = [NoPlan EXCEPT !.failed = TRUE]

\* ko_plan_begin
PlanBegin ==
  /\ RequireBook
  /\ ~plan.active
  /\ plan' = [NoPlan EXCEPT !.active = TRUE]
  /\ UNCHANGED <<book, spec, face, preview, serial, asm, enc, out>>

\* ko_plan_add_spine with n record lengths, all those of the plan's mode and profile or not
PlanAddSpine(n, lengthsMatch) ==
  /\ IF Healthy(plan) /\ lengthsMatch /\ plan.pages + n <= MaxPlanPages
     THEN plan' = [plan EXCEPT !.pages = @ + n]
     ELSE FailPlan
  /\ UNCHANGED <<book, spec, face, preview, serial, asm, enc, out>>

\* ko_plan_add_toc with spineBase + localPage = p
PlanAddToc(p) ==
  /\ IF Healthy(plan) /\ p \in 0 .. plan.pages - 1
     THEN plan' = [plan EXCEPT !.toc = Retain(@, <<p>>)]
     ELSE FailPlan
  /\ UNCHANGED <<book, spec, face, preview, serial, asm, enc, out>>

\* ko_plan_finish; on an unhealthy plan it only drops an earlier prefix.
PlanFinish ==
  /\ IF Healthy(plan)
     THEN \/ /\ plan.pages > 0 /\ RequireBook
             /\ plan' = [plan EXCEPT !.active = FALSE, !.prefix =
                  {[pages |-> plan.pages, meta |-> writer.meta,
                    chapters |-> Chapters(plan.toc, plan.pages)]}]
          \/ FailPlan
     ELSE plan' = [plan EXCEPT !.prefix = {}]
  /\ UNCHANGED <<book, spec, face, preview, serial, asm, enc, out>>

(***************************************************************************)
(* The next-state relation: any call the caller uses.                      *)
(***************************************************************************)
Serial ==
  \/ ExportBegin \/ ExportFinish \/ XtczWrap \/ XtchRelease
  \/ \E s \in Spines : ExportSpineRefused(s) \/ \E k \in 0..MaxPages : ExportSpine(s, k)

\* Whole spines of the mounted book, of any layout, profile and mode.
Transferred == {Records(book, s, sp, m, Count(book, s, sp)) :
                  s \in {t \in Spines : RequireSpine(t)}, sp \in Specs, m \in Modes}

Assemble ==
  \/ AssembleFinish
  \/ \E m \in Modes : AssembleBegin(m)
  \/ \E recs \in Transferred : AssembleAddSpine(recs)
  \/ \E p \in -1..MaxPages : AssembleAddToc(p)

Plan ==
  \/ PlanBegin \/ PlanFinish
  \/ \E n \in 0..MaxPlanPages, lengthsMatch \in BOOLEAN : PlanAddSpine(n, lengthsMatch)
  \/ \E p \in -1..MaxPages : PlanAddToc(p)

Next ==
  \/ UnloadBook
  \/ \E b \in Books : LoadEpub(b)
  \/ "settings" \in Calls /\ \E l \in Layouts : SetLayout(l)
  \/ "face" \in Calls /\ (LoadFace \/ ClearFace)
  \/ "profile" \in Calls /\ \E p \in Profiles : SetDeviceProfile(p)
  \/ "mode" \in Calls /\ \E m \in Modes : ExportSetMode(m)
  \/ "preview" \in Calls /\ (RenderPage \/ ComposeRgba \/ \E s \in Spines : BuildSpine(s))
  \/ "serial" \in Calls /\ Serial
  \/ "pool" \in Calls /\ (Assemble \/ Plan \/ SpineRelease \/ \E s \in Spines : EncodeSpine(s))
  \/ ExportAbort

Spec == Init /\ [][Next]_vars

(***************************************************************************)
(* Properties.                                                             *)
(***************************************************************************)
WriterState == [pages : Seq(Page), mode : Modes, profile : Profiles, meta : Books \cup {NoBook}]
ExportState == [active : BOOLEAN, failed : BOOLEAN, start : Nat, toc : Seq(Nat)]
AsmState == [active : BOOLEAN, failed : BOOLEAN, has : BOOLEAN, pages : Seq(Page), toc : Seq(Nat),
             mode : Modes, profile : Profiles, meta : Books \cup {NoBook}]
Prefix == [pages : Nat, meta : Books \cup {NoBook}, chapters : SUBSET Chapter]
PlanState == [active : BOOLEAN, failed : BOOLEAN, pages : 0..MaxPlanPages, toc : Seq(Nat),
              prefix : SUBSET Prefix]
FileState == [ready : BOOLEAN, pages : Seq(Page), meta : Books \cup {NoBook},
              chapters : SUBSET Chapter, wrapped : BOOLEAN]

SettingsType == book \in Books \cup {NoBook} /\ spec \in Specs /\ face \in BOOLEAN
PreviewType ==
  /\ section \in {NoSection} \cup Section /\ planes \in {NoSection} \cup Section
  /\ currentSpine \in Spines \cup {-1} /\ rgba \in BOOLEAN
SerialType ==
  /\ writer \in WriterState /\ export \in ExportState
  /\ snapshot \in [spec : Specs, mode : Modes] /\ totalPages \in Nat
PoolType == asm \in AsmState /\ plan \in PlanState /\ enc \in Seq(Page)
OutputType == out \in FileState

\* Shape of the globals; records are numbered from 1 and belong to real books and spines.
TypeOK == SettingsType /\ PreviewType /\ SerialType /\ PoolType /\ OutputType

\* Record q is the next record of the same spine as p.
Follows(p, q) == q = [p EXCEPT !.no = @ + 1]

\* Every spine that occurs occurs from its first record to its last, without a gap.
WholeSpines(pages) ==
  \A i \in 1..Len(pages) :
    /\ pages[i].no > 1 => i > 1 /\ Follows(pages[i-1], pages[i])
    /\ pages[i].no < Count(pages[i].book, pages[i].spine, pages[i].spec) =>
         i < Len(pages) /\ Follows(pages[i], pages[i+1])

\* Readable bytes never hold part of a spine: a page that fails to render, a limit reached
\* half-way or a rejected record fails the whole file, whatever the caller does next.
NoPartialFile == out.ready => WholeSpines(out.pages) /\ out.pages # << >>

\* Everything an accessor can hand out belongs to the book mounted now, through failed and
\* successful replacements in the middle of any transaction.
NothingOfPreviousBook ==
  /\ section.book \in {book, NoBook} /\ planes.book \in {book, NoBook}
  /\ rgba => planes.book = book /\ book # NoBook
  /\ writer.meta = book
  /\ \A i \in 1..Len(enc) : enc[i].book = book
  /\ \A pre \in plan.prefix : pre.meta = book
  /\ out.ready => out.meta = book /\ \A i \in 1..Len(out.pages) : out.pages[i].book = book

\* All records of a running export were made under the settings and the mode it began with,
\* although the live settings may change between two of its spines.
OneSpecPerExport ==
  Healthy(export) => \A i \in 1..Len(writer.pages) :
    writer.pages[i].spec = snapshot.spec /\ writer.pages[i].mode = snapshot.mode

\* One file has one container mode and one page geometry.
OneFormatPerFile ==
  out.ready => \A i, j \in 1..Len(out.pages) :
    /\ out.pages[i].mode = out.pages[j].mode
    /\ out.pages[i].spec.profile = out.pages[j].spec.profile

\* Chapters lie inside their file, do not overlap, and leave no page between or after them.
Tiles(chapters, total) ==
  \A c \in chapters :
    /\ 0 <= c.start /\ c.start <= c.end /\ c.end < total
    /\ \A d \in chapters : d # c => d.end < c.start \/ c.end < d.start
    /\ c.end = total - 1 \/ \E d \in chapters : d.start = c.end + 1

\* The chapter table of every file and of every planned prefix describes that file's own pages.
ChaptersTileTheFile ==
  /\ out.ready => Tiles(out.chapters, Len(out.pages))
  /\ \A pre \in plan.prefix : Tiles(pre.chapters, pre.pages)

\* A finished file does not change under its reader: it may be wrapped once, and otherwise only
\* disappears before another takes its place.
FileIsStable ==
  [][out.ready /\ out'.ready => out' \in {out, [out EXCEPT !.wrapped = TRUE]}]_out
=============================================================================
