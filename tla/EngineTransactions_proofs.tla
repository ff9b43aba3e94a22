---------------------- MODULE EngineTransactions_proofs ----------------------
(***************************************************************************)
(* Proofs about EngineTransactions, for every set of books, every layout   *)
(* and every limit: the shape of the globals, that nothing of an earlier   *)
(* book can be read, and what the files are that can be read.              *)
(***************************************************************************)
EXTENDS EngineTransactions, SequenceTheorems, WellFoundedInduction, TLAPS

-----------------------------------------------------------------------------
(* Helpers. *)

LEMMA RecordsType ==
  ASSUME NEW b \in Books, NEW s \in Spines, NEW sp \in Specs, NEW m \in Modes, NEW k \in Nat
  PROVE  /\ Records(b, s, sp, m, k) \in Seq(Page)
         /\ Len(Records(b, s, sp, m, k)) = k
         /\ \A i \in 1..k : Records(b, s, sp, m, k)[i] =
              [book |-> b, spine |-> s, no |-> i, spec |-> sp, mode |-> m]
BY DEF Records, Page

LEMMA CountType ==
  ASSUME NEW b \in Books, NEW s \in Spines, NEW sp \in Specs
  PROVE  Count(b, s, sp) \in Nat
BY EngineAssumption DEF Count, Specs

LEMMA PrefixOfSeq ==
  ASSUME NEW S, NEW s \in Seq(S), NEW n \in 0..Len(s)
  PROVE  /\ SubSeq(s, 1, n) \in Seq(S)
         /\ Len(SubSeq(s, 1, n)) = n
         /\ \A i \in 1..n : SubSeq(s, 1, n)[i] = s[i]
OBVIOUS

\* A candidate list stays a list of pages, and only holds pages it was given.
LEMMA RetainType ==
  ASSUME NEW a \in Seq(Nat), NEW c \in Seq(Nat)
  PROVE  /\ Retain(a, c) \in Seq(Nat)
         /\ \A i \in 1..Len(Retain(a, c)) :
              \/ \E j \in 1..Len(a) : Retain(a, c)[i] = a[j]
              \/ \E j \in 1..Len(c) : Retain(a, c)[i] = c[j]
<1> DEFINE all == a \o c
<1>1. all \in Seq(Nat) /\ Len(all) = Len(a) + Len(c)
  BY ConcatProperties
<1>2. \A i \in 1..Len(all) : \/ \E j \in 1..Len(a) : all[i] = a[j]
                             \/ \E j \in 1..Len(c) : all[i] = c[j]
  <2> TAKE i \in 1..Len(all)
  <2>1. CASE i <= Len(a)
    BY <1>1, <2>1, ConcatProperties
  <2>2. CASE i > Len(a)
    <3>1. i - Len(a) \in 1..Len(c)
      BY <1>1, <2>2
    <3>2. all[i] = c[i - Len(a)]
      BY <1>1, <2>2, ConcatProperties
    <3> QED BY <3>1, <3>2
  <2> QED BY <2>1, <2>2
<1>3. CASE Len(all) <= MaxChapters
  BY <1>1, <1>2, <1>3 DEF Retain
<1>4. CASE ~(Len(all) <= MaxChapters)
  <2> DEFINE cut == SubSeq(all, 1, MaxChapters)
  <2>0. MaxChapters \in Nat /\ MaxChapters < Len(all)
    BY <1>1, <1>4, EngineAssumption
  <2>1. /\ cut \in Seq(Nat) /\ Len(cut) = MaxChapters
        /\ \A i \in 1..MaxChapters : cut[i] = all[i]
    BY <1>1, <2>0, PrefixOfSeq
  <2>2. Retain(a, c) = cut
    BY <1>4 DEF Retain
  <2>3. \A i \in 1..Len(cut) : i \in 1..Len(all) /\ cut[i] = all[i]
    BY <1>1, <2>0, <2>1
  <2> HIDE DEF cut, all
  <2>4. \A i \in 1..Len(cut) : \/ \E j \in 1..Len(a) : cut[i] = a[j]
                               \/ \E j \in 1..Len(c) : cut[i] = c[j]
    BY <1>2, <2>3
  <2> QED BY <2>1, <2>2, <2>4
<1> QED BY <1>3, <1>4

LEMMA LeastElement ==
  ASSUME NEW T \in SUBSET Nat, T # {}
  PROVE  \E q \in T : \A r \in T : q <= r
<1> DEFINE less == {ss \in Nat \X Nat : ss[1] < ss[2]}
<1>1. IsWellFoundedOn(less, Nat)
  BY NatLessThanWellFounded DEF OpToRel
<1>2. \A r, q \in T : <<r, q>> \in less <=> r < q
  OBVIOUS
<1> HIDE DEF less
<1>3. T \subseteq Nat /\ T # {}
  OBVIOUS
<1>4. \E q \in T : \A r \in T : ~(<<r, q>> \in less)
  BY <1>1, <1>3, WFMin, Zenon
<1>5. PICK q \in T : \A r \in T : ~(<<r, q>> \in less)
  BY <1>4
<1>6. ASSUME NEW r \in T
      PROVE  q <= r
  <2>1. ~(r < q)
    BY <1>2, <1>5
  <2> QED BY <1>3, <2>1
<1> QED BY <1>6

LEMMA NextStartProperty ==
  ASSUME NEW starts \in SUBSET Nat, NEW p \in Nat, \E q \in starts : q > p
  PROVE  /\ NextStart(starts, p) \in starts
         /\ NextStart(starts, p) > p
         /\ \A r \in starts : r > p => NextStart(starts, p) <= r
<1> DEFINE later == {q \in starts : q > p}
<1>1. PICK q \in later : \A r \in later : q <= r
  BY LeastElement
<1>2. \E x \in starts : x > p /\ \A r \in starts : r > p => x <= r
  BY <1>1
<1> QED BY <1>2 DEF NextStart

LEMMA ChaptersType ==
  ASSUME NEW cands \in Seq(Nat), NEW total \in Nat
  PROVE  Chapters(cands, total) \in SUBSET Chapter
<1>1. Starts(cands) \in SUBSET Nat
  BY DEF Starts
<1>2. ASSUME NEW p \in Starts(cands)
      PROVE  ChapterEnd(Starts(cands), total, p) \in Int
  <2>1. CASE \E q \in Starts(cands) : q > p
    <3>1. NextStart(Starts(cands), p) \in Nat
      BY <1>1, <2>1, NextStartProperty
    <3> QED BY <2>1, <3>1 DEF ChapterEnd
  <2>2. CASE ~ \E q \in Starts(cands) : q > p
    BY <2>2 DEF ChapterEnd
  <2> QED BY <2>1, <2>2
<1> DEFINE End(p) == ChapterEnd(Starts(cands), total, p)
<1>3. \A p \in Starts(cands) : [start |-> p, end |-> IF End(p) < p THEN p ELSE End(p)] \in Chapter
  BY <1>1, <1>2 DEF Chapter
<1>4. Chapters(cands, total) = {[start |-> p, end |-> IF End(p) < p THEN p ELSE End(p)] :
                                  p \in {q \in Starts(cands) : q <= total - 1}}
  BY DEF Chapters
<1> HIDE DEF End
<1> QED BY <1>3, <1>4

\* The chapter table of candidates that all lie inside the file tiles the file.
LEMMA ChaptersTile ==
  ASSUME NEW cands \in Seq(Nat), NEW total \in Nat, \A i \in 1..Len(cands) : cands[i] < total
  PROVE  Tiles(Chapters(cands, total), total)
<1> DEFINE starts == Starts(cands)
           End(p) == ChapterEnd(starts, total, p)
<1>1. starts \in SUBSET Nat /\ \A p \in starts : p < total
  BY DEF Starts
<1>2. ASSUME NEW p \in starts
      PROVE  /\ End(p) \in Nat /\ p <= End(p) /\ End(p) < total
             /\ \A r \in starts : r > p => End(p) < r
             /\ End(p) = total - 1 \/ End(p) + 1 \in starts
  <2>1. CASE \E q \in starts : q > p
    <3>1. /\ NextStart(starts, p) \in starts /\ NextStart(starts, p) > p
          /\ \A r \in starts : r > p => NextStart(starts, p) <= r
      BY <1>1, <2>1, NextStartProperty
    <3>2. End(p) = NextStart(starts, p) - 1
      BY <2>1 DEF ChapterEnd
    <3> QED BY <1>1, <3>1, <3>2
  <2>2. CASE ~ \E q \in starts : q > p
    BY <1>1, <2>2 DEF ChapterEnd
  <2> QED BY <2>1, <2>2
<1>3. Chapters(cands, total) = {[start |-> p, end |-> End(p)] : p \in starts}
  BY <1>1, <1>2 DEF Chapters
<1> HIDE DEF starts, End
<1> SUFFICES ASSUME NEW c \in Chapters(cands, total)
             PROVE  /\ 0 <= c.start /\ c.start <= c.end /\ c.end < total
                    /\ \A d \in Chapters(cands, total) : d # c => d.end < c.start \/ c.end < d.start
                    /\ \/ c.end = total - 1
                       \/ \E d \in Chapters(cands, total) : d.start = c.end + 1
  BY DEF Tiles
<1>4. PICK p \in starts : c = [start |-> p, end |-> End(p)]
  BY <1>3
<1>5. 0 <= c.start /\ c.start <= c.end /\ c.end < total
  BY <1>1, <1>2, <1>4
<1>6. ASSUME NEW d \in Chapters(cands, total), d # c
      PROVE  d.end < c.start \/ c.end < d.start
  <2>1. PICK q \in starts : d = [start |-> q, end |-> End(q)]
    BY <1>3
  <2>2. q < p \/ p < q
    <3>1. q # p
      BY <1>4, <1>6, <2>1
    <3> QED BY <1>1, <3>1
  <2> QED BY <1>1, <1>2, <1>4, <2>1, <2>2
<1>7. c.end = total - 1 \/ \E d \in Chapters(cands, total) : d.start = c.end + 1
  <2>1. CASE End(p) = total - 1
    BY <1>4, <2>1
  <2>2. CASE End(p) + 1 \in starts
    <3>1. [start |-> End(p) + 1, end |-> End(End(p) + 1)] \in Chapters(cands, total)
      BY <1>3, <2>2
    <3> QED BY <1>4, <3>1
  <2> QED BY <1>2, <2>1, <2>2
<1> QED BY <1>5, <1>6, <1>7


LEMMA WholeConcat ==
  ASSUME NEW a \in Seq(Page), NEW b \in Seq(Page), WholeSpines(a), WholeSpines(b)
  PROVE  WholeSpines(a \o b)
<1> DEFINE c == a \o b
<1>1. /\ c \in Seq(Page) /\ Len(c) = Len(a) + Len(b)
      /\ \A i \in 1..Len(a) : c[i] = a[i]
      /\ \A i \in 1..Len(b) : c[Len(a) + i] = b[i]
  OBVIOUS
<1> SUFFICES ASSUME NEW i \in 1..Len(c)
             PROVE  /\ c[i].no > 1 => i > 1 /\ Follows(c[i-1], c[i])
                    /\ c[i].no < Count(c[i].book, c[i].spine, c[i].spec) =>
                         i < Len(c) /\ Follows(c[i], c[i+1])
  BY DEF WholeSpines
<1> HIDE DEF c
<1>2. CASE i <= Len(a)
  <2>1. i \in 1..Len(a) /\ c[i] = a[i]
    BY <1>1, <1>2
  <2>0. i \in Nat /\ Len(a) \in Nat /\ Len(b) \in Nat
    BY <1>1
  <2>2. i > 1 => c[i-1] = a[i-1]
    <3>1. i > 1 => i-1 \in 1..Len(a)
      BY <1>2, <2>0
    <3> QED BY <1>1, <3>1
  <2>3. i < Len(a) => c[i+1] = a[i+1]
    <3>1. i < Len(a) => i+1 \in 1..Len(a)
      BY <2>0
    <3> QED BY <1>1, <3>1
  <2>4. /\ a[i].no > 1 => i > 1 /\ Follows(a[i-1], a[i])
        /\ a[i].no < Count(a[i].book, a[i].spine, a[i].spec) => i < Len(a) /\ Follows(a[i], a[i+1])
    BY <2>1 DEF WholeSpines
  <2>5. i < Len(a) => i < Len(c)
    BY <1>1, <2>0
  <2> QED BY <2>1, <2>2, <2>3, <2>4, <2>5
<1>3. CASE i > Len(a)
  <2> DEFINE j == i - Len(a)
  <2>1. j \in 1..Len(b) /\ i = Len(a) + j /\ Len(a) \in Nat /\ Len(b) \in Nat
    BY <1>1, <1>3
  <2> HIDE DEF j
  <2>2. c[i] = b[j]
    BY <1>1, <2>1
  <2>3. j > 1 => c[i-1] = b[j-1] /\ i > 1
    <3>1. j > 1 => j-1 \in 1..Len(b) /\ i-1 = Len(a) + (j-1)
      BY <2>1
    <3> QED BY <1>1, <2>1, <3>1
  <2>4. j < Len(b) => c[i+1] = b[j+1] /\ i < Len(c)
    <3>1. j < Len(b) => j+1 \in 1..Len(b) /\ i+1 = Len(a) + (j+1)
      BY <2>1
    <3> QED BY <1>1, <2>1, <3>1
  <2> QED BY <2>1, <2>2, <2>3, <2>4 DEF WholeSpines
<1> QED BY <1>1, <1>2, <1>3

LEMMA WholeRecords ==
  ASSUME NEW b \in Books, NEW s \in Spines, NEW sp \in Specs, NEW m \in Modes
  PROVE  WholeSpines(Records(b, s, sp, m, Count(b, s, sp)))
<1> DEFINE n == Count(b, s, sp)
           r == Records(b, s, sp, m, n)
<1>1. n \in Nat
  BY CountType
<1>2. Len(r) = n /\ \A i \in 1..n : r[i] = [book |-> b, spine |-> s, no |-> i, spec |-> sp, mode |-> m]
  BY <1>1, RecordsType
<1> HIDE DEF r
<1>3. \A i \in 1..n : i > 1 => Follows(r[i-1], r[i])
  BY <1>1, <1>2 DEF Follows
<1>4. \A i \in 1..n : i < n => Follows(r[i], r[i+1])
  BY <1>1, <1>2 DEF Follows
<1>5. \A i \in 1..n : r[i].no = i /\ Count(r[i].book, r[i].spine, r[i].spec) = n
  BY <1>2
<1> HIDE DEF n
<1>6. WholeSpines(r)
  BY <1>1, <1>2, <1>3, <1>4, <1>5 DEF WholeSpines
<1> QED BY <1>6 DEF n, r


-----------------------------------------------------------------------------
(* The shape of the globals. *)

LEMMA SettingsFrame == SettingsType /\ UNCHANGED <<book, spec, face>> => SettingsType'
BY DEF SettingsType
LEMMA PreviewFrame == PreviewType /\ UNCHANGED preview => PreviewType'
BY DEF PreviewType, preview
LEMMA SerialFrame == SerialType /\ UNCHANGED serial => SerialType'
BY DEF SerialType, serial
LEMMA PoolFrame == PoolType /\ UNCHANGED <<asm, plan, enc>> => PoolType'
BY DEF PoolType
LEMMA OutputFrame == OutputType /\ UNCHANGED out => OutputType'
BY DEF OutputType

LEMMA PreviewCleared == InvalidateLayoutState => PreviewType'
BY DEF InvalidateLayoutState, PreviewType

LEMMA SpecsType ==
  ASSUME NEW sp \in Specs
  PROVE  /\ \A l \in Layouts : [sp EXCEPT !.layout = l] \in Specs
         /\ \A p \in Profiles : [sp EXCEPT !.profile = p] \in Specs
         /\ WithoutFace(sp) \in Specs
BY EngineAssumption DEF Specs, WithoutFace

LEMMA WriterType ==
  ASSUME NEW w \in WriterState, NEW pages \in Seq(Page), NEW m \in Modes,
         NEW p \in Profiles, NEW b \in Books \cup {NoBook}
  PROVE  /\ [w EXCEPT !.pages = pages] \in WriterState
         /\ [w EXCEPT !.mode = m] \in WriterState
         /\ [w EXCEPT !.mode = m, !.pages = pages] \in WriterState
         /\ [w EXCEPT !.pages = pages, !.profile = p] \in WriterState
         /\ [w EXCEPT !.pages = pages, !.meta = b] \in WriterState
         /\ [w EXCEPT !.pages = pages, !.profile = p, !.meta = b] \in WriterState
BY DEF WriterState

LEMMA ExportType ==
  /\ NoExport \in ExportState
  /\ [NoExport EXCEPT !.active = TRUE] \in ExportState
  /\ \A e \in ExportState :
       /\ [e EXCEPT !.failed = TRUE] \in ExportState
       /\ [e EXCEPT !.active = FALSE] \in ExportState
       /\ \A n \in Nat, t \in Seq(Nat) : [e EXCEPT !.start = @ + n, !.toc = t] \in ExportState
<1>1. << >> \in Seq(Nat)
  OBVIOUS
<1>2. NoExport \in ExportState /\ [NoExport EXCEPT !.active = TRUE] \in ExportState
  BY <1>1 DEF ExportState, NoExport
<1>3. ASSUME NEW e \in ExportState
      PROVE  /\ [e EXCEPT !.failed = TRUE] \in ExportState
             /\ [e EXCEPT !.active = FALSE] \in ExportState
  BY DEF ExportState
<1>4. ASSUME NEW e \in ExportState, NEW n \in Nat, NEW t \in Seq(Nat)
      PROVE  [e EXCEPT !.start = @ + n, !.toc = t] \in ExportState
  <2>1. e.start + n \in Nat
    BY DEF ExportState
  <2> QED BY <2>1 DEF ExportState
<1> QED BY <1>2, <1>3, <1>4

LEMMA AsmType ==
  ASSUME NEW a \in AsmState
  PROVE  /\ [a EXCEPT !.active = FALSE, !.failed = FALSE, !.has = FALSE, !.pages = << >>,
                      !.toc = << >>] \in AsmState
         /\ [a EXCEPT !.active = FALSE, !.failed = TRUE, !.has = FALSE, !.pages = << >>,
                      !.toc = << >>] \in AsmState
         /\ [a EXCEPT !.active = FALSE, !.pages = << >>] \in AsmState
         /\ \A pages \in Seq(Page) : [a EXCEPT !.pages = @ \o pages] \in AsmState
         /\ \A t \in Seq(Nat) : [a EXCEPT !.toc = t] \in AsmState
<1>1. << >> \in Seq(Page) /\ << >> \in Seq(Nat)
  OBVIOUS
<1>2. \A pages \in Seq(Page) : a.pages \o pages \in Seq(Page)
  BY ConcatProperties DEF AsmState
<1> QED BY <1>1, <1>2 DEF AsmState

LEMMA PlanType ==
  /\ NoPlan \in PlanState
  /\ [NoPlan EXCEPT !.active = TRUE] \in PlanState
  /\ [NoPlan EXCEPT !.failed = TRUE] \in PlanState
  /\ \A pl \in PlanState :
       /\ \A n \in Nat : pl.pages + n <= MaxPlanPages => [pl EXCEPT !.pages = @ + n] \in PlanState
       /\ \A t \in Seq(Nat) : [pl EXCEPT !.toc = t] \in PlanState
       /\ [pl EXCEPT !.prefix = {}] \in PlanState
       /\ \A x \in Prefix : [pl EXCEPT !.active = FALSE, !.prefix = {x}] \in PlanState
<1>1. NoPlan \in PlanState
  BY EngineAssumption DEF NoPlan, PlanState
<1>2. ASSUME NEW pl \in PlanState
      PROVE  /\ \A v \in BOOLEAN : [pl EXCEPT !.active = v] \in PlanState
             /\ \A v \in BOOLEAN : [pl EXCEPT !.failed = v] \in PlanState
             /\ \A t \in Seq(Nat) : [pl EXCEPT !.toc = t] \in PlanState
             /\ [pl EXCEPT !.prefix = {}] \in PlanState
             /\ \A x \in Prefix : [pl EXCEPT !.active = FALSE, !.prefix = {x}] \in PlanState
  BY DEF PlanState
<1>3. ASSUME NEW pl \in PlanState, NEW n \in Nat, pl.pages + n <= MaxPlanPages
      PROVE  [pl EXCEPT !.pages = @ + n] \in PlanState
  <2>1. pl.pages + n \in 0..MaxPlanPages
    BY <1>3, EngineAssumption DEF PlanState
  <2> QED BY <2>1 DEF PlanState
<1> QED BY <1>1, <1>2, <1>3

LEMMA FileType ==
  /\ NoFile \in FileState
  /\ \A f \in FileState : [f EXCEPT !.wrapped = TRUE] \in FileState
  /\ \A pages \in Seq(Page), b \in Books \cup {NoBook}, chs \in SUBSET Chapter :
       [ready |-> TRUE, pages |-> pages, meta |-> b, chapters |-> chs, wrapped |-> FALSE]
         \in FileState
<1>1. << >> \in Seq(Page)
  OBVIOUS
<1>2. NoFile \in FileState
  BY <1>1 DEF NoFile, FileState
<1> QED BY <1>2 DEF FileState

LEMMA SpineTocType ==
  ASSUME NEW b \in Books, NEW s \in Spines, NEW base \in Nat, NEW n \in Nat
  PROVE  /\ SpineToc(b, s, base, n) \in Seq(Nat)
         /\ n > 0 => \A i \in 1..Len(SpineToc(b, s, base, n)) : SpineToc(b, s, base, n)[i] < base + n
<1>1. Toc[b][s] \in Seq(Int)
  BY EngineAssumption
<1>2. Len(Toc[b][s]) \in Nat /\ \A i \in 1..Len(Toc[b][s]) : Toc[b][s][i] \in Int
  BY <1>1
<1>3. \A i \in 1..Len(Toc[b][s]) :
        LET x == base + IF Toc[b][s][i] \in 0..n-1 THEN Toc[b][s][i] ELSE 0
        IN  x \in Nat /\ (n > 0 => x < base + n)
  BY <1>2
<1>4. /\ SpineToc(b, s, base, n) \in Seq(Nat)
      /\ Len(SpineToc(b, s, base, n)) = Len(Toc[b][s])
  BY <1>2, <1>3 DEF SpineToc
<1>5. \A i \in 1..Len(Toc[b][s]) : SpineToc(b, s, base, n)[i] =
        base + IF Toc[b][s][i] \in 0..n-1 THEN Toc[b][s][i] ELSE 0
  BY <1>2 DEF SpineToc
<1> QED BY <1>3, <1>4, <1>5

LEMMA TransferredType ==
  ASSUME TypeOK, NEW recs \in Transferred
  PROVE  /\ recs \in Seq(Page)
         /\ \E s \in Spines, sp \in Specs, m \in Modes :
              book \in Books /\ recs = Records(book, s, sp, m, Count(book, s, sp))
<1>1. PICK s \in Spines, sp \in Specs, m \in Modes :
        RequireSpine(s) /\ recs = Records(book, s, sp, m, Count(book, s, sp))
  BY DEF Transferred
<1>2. book \in Books
  BY <1>1 DEF RequireSpine, TypeOK, SettingsType
<1> QED BY <1>1, <1>2, CountType, RecordsType

LEMMA TypeInit == Init => TypeOK
<1> SUFFICES ASSUME Init PROVE TypeOK
  OBVIOUS
<1>1. /\ spec \in Specs /\ "gray" \in Modes /\ "X4" \in Profiles
      /\ NoBook \in Books \cup {NoBook} /\ << >> \in Seq(Page) /\ << >> \in Seq(Nat)
  BY EngineAssumption DEF Init, Specs, Modes, Profiles
<1>2. SettingsType /\ PreviewType
  BY <1>1 DEF Init, SettingsType, PreviewType
<1>3. NoExport \in ExportState /\ NoPlan \in PlanState /\ NoFile \in FileState
  BY ExportType, PlanType, FileType
<1>4. SerialType
  BY <1>1, <1>3 DEF Init, SerialType, WriterState
<1>5. PoolType /\ OutputType
  BY <1>1, <1>3 DEF Init, PoolType, OutputType, AsmState
<1> QED BY <1>2, <1>4, <1>5 DEF TypeOK

\* Steps on the settings and the book.
LEMMA SettingsTypeStep ==
  ASSUME TypeOK,
         \/ \E l \in Layouts : SetLayout(l)
         \/ LoadFace \/ ClearFace
         \/ \E p \in Profiles : SetDeviceProfile(p)
         \/ \E m \in Modes : ExportSetMode(m)
         \/ \E b \in Books \cup {NoBook} : Replace(b)
  PROVE  TypeOK'
<1> USE DEF TypeOK
<1> SettingsType /\ PreviewType /\ SerialType /\ PoolType /\ OutputType
  OBVIOUS
<1>1. ASSUME NEW l \in Layouts, SetLayout(l) PROVE TypeOK'
  <2>1. SettingsType' /\ PreviewType'
    BY <1>1, SpecsType, PreviewCleared DEF SetLayout, SettingsType
  <2> QED BY <1>1, <2>1, SerialFrame, PoolFrame, OutputFrame DEF SetLayout
<1>2. CASE LoadFace
  <2>1. SettingsType' /\ PreviewType'
    BY <1>2, SpecsType, PreviewCleared, EngineAssumption DEF LoadFace, SettingsType
  <2> QED BY <1>2, <2>1, SerialFrame, PoolFrame, OutputFrame DEF LoadFace
<1>3. CASE ClearFace
  <2>1. SettingsType' /\ PreviewType'
    BY <1>3, SpecsType, PreviewCleared, PreviewFrame DEF ClearFace, SettingsType
  <2> QED BY <1>3, <2>1, SerialFrame, PoolFrame, OutputFrame DEF ClearFace
<1>4. ASSUME NEW p \in Profiles, SetDeviceProfile(p) PROVE TypeOK'
  <2>1. SettingsType' /\ PreviewType'
    BY <1>4, SpecsType, PreviewCleared DEF SetDeviceProfile, SettingsType
  <2>2. writer' \in WriterState
    <3>1. << >> \in Seq(Page) /\ writer \in WriterState
      BY DEF SerialType
    <3> QED BY <1>4, <3>1, WriterType DEF SetDeviceProfile, WriterState
  <2>3. SerialType'
    BY <1>4, <2>2 DEF SetDeviceProfile, SerialType
  <2> QED BY <1>4, <2>1, <2>3, PoolFrame, OutputFrame DEF SetDeviceProfile
<1>5. ASSUME NEW m \in Modes, ExportSetMode(m) PROVE TypeOK'
  <2>1. writer' \in WriterState
    BY <1>5 DEF ExportSetMode, SerialType, WriterState
  <2>2. SerialType'
    BY <1>5, <2>1 DEF ExportSetMode, SerialType
  <2> QED BY <1>5, <2>2, SettingsFrame, PreviewFrame, PoolFrame, OutputFrame DEF ExportSetMode
<1>6. ASSUME NEW b \in Books \cup {NoBook}, Replace(b) PROVE TypeOK'
  <2>0. << >> \in Seq(Page)
    OBVIOUS
  <2>1. SettingsType' /\ PreviewType'
    BY <1>6, SpecsType, PreviewCleared DEF Replace, SettingsType
  <2>2. writer' \in WriterState
    BY <1>6, <2>0 DEF Replace, SerialType, WriterState
  <2>3. SerialType'
    BY <1>6, <2>2, ExportType DEF Replace, CloseTransactions, SerialType
  <2>4. PoolType'
    BY <1>6, <2>0, AsmType, PlanType DEF Replace, CloseTransactions, PoolType
  <2>5. OutputType'
    BY <1>6, FileType DEF Replace, CloseTransactions, OutputType
  <2> QED BY <2>1, <2>3, <2>4, <2>5
<1> QED BY <1>1, <1>2, <1>3, <1>4, <1>5, <1>6

LEMMA PreviewTypeStep ==
  ASSUME TypeOK, RenderPage \/ ComposeRgba \/ \E s \in Spines : BuildSpine(s)
  PROVE  TypeOK'
<1> USE DEF TypeOK
<1> SettingsType /\ PreviewType /\ SerialType /\ PoolType /\ OutputType
  OBVIOUS
<1>1. CASE RenderPage
  <2>1. PreviewType'
    BY <1>1 DEF RenderPage, PreviewType
  <2> QED BY <1>1, <2>1, SettingsFrame, SerialFrame, PoolFrame, OutputFrame DEF RenderPage
<1>2. CASE ComposeRgba
  <2>1. PreviewType'
    BY <1>2 DEF ComposeRgba, PreviewType
  <2> QED BY <1>2, <2>1, SettingsFrame, SerialFrame, PoolFrame, OutputFrame DEF ComposeRgba
<1>3. ASSUME NEW s \in Spines, BuildSpine(s) PROVE TypeOK'
  <2>1. book \in Books /\ spec \in Specs
    BY <1>3 DEF BuildSpine, RequireSpine, SettingsType
  <2>2. PreviewType'
    BY <1>3, <2>1 DEF BuildSpine, LaidOut, PreviewType, Section
  <2> QED BY <1>3, <2>2, SettingsFrame, SerialFrame, PoolFrame, OutputFrame DEF BuildSpine
<1> QED BY <1>1, <1>2, <1>3

LEMMA SerialTypeStep ==
  ASSUME TypeOK, Serial \/ ExportAbort
  PROVE  TypeOK'
<1> USE DEF TypeOK
<1> SettingsType /\ PreviewType /\ SerialType /\ PoolType /\ OutputType
  OBVIOUS
<1>0. << >> \in Seq(Page)
  OBVIOUS
<1>1. CASE ExportBegin
  <2>1. book \in Books /\ spec \in Specs /\ spec.profile \in Profiles
    BY <1>1 DEF ExportBegin, RequireBook, SettingsType, Specs
  <2>2. writer' \in WriterState
    BY <1>0, <1>1, <2>1 DEF ExportBegin, SerialType, WriterState
  <2>3. export' \in ExportState
    BY <1>1, ExportType DEF ExportBegin
  <2>4. snapshot' \in [spec : Specs, mode : Modes]
    BY <1>1, <2>1 DEF ExportBegin, SerialType, WriterState
  <2>5. SerialType'
    BY <1>1, <2>2, <2>3, <2>4 DEF ExportBegin, SerialType
  <2>6. OutputType'
    BY <1>1, FileType DEF ExportBegin, DropOutput, OutputType
  <2> QED BY <1>1, <2>5, <2>6, SettingsFrame, PreviewFrame, PoolFrame DEF ExportBegin
<1>2. ASSUME NEW s \in Spines, ExportSpineRefused(s) PROVE TypeOK'
  <2>1. SerialType'
    BY <1>2, ExportType DEF ExportSpineRefused, FailExport, SerialType
  <2>2. OutputType'
    BY <1>2, FileType DEF ExportSpineRefused, FailExport, OutputType
  <2> QED BY <1>2, <2>1, <2>2, SettingsFrame, PreviewFrame, PoolFrame DEF ExportSpineRefused
<1>3. ASSUME NEW s \in Spines, NEW k \in 0..MaxPages, ExportSpine(s, k) PROVE TypeOK'
  <2> DEFINE n == Count(book, s, snapshot.spec)
             recs == Records(book, s, snapshot.spec, snapshot.mode, k)
             toc == Retain(export.toc, SpineToc(book, s, export.start, n))
  <2>1. book \in Books /\ snapshot.spec \in Specs /\ snapshot.mode \in Modes /\ k \in Nat
    BY <1>3, EngineAssumption DEF ExportSpine, RequireSpine, SettingsType, SerialType
  <2>2. n \in Nat /\ recs \in Seq(Page)
    BY <2>1, CountType, RecordsType
  <2>3. /\ writer' = [writer EXCEPT !.mode = snapshot.mode, !.pages = @ \o recs]
        /\ totalPages' = totalPages + k
        /\ section' = LaidOut(s, snapshot.spec)
        /\ \/ export' = export /\ out' = out
           \/ export' = [export EXCEPT !.start = @ + n, !.toc = toc] /\ out' = out
           \/ FailExport
        /\ UNCHANGED <<book, spec, face, currentSpine, planes, rgba, snapshot, asm, plan, enc>>
    BY <1>3 DEF ExportSpine
  <2> HIDE DEF n, recs
  <2>4. writer' \in WriterState
    <3>1. writer.pages \o recs \in Seq(Page)
      BY <2>2, ConcatProperties DEF SerialType, WriterState
    <3> QED BY <2>1, <2>3, <3>1 DEF SerialType, WriterState
  <2>5. toc \in Seq(Nat)
    BY <2>1, <2>2, SpineTocType, RetainType DEF SerialType, ExportState
  <2>6. export' \in ExportState
    <3>1. export \in ExportState
      BY DEF SerialType
    <3>2. [export EXCEPT !.start = @ + n, !.toc = toc] \in ExportState
      BY <2>2, <2>5, <3>1, ExportType
    <3>3. [export EXCEPT !.failed = TRUE] \in ExportState
      BY <3>1, ExportType
    <3> QED BY <2>3, <3>1, <3>2, <3>3 DEF FailExport
  <2>7. SerialType'
    BY <2>1, <2>3, <2>4, <2>6 DEF SerialType
  <2>8. PreviewType'
    BY <2>1, <2>3 DEF PreviewType, LaidOut, Section
  <2>9. OutputType'
    BY <2>3, FileType DEF OutputType, FailExport
  <2> QED BY <2>3, <2>7, <2>8, <2>9, SettingsFrame, PoolFrame
<1>4. CASE ExportFinish
  <2>0. /\ export \in ExportState /\ writer \in WriterState /\ writer.pages \in Seq(Page)
        /\ writer.meta \in Books \cup {NoBook} /\ export.toc \in Seq(Nat) /\ totalPages \in Nat
    BY DEF SerialType, WriterState, ExportState
  <2>1. writer' \in WriterState
    BY <1>0, <1>4, <2>0 DEF ExportFinish, WriterState
  <2>2. export' \in ExportState
    BY <1>4, <2>0, ExportType DEF ExportFinish, FailExport
  <2>3. SerialType'
    BY <1>4, <2>1, <2>2 DEF ExportFinish, SerialType
  <2>4. Chapters(export.toc, totalPages) \in SUBSET Chapter
    BY <2>0, ChaptersType
  <2>5. OutputType'
    <3> DEFINE chs == Chapters(export.toc, totalPages)
    <3>1. \/ out' = [ready |-> TRUE, pages |-> writer.pages, meta |-> writer.meta,
                     chapters |-> chs, wrapped |-> FALSE]
          \/ out' = NoFile
      BY <1>4 DEF ExportFinish, FailExport
    <3> HIDE DEF chs
    <3>2. chs \in SUBSET Chapter
      BY <2>4 DEF chs
    <3> QED BY <2>0, <3>1, <3>2, FileType DEF OutputType
  <2> QED BY <1>4, <2>3, <2>5, SettingsFrame, PreviewFrame, PoolFrame DEF ExportFinish
<1>5. CASE XtczWrap
  <2>1. OutputType'
    BY <1>5, FileType DEF XtczWrap, OutputType
  <2> QED BY <1>5, <2>1, SettingsFrame, PreviewFrame, SerialFrame, PoolFrame DEF XtczWrap
<1>6. CASE XtchRelease
  <2>1. OutputType'
    BY <1>6, FileType DEF XtchRelease, OutputType
  <2> QED BY <1>6, <2>1, SettingsFrame, PreviewFrame, SerialFrame, PoolFrame DEF XtchRelease
<1>7. CASE ExportAbort
  <2>1. writer' \in WriterState
    BY <1>0, <1>7 DEF ExportAbort, SerialType, WriterState
  <2>2. SerialType'
    BY <1>7, <2>1, ExportType DEF ExportAbort, CloseTransactions, SerialType
  <2>3. PoolType'
    BY <1>0, <1>7, AsmType, PlanType DEF ExportAbort, CloseTransactions, PoolType
  <2>4. OutputType'
    BY <1>7, FileType DEF ExportAbort, CloseTransactions, OutputType
  <2> QED BY <1>7, <2>2, <2>3, <2>4, SettingsFrame, PreviewFrame DEF ExportAbort
<1> QED BY <1>1, <1>2, <1>3, <1>4, <1>5, <1>6, <1>7 DEF Serial

LEMMA EncodeTypeStep ==
  ASSUME TypeOK, SpineRelease \/ \E s \in Spines : EncodeSpine(s)
  PROVE  TypeOK'
<1> USE DEF TypeOK
<1> SettingsType /\ PreviewType /\ SerialType /\ PoolType /\ OutputType
  OBVIOUS
<1>0. << >> \in Seq(Page)
  OBVIOUS
<1>1. CASE SpineRelease
  <2>1. PoolType'
    BY <1>0, <1>1 DEF SpineRelease, PoolType
  <2> QED BY <1>1, <2>1, SettingsFrame, PreviewFrame, SerialFrame, OutputFrame DEF SpineRelease
<1>2. ASSUME NEW s \in Spines, EncodeSpine(s) PROVE TypeOK'
  <2>1. CASE ~RequireSpine(s)
    <3>1. PoolType'
      BY <1>0, <1>2, <2>1 DEF EncodeSpine, PoolType
    <3>2. PreviewType'
      BY <1>2, <2>1 DEF EncodeSpine, PreviewType
    <3> QED BY <1>2, <3>1, <3>2, SettingsFrame, SerialFrame, OutputFrame DEF EncodeSpine
  <2>2. CASE RequireSpine(s)
    <3>1. book \in Books /\ spec \in Specs /\ writer.mode \in Modes
      BY <2>2 DEF RequireSpine, SettingsType, SerialType, WriterState
    <3>2. Records(book, s, spec, writer.mode, Count(book, s, spec)) \in Seq(Page)
      BY <3>1, CountType, RecordsType
    <3>3. PoolType'
      BY <1>0, <1>2, <2>2, <3>2 DEF EncodeSpine, PoolType
    <3>4. PreviewType'
      BY <1>2, <2>2, <3>1 DEF EncodeSpine, PreviewType, LaidOut, Section
    <3> QED BY <1>2, <3>3, <3>4, SettingsFrame, SerialFrame, OutputFrame DEF EncodeSpine
  <2> QED BY <2>1, <2>2
<1> QED BY <1>1, <1>2

LEMMA AssembleTypeStep ==
  ASSUME TypeOK, Assemble
  PROVE  TypeOK'
<1> USE DEF TypeOK
<1> SettingsType /\ PreviewType /\ SerialType /\ PoolType /\ OutputType
  OBVIOUS
<1>0. asm \in AsmState /\ asm.pages \in Seq(Page) /\ asm.toc \in Seq(Nat)
  BY DEF PoolType, AsmState
<1>1. FailAssembly => asm' \in AsmState /\ OutputType'
  BY <1>0, AsmType, FileType DEF FailAssembly, OutputType
<1>2. ASSUME asm' \in AsmState, OutputType', SerialType',
             UNCHANGED <<book, spec, face, preview, plan, enc>>
      PROVE  TypeOK'
  <2>1. PoolType'
    BY <1>2 DEF PoolType
  <2> QED BY <1>2, <2>1, SettingsFrame, PreviewFrame
<1>3. ASSUME NEW m \in Modes, AssembleBegin(m) PROVE TypeOK'
  <2>1. << >> \in Seq(Page) /\ << >> \in Seq(Nat)
    OBVIOUS
  <2>2. spec.profile \in Profiles /\ writer.meta \in Books \cup {NoBook}
    BY DEF SettingsType, Specs, SerialType, WriterState
  <2>3. asm' \in AsmState
    BY <1>3, <2>1, <2>2 DEF AssembleBegin, AsmState
  <2>4. OutputType'
    BY <1>3, FileType DEF AssembleBegin, DropOutput, OutputType
  <2> QED BY <1>2, <1>3, <2>3, <2>4, SerialFrame DEF AssembleBegin
<1>4. ASSUME NEW recs \in Transferred, AssembleAddSpine(recs) PROVE TypeOK'
  <2>1. recs \in Seq(Page)
    BY TransferredType
  <2>2. [asm EXCEPT !.pages = @ \o recs] \in AsmState
    BY <1>0, <2>1, AsmType
  <2>3. asm' \in AsmState /\ OutputType'
    BY <1>1, <1>4, <2>2, OutputFrame DEF AssembleAddSpine
  <2> QED BY <1>2, <1>4, <2>3, SerialFrame DEF AssembleAddSpine
<1>5. ASSUME NEW p \in -1..MaxPages, AssembleAddToc(p) PROVE TypeOK'
  <2>1. ASSUME p \in 0 .. Len(asm.pages) - 1
        PROVE  [asm EXCEPT !.toc = Retain(@, <<p>>)] \in AsmState
    <3>1. <<p>> \in Seq(Nat)
      BY <1>0, <2>1
    <3>2. Retain(asm.toc, <<p>>) \in Seq(Nat)
      BY <1>0, <3>1, RetainType
    <3> QED BY <1>0, <3>2, AsmType
  <2>2. asm' \in AsmState /\ OutputType'
    BY <1>1, <1>5, <2>1, OutputFrame DEF AssembleAddToc
  <2> QED BY <1>2, <1>5, <2>2, SerialFrame DEF AssembleAddToc
<1>6. CASE AssembleFinish
  <2> DEFINE chs == Chapters(asm.toc, Len(asm.pages))
  <2>1. Len(asm.pages) \in Nat /\ asm.meta \in Books \cup {NoBook}
    BY <1>0 DEF AsmState
  <2>2. chs \in SUBSET Chapter
    BY <1>0, <2>1, ChaptersType
  <2>3. \/ /\ out' = [ready |-> TRUE, pages |-> asm.pages, meta |-> asm.meta,
                      chapters |-> chs, wrapped |-> FALSE]
           /\ totalPages' = Len(asm.pages)
           /\ asm' = [asm EXCEPT !.active = FALSE, !.pages = << >>]
        \/ FailAssembly /\ totalPages' = totalPages
    BY <1>6 DEF AssembleFinish
  <2> HIDE DEF chs
  <2>4. asm' \in AsmState
    BY <1>0, <1>1, <2>3, AsmType
  <2>5. OutputType'
    BY <1>0, <1>1, <2>1, <2>2, <2>3, FileType DEF OutputType
  <2>6. SerialType'
    BY <1>6, <2>1, <2>3 DEF AssembleFinish, SerialType
  <2> QED BY <1>2, <1>6, <2>4, <2>5, <2>6 DEF AssembleFinish
<1> QED BY <1>3, <1>4, <1>5, <1>6 DEF Assemble

LEMMA PlanTypeStep ==
  ASSUME TypeOK, Plan
  PROVE  TypeOK'
<1> USE DEF TypeOK
<1> SettingsType /\ PreviewType /\ SerialType /\ PoolType /\ OutputType
  OBVIOUS
<1>0. plan \in PlanState /\ plan.pages \in Nat /\ plan.toc \in Seq(Nat)
  BY EngineAssumption DEF PoolType, PlanState
<1>1. FailPlan => plan' \in PlanState
  BY PlanType DEF FailPlan
<1>2. ASSUME plan' \in PlanState, UNCHANGED <<book, spec, face, preview, serial, asm, enc, out>>
      PROVE  TypeOK'
  <2>1. PoolType'
    BY <1>2 DEF PoolType
  <2> QED BY <1>2, <2>1, SettingsFrame, PreviewFrame, SerialFrame, OutputFrame
<1>3. CASE PlanBegin
  BY <1>2, <1>3, PlanType DEF PlanBegin
<1>4. ASSUME NEW n \in 0..MaxPlanPages, NEW lengthsMatch \in BOOLEAN, PlanAddSpine(n, lengthsMatch)
      PROVE  TypeOK'
  <2>1. n \in Nat
    BY EngineAssumption
  <2>2. plan.pages + n <= MaxPlanPages => [plan EXCEPT !.pages = @ + n] \in PlanState
    BY <1>0, <2>1, PlanType
  <2>3. plan' \in PlanState
    BY <1>1, <1>4, <2>2 DEF PlanAddSpine
  <2> QED BY <1>2, <1>4, <2>3 DEF PlanAddSpine
<1>5. ASSUME NEW p \in -1..MaxPages, PlanAddToc(p) PROVE TypeOK'
  <2>1. ASSUME p \in 0 .. plan.pages - 1
        PROVE  [plan EXCEPT !.toc = Retain(@, <<p>>)] \in PlanState
    <3>1. <<p>> \in Seq(Nat)
      BY <1>0, <2>1
    <3>2. Retain(plan.toc, <<p>>) \in Seq(Nat)
      BY <1>0, <3>1, RetainType
    <3> QED BY <1>0, <3>2, PlanType
  <2>2. plan' \in PlanState
    BY <1>1, <1>5, <2>1 DEF PlanAddToc
  <2> QED BY <1>2, <1>5, <2>2 DEF PlanAddToc
<1>6. CASE PlanFinish
  <2> DEFINE chs == Chapters(plan.toc, plan.pages)
             pre == [pages |-> plan.pages, meta |-> writer.meta, chapters |-> chs]
  <2>1. writer.meta \in Books \cup {NoBook}
    BY DEF SerialType, WriterState
  <2>2. chs \in SUBSET Chapter
    BY <1>0, ChaptersType
  <2>3. pre \in Prefix
    <3> HIDE DEF chs
    <3> QED BY <1>0, <2>1, <2>2 DEF Prefix
  <2>4. \/ plan' = [plan EXCEPT !.active = FALSE, !.prefix = {pre}]
        \/ FailPlan
        \/ plan' = [plan EXCEPT !.prefix = {}]
    BY <1>6 DEF PlanFinish
  <2> HIDE DEF pre
  <2>5. plan' \in PlanState
    BY <1>0, <1>1, <2>3, <2>4, PlanType
  <2> QED BY <1>2, <1>6, <2>5 DEF PlanFinish
<1> QED BY <1>3, <1>4, <1>5, <1>6 DEF Plan

\* Next, one disjunct at a time: what a preservation proof has to look at.
LEMMA NextCases ==
  ASSUME Next
  PROVE  \/ \E l \in Layouts : SetLayout(l)
         \/ LoadFace \/ ClearFace
         \/ \E p \in Profiles : SetDeviceProfile(p)
         \/ \E m \in Modes : ExportSetMode(m)
         \/ \E b \in Books \cup {NoBook} : Replace(b)
         \/ RenderPage \/ ComposeRgba \/ \E s \in Spines : BuildSpine(s)
         \/ "serial" \in Calls /\ Serial
         \/ ExportAbort
         \/ SpineRelease \/ \E s \in Spines : EncodeSpine(s)
         \/ "pool" \in Calls /\ Assemble
         \/ Plan
BY DEF Next, LoadEpub, UnloadBook

LEMMA TypeStep == TypeOK /\ [Next]_vars => TypeOK'
<1> SUFFICES ASSUME TypeOK, [Next]_vars PROVE TypeOK'
  OBVIOUS
<1>1. CASE Next
  BY <1>1, NextCases, SettingsTypeStep, PreviewTypeStep, SerialTypeStep, EncodeTypeStep,
     AssembleTypeStep, PlanTypeStep
<1>2. CASE UNCHANGED vars
  BY <1>2, SettingsFrame, PreviewFrame, SerialFrame, PoolFrame, OutputFrame DEF TypeOK, vars
<1> QED BY <1>1, <1>2

\* The globals of the engine keep their shape through every sequence of calls (wasm_api.cpp): page
\* records are numbered from 1 and name real books and spines, a plan never exceeds its page ceiling.
THEOREM TypeCorrect == Spec => []TypeOK
BY TypeInit, TypeStep, PTL DEF Spec

-----------------------------------------------------------------------------
(* Nothing of an earlier book.  The accessors hand out the preview, the    *)
(* encoded spine, the prefix and the finished file; to be inductive the    *)
(* property must also say whose records the two writers are collecting.    *)

AllOf(b, pages) == \A i \in 1..Len(pages) : pages[i].book = b

PreviewOfBook ==
  /\ section.book \in {book, NoBook} /\ planes.book \in {book, NoBook}
  /\ rgba => planes.book = book /\ book # NoBook
WriterOfBook == writer.meta = book /\ AllOf(book, writer.pages)
AsmOfBook == (asm.has => asm.meta = book) /\ AllOf(book, asm.pages)
EncOfBook == AllOf(book, enc)
PlanOfBook == \A pre \in plan.prefix : pre.meta = book
OutOfBook == out.ready => out.meta = book /\ AllOf(book, out.pages)

BookInv == PreviewOfBook /\ WriterOfBook /\ AsmOfBook /\ EncOfBook /\ PlanOfBook /\ OutOfBook

LEMMA BookInvSuffices == BookInv => NothingOfPreviousBook
BY DEF BookInv, PreviewOfBook, WriterOfBook, EncOfBook, PlanOfBook, OutOfBook, AllOf,
  NothingOfPreviousBook

LEMMA AllOfEmpty == ASSUME NEW b PROVE AllOf(b, << >>)
BY DEF AllOf

LEMMA AllOfRecords ==
  ASSUME NEW b \in Books, NEW s \in Spines, NEW sp \in Specs, NEW m \in Modes, NEW k \in Nat
  PROVE  AllOf(b, Records(b, s, sp, m, k))
<1> DEFINE r == Records(b, s, sp, m, k)
<1>1. Len(r) = k /\ \A i \in 1..k : r[i] = [book |-> b, spine |-> s, no |-> i, spec |-> sp, mode |-> m]
  BY RecordsType
<1> HIDE DEF r
<1>2. AllOf(b, r)
  BY <1>1 DEF AllOf
<1> QED BY <1>2 DEF r

LEMMA AllOfConcat ==
  ASSUME NEW b, NEW x \in Seq(Page), NEW y \in Seq(Page), AllOf(b, x), AllOf(b, y)
  PROVE  AllOf(b, x \o y)
<1> SUFFICES ASSUME NEW i \in 1..Len(x \o y) PROVE (x \o y)[i].book = b
  BY DEF AllOf
<1>1. /\ Len(x) \in Nat /\ Len(y) \in Nat /\ i \in 1 .. Len(x) + Len(y)
      /\ (x \o y)[i] = IF i <= Len(x) THEN x[i] ELSE y[i - Len(x)]
  BY ConcatProperties
<1>2. CASE i <= Len(x)
  BY <1>1, <1>2 DEF AllOf
<1>3. CASE i > Len(x)
  <2>1. i - Len(x) \in 1..Len(y)
    BY <1>1, <1>3
  <2> QED BY <1>1, <1>3, <2>1 DEF AllOf
<1> QED BY <1>1, <1>2, <1>3

LEMMA BookInvInit == Init => BookInv
BY DEF Init, BookInv, PreviewOfBook, WriterOfBook, AsmOfBook, EncOfBook, PlanOfBook, OutOfBook, AllOf,
  NoSection, NoPlan, NoFile

\* Frames: each part holds as long as what it is about and the book do not change.
LEMMA PreviewOfBookFrame == PreviewOfBook /\ UNCHANGED <<book, preview>> => PreviewOfBook'
BY DEF PreviewOfBook, preview
LEMMA WriterOfBookFrame == WriterOfBook /\ UNCHANGED <<book, writer>> => WriterOfBook'
BY DEF WriterOfBook, AllOf
LEMMA AsmOfBookFrame == AsmOfBook /\ UNCHANGED <<book, asm>> => AsmOfBook'
BY DEF AsmOfBook, AllOf
LEMMA EncOfBookFrame == EncOfBook /\ UNCHANGED <<book, enc>> => EncOfBook'
BY DEF EncOfBook, AllOf
LEMMA PlanOfBookFrame == PlanOfBook /\ UNCHANGED <<book, plan>> => PlanOfBook'
BY DEF PlanOfBook
LEMMA OutOfBookFrame == OutOfBook /\ UNCHANGED <<book, out>> => OutOfBook'
BY DEF OutOfBook, AllOf

LEMMA PreviewClearedOfBook == InvalidateLayoutState => PreviewOfBook'
BY DEF InvalidateLayoutState, PreviewOfBook, NoSection
LEMMA NoFileOfBook == out' = NoFile => OutOfBook'
BY DEF NoFile, OutOfBook

LEMMA ClosedOfBook ==
  ASSUME TypeOK, CloseTransactions
  PROVE  AsmOfBook' /\ EncOfBook' /\ PlanOfBook' /\ OutOfBook'
<1>1. asm \in AsmState
  BY DEF TypeOK, PoolType
<1>2. asm'.has = FALSE /\ asm'.pages = << >>
  BY <1>1 DEF CloseTransactions, AsmState
<1>3. AsmOfBook'
  BY <1>2 DEF AsmOfBook, AllOf
<1>4. EncOfBook' /\ PlanOfBook'
  BY DEF CloseTransactions, EncOfBook, PlanOfBook, AllOf, NoPlan
<1> QED BY <1>3, <1>4, NoFileOfBook DEF CloseTransactions

LEMMA BookSettingsStep ==
  ASSUME TypeOK, BookInv,
         \/ \E l \in Layouts : SetLayout(l)
         \/ LoadFace \/ ClearFace
         \/ \E p \in Profiles : SetDeviceProfile(p)
         \/ \E m \in Modes : ExportSetMode(m)
         \/ \E b \in Books \cup {NoBook} : Replace(b)
  PROVE  BookInv'
<1> PreviewOfBook /\ WriterOfBook /\ AsmOfBook /\ EncOfBook /\ PlanOfBook /\ OutOfBook
  BY DEF BookInv
<1>0. writer \in WriterState
  BY DEF TypeOK, SerialType
<1>1. ASSUME UNCHANGED <<book, asm, plan, enc, out>>, PreviewOfBook', WriterOfBook'
      PROVE  BookInv'
  BY <1>1, AsmOfBookFrame, EncOfBookFrame, PlanOfBookFrame, OutOfBookFrame DEF BookInv
<1>2. ASSUME NEW l \in Layouts, SetLayout(l) PROVE BookInv'
  BY <1>1, <1>2, PreviewClearedOfBook, WriterOfBookFrame DEF SetLayout, serial
<1>3. CASE LoadFace
  BY <1>1, <1>3, PreviewClearedOfBook, WriterOfBookFrame DEF LoadFace, serial
<1>4. CASE ClearFace
  BY <1>1, <1>4, PreviewClearedOfBook, PreviewOfBookFrame, WriterOfBookFrame DEF ClearFace, serial
<1>5. ASSUME NEW p \in Profiles, SetDeviceProfile(p) PROVE BookInv'
  <2>1. writer'.meta = writer.meta /\ writer'.pages = << >>
    BY <1>0, <1>5 DEF SetDeviceProfile, WriterState
  <2>2. WriterOfBook'
    <3>1. book' = book
      BY <1>5 DEF SetDeviceProfile
    <3> QED BY <2>1, <3>1, AllOfEmpty DEF WriterOfBook
  <2> QED BY <1>1, <1>5, <2>2, PreviewClearedOfBook DEF SetDeviceProfile
<1>6. ASSUME NEW m \in Modes, ExportSetMode(m) PROVE BookInv'
  <2>1. writer'.meta = writer.meta /\ writer'.pages = writer.pages
    BY <1>0, <1>6 DEF ExportSetMode, WriterState
  <2>2. WriterOfBook'
    BY <1>6, <2>1 DEF ExportSetMode, WriterOfBook, AllOf
  <2> QED BY <1>1, <1>6, <2>2, PreviewOfBookFrame DEF ExportSetMode
<1>7. ASSUME NEW b \in Books \cup {NoBook}, Replace(b) PROVE BookInv'
  <2>1. writer'.meta = b /\ writer'.pages = << >>
    BY <1>0, <1>7 DEF Replace, WriterState
  <2>2. WriterOfBook'
    <3>1. book' = b
      BY <1>7 DEF Replace
    <3> QED BY <2>1, <3>1, AllOfEmpty DEF WriterOfBook
  <2> QED BY <1>7, <2>2, PreviewClearedOfBook, ClosedOfBook DEF Replace, BookInv
<1> QED BY <1>2, <1>3, <1>4, <1>5, <1>6, <1>7

LEMMA BookPreviewStep ==
  ASSUME TypeOK, BookInv, RenderPage \/ ComposeRgba \/ \E s \in Spines : BuildSpine(s)
  PROVE  BookInv'
<1> PreviewOfBook /\ WriterOfBook /\ AsmOfBook /\ EncOfBook /\ PlanOfBook /\ OutOfBook
  BY DEF BookInv
<1>1. ASSUME UNCHANGED <<book, serial, asm, plan, enc, out>>, PreviewOfBook' PROVE BookInv'
  BY <1>1, WriterOfBookFrame, AsmOfBookFrame, EncOfBookFrame, PlanOfBookFrame, OutOfBookFrame
  DEF BookInv, serial
<1>2. CASE RenderPage
  <2>1. PreviewOfBook'
    <3>1. planes' = section \/ planes' = NoSection
      BY <1>2 DEF RenderPage
    <3>2. planes'.book \in {book, NoBook}
      BY <3>1 DEF PreviewOfBook, NoSection
    <3> QED BY <1>2, <3>2 DEF RenderPage, PreviewOfBook
  <2> QED BY <1>1, <1>2, <2>1 DEF RenderPage
<1>3. CASE ComposeRgba
  <2>1. planes # NoSection => planes.book \in Books
    BY DEF TypeOK, PreviewType, Section
  <2>2. PreviewOfBook'
    BY <1>3, <2>1, EngineAssumption DEF ComposeRgba, PreviewOfBook
  <2> QED BY <1>1, <1>3, <2>2 DEF ComposeRgba
<1>4. ASSUME NEW s \in Spines, BuildSpine(s) PROVE BookInv'
  <2>1. PreviewOfBook'
    <3>1. section'.book = book
      BY <1>4 DEF BuildSpine, LaidOut
    <3> QED BY <1>4, <3>1 DEF BuildSpine, PreviewOfBook
  <2> QED BY <1>1, <1>4, <2>1 DEF BuildSpine
<1> QED BY <1>2, <1>3, <1>4

LEMMA BookSerialStep ==
  ASSUME TypeOK, BookInv, Serial \/ ExportAbort
  PROVE  BookInv'
<1> PreviewOfBook /\ WriterOfBook /\ AsmOfBook /\ EncOfBook /\ PlanOfBook /\ OutOfBook
  BY DEF BookInv
<1>0. writer \in WriterState
  BY DEF TypeOK, SerialType
<1>1. ASSUME UNCHANGED <<book, asm, plan, enc>>, PreviewOfBook', WriterOfBook', OutOfBook'
      PROVE  BookInv'
  BY <1>1, AsmOfBookFrame, EncOfBookFrame, PlanOfBookFrame DEF BookInv
<1>2. CASE ExportBegin
  <2>1. writer'.meta = book /\ writer'.pages = << >>
    BY <1>0, <1>2 DEF ExportBegin, WriterState
  <2>2. WriterOfBook'
    BY <1>2, <2>1 DEF ExportBegin, WriterOfBook, AllOf
  <2> QED BY <1>1, <1>2, <2>2, PreviewOfBookFrame, NoFileOfBook DEF ExportBegin, DropOutput
<1>3. ASSUME NEW s \in Spines, ExportSpineRefused(s) PROVE BookInv'
  BY <1>1, <1>3, PreviewOfBookFrame, WriterOfBookFrame, NoFileOfBook DEF ExportSpineRefused, FailExport
<1>4. ASSUME NEW s \in Spines, NEW k \in 0..MaxPages, ExportSpine(s, k) PROVE BookInv'
  <2> DEFINE recs == Records(book, s, snapshot.spec, snapshot.mode, k)
  <2>1. book \in Books /\ snapshot.spec \in Specs /\ snapshot.mode \in Modes /\ k \in Nat
    BY <1>4, EngineAssumption DEF ExportSpine, RequireSpine, TypeOK, SettingsType, SerialType
  <2>2. recs \in Seq(Page) /\ AllOf(book, recs)
    BY <2>1, RecordsType, AllOfRecords
  <2>3. /\ writer' = [writer EXCEPT !.mode = snapshot.mode, !.pages = @ \o recs]
        /\ section' = LaidOut(s, snapshot.spec)
        /\ out' = out \/ out' = NoFile
        /\ UNCHANGED <<book, spec, face, currentSpine, planes, rgba, snapshot, asm, plan, enc>>
    BY <1>4 DEF ExportSpine, FailExport
  <2> HIDE DEF recs
  <2>4. writer'.meta = writer.meta /\ writer'.pages = writer.pages \o recs /\ writer.pages \in Seq(Page)
    BY <1>0, <2>3 DEF WriterState
  <2>5. AllOf(book, writer.pages \o recs)
    BY <2>2, <2>4, AllOfConcat DEF WriterOfBook
  <2>6. WriterOfBook'
    BY <2>3, <2>4, <2>5 DEF WriterOfBook
  <2>7. PreviewOfBook'
    BY <2>3 DEF LaidOut, PreviewOfBook
  <2>8. OutOfBook'
    BY <2>3, OutOfBookFrame, NoFileOfBook
  <2> QED BY <1>1, <2>3, <2>6, <2>7, <2>8
<1>5. CASE ExportFinish
  <2>1. \/ /\ out'.meta = writer.meta /\ out'.pages = writer.pages
           /\ writer'.meta = writer.meta /\ writer'.pages = << >>
        \/ out' = NoFile /\ writer' = writer
    BY <1>0, <1>5 DEF ExportFinish, FailExport, WriterState
  <2>2. OutOfBook' /\ WriterOfBook'
    BY <1>5, <2>1, NoFileOfBook DEF ExportFinish, OutOfBook, WriterOfBook, AllOf
  <2> QED BY <1>1, <1>5, <2>2, PreviewOfBookFrame DEF ExportFinish
<1>6. CASE XtczWrap
  <2>1. out'.meta = out.meta /\ out'.pages = out.pages /\ out'.ready = out.ready
    BY <1>6 DEF XtczWrap, TypeOK, OutputType, FileState
  <2>2. OutOfBook'
    BY <1>6, <2>1 DEF XtczWrap, OutOfBook, AllOf
  <2> QED BY <1>1, <1>6, <2>2, PreviewOfBookFrame, WriterOfBookFrame DEF XtczWrap, serial
<1>7. CASE XtchRelease
  BY <1>1, <1>7, PreviewOfBookFrame, WriterOfBookFrame, NoFileOfBook DEF XtchRelease, serial
<1>8. CASE ExportAbort
  <2>1. writer'.meta = writer.meta /\ writer'.pages = << >>
    BY <1>0, <1>8 DEF ExportAbort, WriterState
  <2>2. WriterOfBook'
    BY <1>8, <2>1 DEF ExportAbort, WriterOfBook, AllOf
  <2> QED BY <1>8, <2>2, PreviewOfBookFrame, ClosedOfBook DEF ExportAbort, BookInv
<1> QED BY <1>2, <1>3, <1>4, <1>5, <1>6, <1>7, <1>8 DEF Serial

LEMMA BookPoolStep ==
  ASSUME TypeOK, BookInv,
         SpineRelease \/ (\E s \in Spines : EncodeSpine(s)) \/ Assemble \/ Plan
  PROVE  BookInv'
<1> PreviewOfBook /\ WriterOfBook /\ AsmOfBook /\ EncOfBook /\ PlanOfBook /\ OutOfBook
  BY DEF BookInv
<1>0. writer \in WriterState /\ asm \in AsmState /\ plan \in PlanState
  BY DEF TypeOK, SerialType, PoolType
<1>1. CASE SpineRelease
  <2>1. EncOfBook'
    BY <1>1 DEF SpineRelease, EncOfBook, AllOf
  <2> QED BY <1>1, <2>1, PreviewOfBookFrame, WriterOfBookFrame, AsmOfBookFrame, PlanOfBookFrame,
          OutOfBookFrame DEF SpineRelease, BookInv, serial
<1>2. ASSUME NEW s \in Spines, EncodeSpine(s) PROVE BookInv'
  <2>1. PreviewOfBook'
    BY <1>2 DEF EncodeSpine, LaidOut, PreviewOfBook
  <2>2. EncOfBook'
    <3>1. ASSUME RequireSpine(s)
          PROVE  AllOf(book, Records(book, s, spec, writer.mode, Count(book, s, spec)))
      <4>1. book \in Books /\ spec \in Specs /\ writer.mode \in Modes
        BY <1>0, <3>1 DEF RequireSpine, TypeOK, SettingsType, WriterState
      <4> QED BY <4>1, CountType, AllOfRecords
    <3> QED BY <1>2, <3>1, AllOfEmpty DEF EncodeSpine, EncOfBook
  <2> QED BY <1>2, <2>1, <2>2, WriterOfBookFrame, AsmOfBookFrame, PlanOfBookFrame, OutOfBookFrame
          DEF EncodeSpine, BookInv, serial
<1>3. CASE Assemble
  <2>1. ASSUME AsmOfBook', OutOfBook', UNCHANGED <<book, preview, writer, plan, enc>>
        PROVE  BookInv'
    BY <2>1, PreviewOfBookFrame, WriterOfBookFrame, EncOfBookFrame, PlanOfBookFrame DEF BookInv
  <2>2. ASSUME FailAssembly, UNCHANGED book PROVE AsmOfBook' /\ OutOfBook'
    <3>1. asm'.has = FALSE /\ asm'.pages = << >>
      BY <1>0, <2>2 DEF FailAssembly, AsmState
    <3> QED BY <2>2, <3>1, NoFileOfBook DEF FailAssembly, AsmOfBook, AllOf
  <2>3. ASSUME NEW m \in Modes, AssembleBegin(m) PROVE BookInv'
    <3>1. AsmOfBook'
      BY <2>3 DEF AssembleBegin, AsmOfBook, WriterOfBook, AllOf
    <3> QED BY <2>1, <2>3, <3>1, NoFileOfBook DEF AssembleBegin, DropOutput, serial
  <2>4. ASSUME NEW recs \in Transferred, AssembleAddSpine(recs) PROVE BookInv'
    <3>1. recs \in Seq(Page) /\ AllOf(book, recs)
      BY TransferredType, CountType, AllOfRecords
    <3>2. AllOf(book, asm.pages \o recs)
      BY <1>0, <3>1, AllOfConcat DEF AsmOfBook, AsmState
    <3>3. CASE asm' = [asm EXCEPT !.pages = @ \o recs] /\ out' = out
      <4>1. asm'.has = asm.has /\ asm'.meta = asm.meta /\ asm'.pages = asm.pages \o recs
        BY <1>0, <3>3 DEF AsmState
      <4>2. AsmOfBook'
        BY <2>4, <3>2, <4>1 DEF AssembleAddSpine, AsmOfBook
      <4> QED BY <2>1, <2>4, <3>3, <4>2, OutOfBookFrame DEF AssembleAddSpine, serial
    <3>4. CASE FailAssembly
      BY <2>1, <2>2, <2>4, <3>4 DEF AssembleAddSpine, serial
    <3> QED BY <2>4, <3>3, <3>4 DEF AssembleAddSpine
  <2>5. ASSUME NEW p \in -1..MaxPages, AssembleAddToc(p) PROVE BookInv'
    <3>1. CASE asm' = [asm EXCEPT !.toc = Retain(@, <<p>>)] /\ out' = out
      <4>1. asm'.has = asm.has /\ asm'.meta = asm.meta /\ asm'.pages = asm.pages
        BY <1>0, <3>1 DEF AsmState
      <4>2. AsmOfBook'
        BY <2>5, <4>1 DEF AssembleAddToc, AsmOfBook
      <4> QED BY <2>1, <2>5, <3>1, <4>2, OutOfBookFrame DEF AssembleAddToc, serial
    <3>2. CASE FailAssembly
      BY <2>1, <2>2, <2>5, <3>2 DEF AssembleAddToc, serial
    <3> QED BY <2>5, <3>1, <3>2 DEF AssembleAddToc
  <2>6. CASE AssembleFinish
    <3>1. CASE asm.has /\ out'.meta = asm.meta /\ out'.pages = asm.pages
               /\ asm' = [asm EXCEPT !.active = FALSE, !.pages = << >>]
      <4>1. asm'.has = asm.has /\ asm'.meta = asm.meta /\ asm'.pages = << >>
        BY <1>0, <3>1 DEF AsmState
      <4>2. AsmOfBook' /\ OutOfBook'
        BY <2>6, <3>1, <4>1 DEF AssembleFinish, AsmOfBook, OutOfBook, AllOf
      <4> QED BY <2>1, <2>6, <4>2 DEF AssembleFinish
    <3>2. CASE FailAssembly
      BY <2>1, <2>2, <2>6, <3>2 DEF AssembleFinish
    <3> QED BY <2>6, <3>1, <3>2 DEF AssembleFinish
  <2> QED BY <1>3, <2>3, <2>4, <2>5, <2>6 DEF Assemble
<1>4. CASE Plan
  <2>1. /\ UNCHANGED <<book, preview, serial, asm, enc, out>>
        /\ \/ plan'.prefix = {} \/ plan'.prefix = plan.prefix
           \/ \E pre : plan'.prefix = {pre} /\ pre.meta = writer.meta
    <3>0. FailPlan => plan'.prefix = {}
      BY DEF FailPlan, NoPlan
    <3>1. CASE PlanBegin
      BY <3>1 DEF PlanBegin, NoPlan
    <3>2. ASSUME NEW n \in 0..MaxPlanPages, NEW lengthsMatch \in BOOLEAN, PlanAddSpine(n, lengthsMatch)
          PROVE  /\ UNCHANGED <<book, preview, serial, asm, enc, out>>
                 /\ plan'.prefix = {} \/ plan'.prefix = plan.prefix
      BY <1>0, <3>0, <3>2 DEF PlanAddSpine, PlanState
    <3>3. ASSUME NEW p \in -1..MaxPages, PlanAddToc(p)
          PROVE  /\ UNCHANGED <<book, preview, serial, asm, enc, out>>
                 /\ plan'.prefix = {} \/ plan'.prefix = plan.prefix
      BY <1>0, <3>0, <3>3 DEF PlanAddToc, PlanState
    <3>4. CASE PlanFinish
      <4> DEFINE pre == [pages |-> plan.pages, meta |-> writer.meta,
                         chapters |-> Chapters(plan.toc, plan.pages)]
      <4>1. \/ plan' = [plan EXCEPT !.active = FALSE, !.prefix = {pre}]
            \/ FailPlan
            \/ plan' = [plan EXCEPT !.prefix = {}]
        BY <3>4 DEF PlanFinish
      <4>2. pre.meta = writer.meta
        OBVIOUS
      <4> HIDE DEF pre
      <4>3. plan'.prefix = {} \/ plan'.prefix = {pre}
        BY <1>0, <3>0, <4>1 DEF PlanState
      <4> QED BY <3>4, <4>2, <4>3 DEF PlanFinish
    <3> QED BY <1>4, <3>1, <3>2, <3>3, <3>4 DEF Plan
  <2>2. PlanOfBook'
    BY <2>1 DEF PlanOfBook, WriterOfBook
  <2> QED BY <2>1, <2>2, PreviewOfBookFrame, WriterOfBookFrame, AsmOfBookFrame, EncOfBookFrame,
          OutOfBookFrame DEF BookInv, serial
<1> QED BY <1>1, <1>2, <1>3, <1>4

LEMMA BookInvStep == TypeOK /\ BookInv /\ [Next]_vars => BookInv'
<1> SUFFICES ASSUME TypeOK, BookInv, [Next]_vars PROVE BookInv'
  OBVIOUS
<1>1. CASE Next
  BY <1>1, NextCases, BookSettingsStep, BookPreviewStep, BookSerialStep, BookPoolStep
<1>2. CASE UNCHANGED vars
  BY <1>2, PreviewOfBookFrame, WriterOfBookFrame, AsmOfBookFrame, EncOfBookFrame, PlanOfBookFrame,
     OutOfBookFrame DEF BookInv, vars, serial
<1> QED BY <1>1, <1>2

\* After a replacement begins no accessor of wasm_api.cpp can hand out bytes of the previous book, in
\* whichever transaction the replacement came and whether the new book parsed or not.
THEOREM BooksDoNotMix == Spec => []NothingOfPreviousBook
<1>1. Spec => []BookInv
  BY TypeInit, TypeStep, BookInvInit, BookInvStep, PTL DEF Spec
<1> QED BY <1>1, BookInvSuffices, PTL

-----------------------------------------------------------------------------
(***************************************************************************)
(* The files EngineTransactions lets a caller read: whole spines only, one *)
(* spec per export, and a chapter table that tiles the file.  These follow *)
(* from one inductive invariant about what the serial export, the          *)
(* assembler and the planner are collecting (FileInv).  With one more,     *)
(* about the mode and profile of what is being collected, a file has one   *)
(* format; that its bytes do not change while they are readable is shown   *)
(* of each call.                                                           *)
(***************************************************************************)
Below(toc, n) == \A i \in 1..Len(toc) : toc[i] < n
AllSpec(sp, m, pages) == \A i \in 1..Len(pages) : pages[i].spec = sp /\ pages[i].mode = m

\* A healthy export has collected whole spines under its snapshot, has counted them in both
\* counters and has chapter candidates on them only.
SerialSound ==
  /\ "serial" \notin Calls => ~export.active
  /\ Healthy(export) =>
       /\ totalPages = Len(writer.pages) /\ export.start = totalPages
       /\ WholeSpines(writer.pages)
       /\ AllSpec(snapshot.spec, snapshot.mode, writer.pages)
       /\ Below(export.toc, totalPages)
AsmSound == WholeSpines(asm.pages) /\ (asm.active => Below(asm.toc, Len(asm.pages)))
PlanSound ==
  /\ plan.active => Below(plan.toc, plan.pages)
  /\ \A pre \in plan.prefix : Tiles(pre.chapters, pre.pages)
OutSound ==
  out.ready =>
    WholeSpines(out.pages) /\ out.pages # << >> /\ Tiles(out.chapters, Len(out.pages))

FileInv == SerialSound /\ AsmSound /\ PlanSound /\ OutSound

-----------------------------------------------------------------------------
(* Helpers. *)

LEMMA EmptyFacts ==
  /\ WholeSpines(<< >>)
  /\ \A n : Below(<< >>, n)
  /\ \A sp, m : AllSpec(sp, m, << >>)
BY DEF WholeSpines, Below, AllSpec

LEMMA BelowMonotonic ==
  ASSUME NEW toc \in Seq(Nat), NEW n \in Nat, NEW k \in Nat, Below(toc, n), n <= k
  PROVE  Below(toc, k)
BY DEF Below

LEMMA BelowRetain ==
  ASSUME NEW a \in Seq(Nat), NEW c \in Seq(Nat), NEW n \in Nat, Below(a, n), Below(c, n)
  PROVE  Below(Retain(a, c), n)
<1> DEFINE r == Retain(a, c)
<1>1. \A i \in 1..Len(r) : \/ \E j \in 1..Len(a) : r[i] = a[j]
                           \/ \E j \in 1..Len(c) : r[i] = c[j]
  BY RetainType
<1> HIDE DEF r
<1>2. Below(r, n)
  BY <1>1 DEF Below
<1> QED BY <1>2 DEF r

LEMMA AllSpecConcat ==
  ASSUME NEW sp, NEW m, NEW x \in Seq(Page), NEW y \in Seq(Page),
         AllSpec(sp, m, x), AllSpec(sp, m, y)
  PROVE  AllSpec(sp, m, x \o y)
<1> SUFFICES ASSUME NEW i \in 1..Len(x \o y)
             PROVE  (x \o y)[i].spec = sp /\ (x \o y)[i].mode = m
  BY DEF AllSpec
<1>1. /\ Len(x) \in Nat /\ Len(y) \in Nat /\ i \in 1 .. Len(x) + Len(y)
      /\ (x \o y)[i] = IF i <= Len(x) THEN x[i] ELSE y[i - Len(x)]
  BY ConcatProperties
<1>2. CASE i <= Len(x)
  BY <1>1, <1>2 DEF AllSpec
<1>3. CASE i > Len(x)
  <2>1. i - Len(x) \in 1..Len(y)
    BY <1>1, <1>3
  <2> QED BY <1>1, <1>3, <2>1 DEF AllSpec
<1> QED BY <1>1, <1>2, <1>3

LEMMA AllSpecRecords ==
  ASSUME NEW b \in Books, NEW s \in Spines, NEW sp \in Specs, NEW m \in Modes, NEW k \in Nat
  PROVE  AllSpec(sp, m, Records(b, s, sp, m, k))
<1> DEFINE r == Records(b, s, sp, m, k)
<1>1. Len(r) = k /\ \A i \in 1..k : r[i] = [book |-> b, spine |-> s, no |-> i, spec |-> sp, mode |-> m]
  BY RecordsType
<1> HIDE DEF r
<1>2. AllSpec(sp, m, r)
  BY <1>1 DEF AllSpec
<1> QED BY <1>2 DEF r

LEMMA TilesNoFile == out' = NoFile => OutSound'
BY DEF NoFile, OutSound

LEMMA FileInvInit == Init => FileInv
<1> SUFFICES ASSUME Init PROVE FileInv
  OBVIOUS
<1>1. SerialSound
  BY DEF Init, SerialSound, Healthy, NoExport
<1>2. AsmSound /\ PlanSound
  BY EmptyFacts DEF Init, AsmSound, PlanSound, NoPlan
<1>3. OutSound
  BY DEF Init, OutSound, NoFile
<1> QED BY <1>1, <1>2, <1>3 DEF FileInv

\* Frames.
LEMMA SerialSoundFrame == SerialSound /\ UNCHANGED serial => SerialSound'
BY DEF SerialSound, serial, Healthy, AllSpec, Below, WholeSpines, Follows, Count
LEMMA AsmSoundFrame == AsmSound /\ UNCHANGED asm => AsmSound'
BY DEF AsmSound, WholeSpines, Below, Follows, Count
LEMMA PlanSoundFrame == PlanSound /\ UNCHANGED plan => PlanSound'
BY DEF PlanSound, Below, Tiles
LEMMA OutSoundFrame == OutSound /\ UNCHANGED out => OutSound'
BY DEF OutSound, WholeSpines, Tiles, Follows, Count

\* No healthy export, nothing to say about it.
LEMMA UnhealthySound ==
  ASSUME SerialSound, ~Healthy(export'), export'.active => export.active
  PROVE  SerialSound'
BY DEF SerialSound, Healthy

LEMMA ClosedSound ==
  ASSUME TypeOK, CloseTransactions
  PROVE  SerialSound' /\ AsmSound' /\ PlanSound' /\ OutSound'
<1>1. export'.active = FALSE
  BY DEF CloseTransactions, NoExport
<1>2. asm'.active = FALSE /\ asm'.pages = << >>
  BY DEF CloseTransactions, AsmState, TypeOK, PoolType
<1>3. plan'.active = FALSE /\ plan'.prefix = {}
  BY DEF CloseTransactions, NoPlan
<1>4. SerialSound'
  BY <1>1 DEF SerialSound, Healthy
<1>5. AsmSound' /\ PlanSound'
  BY <1>2, <1>3, EmptyFacts DEF AsmSound, PlanSound
<1> QED BY <1>4, <1>5, TilesNoFile DEF CloseTransactions

-----------------------------------------------------------------------------
(* Steps. *)

LEMMA FileSettingsStep ==
  ASSUME TypeOK, FileInv,
         \/ \E l \in Layouts : SetLayout(l)
         \/ LoadFace \/ ClearFace
         \/ \E p \in Profiles : SetDeviceProfile(p)
         \/ \E m \in Modes : ExportSetMode(m)
         \/ \E b \in Books \cup {NoBook} : Replace(b)
         \/ RenderPage \/ ComposeRgba \/ \E s \in Spines : BuildSpine(s)
         \/ SpineRelease \/ \E s \in Spines : EncodeSpine(s)
  PROVE  FileInv'
<1> SerialSound /\ AsmSound /\ PlanSound /\ OutSound
  BY DEF FileInv
<1>1. ASSUME UNCHANGED <<asm, plan, out>>, SerialSound' PROVE FileInv'
  BY <1>1, AsmSoundFrame, PlanSoundFrame, OutSoundFrame DEF FileInv
<1>2. ASSUME UNCHANGED <<serial, asm, plan, out>> PROVE FileInv'
  BY <1>1, <1>2, SerialSoundFrame
<1>3. ASSUME NEW l \in Layouts, SetLayout(l) PROVE FileInv'
  BY <1>2, <1>3 DEF SetLayout
<1>4. CASE LoadFace
  BY <1>2, <1>4 DEF LoadFace
<1>5. CASE ClearFace
  BY <1>2, <1>5 DEF ClearFace
<1>6. ASSUME NEW p \in Profiles, SetDeviceProfile(p) PROVE FileInv'
  <2>1. ~Healthy(export') /\ UNCHANGED export
    BY <1>6 DEF SetDeviceProfile, InTransaction, Healthy
  <2> QED BY <1>1, <1>6, <2>1, UnhealthySound DEF SetDeviceProfile
<1>7. ASSUME NEW m \in Modes, ExportSetMode(m) PROVE FileInv'
  <2>1. ~Healthy(export') /\ UNCHANGED export
    BY <1>7 DEF ExportSetMode, InTransaction, Healthy
  <2> QED BY <1>1, <1>7, <2>1, UnhealthySound DEF ExportSetMode
<1>8. ASSUME NEW b \in Books \cup {NoBook}, Replace(b) PROVE FileInv'
  BY <1>8, ClosedSound DEF Replace, FileInv
<1>9. CASE RenderPage
  BY <1>2, <1>9 DEF RenderPage
<1>10. CASE ComposeRgba
  BY <1>2, <1>10 DEF ComposeRgba
<1>11. ASSUME NEW s \in Spines, BuildSpine(s) PROVE FileInv'
  BY <1>2, <1>11 DEF BuildSpine
<1>12. CASE SpineRelease
  BY <1>2, <1>12 DEF SpineRelease
<1>13. ASSUME NEW s \in Spines, EncodeSpine(s) PROVE FileInv'
  BY <1>2, <1>13 DEF EncodeSpine
<1> QED BY <1>3, <1>4, <1>5, <1>6, <1>7, <1>8, <1>9, <1>10, <1>11, <1>12, <1>13

\* The serial export appends whole spines of its snapshot, or is poisoned.
LEMMA FileExportSpineStep ==
  ASSUME TypeOK, FileInv, NEW s \in Spines, NEW k \in 0..MaxPages, ExportSpine(s, k)
  PROVE  FileInv'
<1> SerialSound /\ AsmSound /\ PlanSound /\ OutSound
  BY DEF FileInv
<1> DEFINE n == Count(book, s, snapshot.spec)
           recs == Records(book, s, snapshot.spec, snapshot.mode, k)
           toc == SpineToc(book, s, export.start, n)
<1>0. /\ writer \in WriterState /\ export \in ExportState /\ export.start \in Nat
      /\ export.toc \in Seq(Nat) /\ writer.pages \in Seq(Page) /\ totalPages \in Nat
  BY DEF TypeOK, SerialType, WriterState, ExportState
<1>1. book \in Books /\ snapshot.spec \in Specs /\ snapshot.mode \in Modes /\ k \in Nat
  BY EngineAssumption DEF ExportSpine, RequireSpine, TypeOK, SettingsType, SerialType
<1>2. /\ n \in Nat /\ recs \in Seq(Page) /\ Len(recs) = k
      /\ AllSpec(snapshot.spec, snapshot.mode, recs)
      /\ k = n => WholeSpines(recs)
  <2>1. n \in Nat
    BY <1>1, CountType
  <2>2. recs \in Seq(Page) /\ Len(recs) = k
    BY <1>1, RecordsType
  <2>3. AllSpec(snapshot.spec, snapshot.mode, recs)
    BY <1>1, AllSpecRecords
  <2>4. k = n => WholeSpines(recs)
    BY <1>1, WholeRecords
  <2> QED BY <2>1, <2>2, <2>3, <2>4
<1>3. /\ Healthy(export)
      /\ writer' = [writer EXCEPT !.mode = snapshot.mode, !.pages = @ \o recs]
      /\ totalPages' = totalPages + k
      /\ \/ /\ k = n /\ UNCHANGED out
            /\ export' = IF n = 0 THEN export ELSE
                 [export EXCEPT !.start = @ + n, !.toc = Retain(@, toc)]
         \/ FailExport
      /\ UNCHANGED <<snapshot, asm, plan>>
  BY DEF ExportSpine
<1>4. toc \in Seq(Nat) /\ (n > 0 => Below(toc, export.start + n))
  BY <1>0, <1>1, <1>2, SpineTocType DEF Below
<1> HIDE DEF n, recs, toc
<1>5. writer'.pages = writer.pages \o recs
  BY <1>0, <1>3 DEF WriterState
<1>6. /\ totalPages = Len(writer.pages) /\ export.start = totalPages
      /\ WholeSpines(writer.pages)
      /\ AllSpec(snapshot.spec, snapshot.mode, writer.pages)
      /\ Below(export.toc, totalPages)
  BY <1>3 DEF SerialSound
<1>7. Len(writer'.pages) = totalPages + k
  <2>1. Len(writer.pages \o recs) = Len(writer.pages) + Len(recs)
    BY <1>0, <1>2, ConcatProperties
  <2> QED BY <1>2, <1>5, <1>6, <2>1
<1>8. CASE FailExport
  <2>1. export'.failed = TRUE /\ export'.active = export.active
    BY <1>0, <1>8 DEF FailExport, ExportState
  <2>2. SerialSound'
    BY <2>1, UnhealthySound DEF Healthy
  <2>3. OutSound'
    BY <1>8, TilesNoFile DEF FailExport
  <2> QED BY <1>3, <2>2, <2>3, AsmSoundFrame, PlanSoundFrame DEF FileInv
<1>9. CASE k = n /\ UNCHANGED out /\ export' = IF n = 0 THEN export ELSE
             [export EXCEPT !.start = @ + n, !.toc = Retain(@, toc)]
  <2>1. export'.start = export.start + n /\ export'.active = export.active
    <3>1. CASE n = 0
      BY <1>0, <1>9, <3>1
    <3>2. CASE n # 0
      BY <1>0, <1>9, <3>2 DEF ExportState
    <3> QED BY <3>1, <3>2
  <2>2. Below(export'.toc, export.start + n)
    <3>1. CASE n = 0
      BY <1>0, <1>6, <1>9, <3>1
    <3>2. CASE n # 0
      <4>1. n > 0
        BY <1>2, <3>2
      <4>2. Below(export.toc, export.start + n)
        BY <1>0, <1>2, <1>6, BelowMonotonic
      <4>3. Below(Retain(export.toc, toc), export.start + n)
        BY <1>0, <1>2, <1>4, <4>1, <4>2, BelowRetain
      <4>4. export'.toc = Retain(export.toc, toc)
        BY <1>0, <1>9, <3>2 DEF ExportState
      <4> QED BY <4>3, <4>4
    <3> QED BY <3>1, <3>2
  <2>3. WholeSpines(writer.pages \o recs)
    BY <1>0, <1>2, <1>6, <1>9, WholeConcat
  <2>4. AllSpec(snapshot.spec, snapshot.mode, writer.pages \o recs)
    BY <1>0, <1>2, <1>6, AllSpecConcat
  <2>5. WholeSpines(writer'.pages) /\ AllSpec(snapshot'.spec, snapshot'.mode, writer'.pages)
    BY <1>3, <1>5, <2>3, <2>4
  <2>6. totalPages' = Len(writer'.pages) /\ export'.start = totalPages' /\ Below(export'.toc, totalPages')
    BY <1>3, <1>6, <1>7, <1>9, <2>1, <2>2
  <2>7. SerialSound'
    <3>1. ("serial" \notin Calls => ~export.active)
      BY DEF SerialSound
    <3> QED BY <2>1, <2>5, <2>6, <3>1 DEF SerialSound, WholeSpines, Follows, Count, AllSpec
  <2> QED BY <1>3, <1>9, <2>7, AsmSoundFrame, PlanSoundFrame, OutSoundFrame DEF FileInv
<1> QED BY <1>3, <1>8, <1>9

LEMMA FileSerialStep ==
  ASSUME TypeOK, FileInv, ("serial" \in Calls /\ Serial) \/ ExportAbort
  PROVE  FileInv'
<1> SerialSound /\ AsmSound /\ PlanSound /\ OutSound
  BY DEF FileInv
<1>0. /\ writer \in WriterState /\ export \in ExportState /\ out \in FileState
      /\ export.toc \in Seq(Nat) /\ totalPages \in Nat
  BY DEF TypeOK, SerialType, OutputType, ExportState
<1>1. ASSUME UNCHANGED <<asm, plan>>, SerialSound', OutSound' PROVE FileInv'
  BY <1>1, AsmSoundFrame, PlanSoundFrame DEF FileInv
<1>2. ASSUME FailExport PROVE SerialSound' /\ OutSound'
  <2>1. export'.failed = TRUE /\ export'.active = export.active
    BY <1>0, <1>2 DEF FailExport, ExportState
  <2> QED BY <1>2, <2>1, UnhealthySound, TilesNoFile DEF FailExport, Healthy
<1>3. ASSUME ExportBegin, "serial" \in Calls PROVE FileInv'
  <2>1. /\ writer'.pages = << >> /\ totalPages' = 0 /\ out' = NoFile
        /\ export'.start = 0 /\ export'.toc = << >>
    BY <1>0, <1>3 DEF ExportBegin, NoExport, DropOutput, WriterState
  <2>2. SerialSound'
    BY <1>3, <2>1, EmptyFacts DEF SerialSound
  <2> QED BY <1>1, <1>3, <2>1, <2>2, TilesNoFile DEF ExportBegin
<1>4. ASSUME NEW s \in Spines, ExportSpineRefused(s) PROVE FileInv'
  BY <1>1, <1>2, <1>4 DEF ExportSpineRefused
<1>5. ASSUME NEW s \in Spines, NEW k \in 0..MaxPages, ExportSpine(s, k) PROVE FileInv'
  BY <1>5, FileExportSpineStep
<1>6. CASE ExportFinish
  <2> DEFINE chs == Chapters(export.toc, totalPages)
  <2>1. CASE FailExport
    BY <1>1, <1>2, <1>6, <2>1 DEF ExportFinish
  <2>2. CASE /\ totalPages > 0
             /\ out' = [ready |-> TRUE, pages |-> writer.pages, meta |-> writer.meta,
                        chapters |-> chs, wrapped |-> FALSE]
             /\ export' = [export EXCEPT !.active = FALSE]
    <3>1. /\ totalPages = Len(writer.pages) /\ WholeSpines(writer.pages)
          /\ Below(export.toc, totalPages)
      BY <1>6 DEF ExportFinish, SerialSound
    <3>2. Tiles(chs, totalPages)
      BY <1>0, <3>1, ChaptersTile DEF Below
    <3> HIDE DEF chs
    <3>3. writer.pages # << >>
      BY <2>2, <3>1
    <3>4. out'.pages = writer.pages /\ out'.chapters = chs
      BY <2>2
    <3>5. OutSound'
      <4>1. /\ WholeSpines(out'.pages) /\ out'.pages # << >>
            /\ Tiles(out'.chapters, Len(out'.pages))
        BY <3>1, <3>2, <3>3, <3>4
      <4> QED BY <4>1 DEF OutSound, WholeSpines, Follows, Count, Tiles
    <3>6. export'.active = FALSE
      BY <1>0, <2>2 DEF ExportState
    <3>7. SerialSound'
      BY <3>6 DEF SerialSound, Healthy
    <3> QED BY <1>1, <1>6, <3>5, <3>7 DEF ExportFinish
  <2> QED BY <1>6, <2>1, <2>2 DEF ExportFinish
<1>7. CASE XtczWrap
  <2>1. out'.pages = out.pages /\ out'.chapters = out.chapters /\ out'.ready = out.ready
    BY <1>0, <1>7 DEF XtczWrap, FileState
  <2>2. OutSound'
    BY <2>1 DEF OutSound, WholeSpines, Follows, Count, Tiles
  <2> QED BY <1>1, <1>7, <2>2, SerialSoundFrame DEF XtczWrap
<1>8. CASE XtchRelease
  BY <1>1, <1>8, SerialSoundFrame, TilesNoFile DEF XtchRelease
<1>9. CASE ExportAbort
  BY <1>9, ClosedSound DEF ExportAbort, FileInv
<1> QED BY <1>3, <1>4, <1>5, <1>6, <1>7, <1>8, <1>9 DEF Serial

LEMMA FileAssembleStep ==
  ASSUME TypeOK, FileInv, "pool" \in Calls, Assemble
  PROVE  FileInv'
<1> SerialSound /\ AsmSound /\ PlanSound /\ OutSound
  BY DEF FileInv
<1>0. asm \in AsmState /\ asm.pages \in Seq(Page) /\ asm.toc \in Seq(Nat) /\ Len(asm.pages) \in Nat
  BY DEF TypeOK, PoolType, AsmState
\* The engine of a pool member never runs the serial export, so its counters are free.
<1>1. ASSUME UNCHANGED export PROVE SerialSound'
  <2>1. "serial" \notin Calls
    BY CallerAssumption
  <2>2. ~Healthy(export')
    BY <1>1, <2>1 DEF SerialSound, Healthy
  <2> QED BY <1>1, <2>2, UnhealthySound
<1>2. ASSUME UNCHANGED <<export, plan>>, AsmSound', OutSound' PROVE FileInv'
  BY <1>1, <1>2, PlanSoundFrame DEF FileInv
<1>3. ASSUME FailAssembly PROVE AsmSound' /\ OutSound'
  <2>1. asm'.active = FALSE /\ asm'.pages = << >>
    BY <1>0, <1>3 DEF FailAssembly, AsmState
  <2>2. AsmSound'
    BY <2>1, EmptyFacts DEF AsmSound
  <2> QED BY <1>3, <2>2, TilesNoFile DEF FailAssembly
<1>4. ASSUME NEW m \in Modes, AssembleBegin(m) PROVE FileInv'
  <2>1. asm'.pages = << >> /\ asm'.toc = << >>
    BY <1>4 DEF AssembleBegin
  <2>2. AsmSound'
    BY <2>1, EmptyFacts DEF AsmSound
  <2> QED BY <1>2, <1>4, <2>2, TilesNoFile DEF AssembleBegin, DropOutput, serial
<1>5. ASSUME NEW recs \in Transferred, AssembleAddSpine(recs) PROVE FileInv'
  <2>1. CASE FailAssembly
    BY <1>2, <1>3, <1>5, <2>1 DEF AssembleAddSpine, serial
  <2>2. CASE asm.active /\ asm' = [asm EXCEPT !.pages = @ \o recs] /\ out' = out
    <3>1. recs \in Seq(Page) /\ Len(recs) \in Nat /\ WholeSpines(recs)
      <4>1. recs \in Seq(Page)
        BY TransferredType
      <4>2. PICK t \in Spines, sp \in Specs, m \in Modes :
              book \in Books /\ recs = Records(book, t, sp, m, Count(book, t, sp))
        BY TransferredType
      <4>3. WholeSpines(Records(book, t, sp, m, Count(book, t, sp)))
        BY <4>2, WholeRecords
      <4> QED BY <4>1, <4>2, <4>3
    <3>2. asm'.pages = asm.pages \o recs /\ asm'.toc = asm.toc
      BY <1>0, <2>2 DEF AsmState
    <3>3. WholeSpines(asm.pages \o recs)
      BY <1>0, <3>1, WholeConcat DEF AsmSound
    <3>4. Len(asm.pages \o recs) = Len(asm.pages) + Len(recs)
      BY <1>0, <3>1, ConcatProperties
    <3>5. Below(asm.toc, Len(asm.pages \o recs))
      <4>1. Below(asm.toc, Len(asm.pages))
        BY <2>2 DEF AsmSound
      <4>2. /\ Len(asm.pages \o recs) \in Nat
            /\ Len(asm.pages) <= Len(asm.pages \o recs)
        BY <1>0, <3>1, <3>4
      <4> QED BY <1>0, <4>1, <4>2, BelowMonotonic
    <3>6. WholeSpines(asm'.pages) /\ Below(asm'.toc, Len(asm'.pages))
      BY <3>2, <3>3, <3>5
    <3>7. AsmSound'
      BY <3>6 DEF AsmSound, WholeSpines, Below, Follows, Count
    <3> QED BY <1>2, <1>5, <2>2, <3>7, OutSoundFrame DEF AssembleAddSpine, serial
  <2> QED BY <1>5, <2>1, <2>2 DEF AssembleAddSpine, Healthy
<1>6. ASSUME NEW p \in -1..MaxPages, AssembleAddToc(p) PROVE FileInv'
  <2>1. CASE FailAssembly
    BY <1>2, <1>3, <1>6, <2>1 DEF AssembleAddToc, serial
  <2>2. CASE /\ asm.active /\ p \in 0 .. Len(asm.pages) - 1 /\ out' = out
             /\ asm' = [asm EXCEPT !.toc = Retain(@, <<p>>)]
    <3>1. <<p>> \in Seq(Nat) /\ Below(<<p>>, Len(asm.pages))
      BY <1>0, <2>2 DEF Below
    <3>2. Below(Retain(asm.toc, <<p>>), Len(asm.pages))
      BY <1>0, <2>2, <3>1, BelowRetain DEF AsmSound
    <3>3. asm'.pages = asm.pages /\ asm'.toc = Retain(asm.toc, <<p>>)
      BY <1>0, <2>2 DEF AsmState
    <3>4. WholeSpines(asm'.pages) /\ Below(asm'.toc, Len(asm'.pages))
      BY <3>2, <3>3 DEF AsmSound
    <3>5. AsmSound'
      BY <3>4 DEF AsmSound, WholeSpines, Below, Follows, Count
    <3> QED BY <1>2, <1>6, <2>2, <3>5, OutSoundFrame DEF AssembleAddToc, serial
  <2> QED BY <1>6, <2>1, <2>2 DEF AssembleAddToc, Healthy
<1>7. CASE AssembleFinish
  <2> DEFINE chs == Chapters(asm.toc, Len(asm.pages))
  <2>1. CASE FailAssembly
    BY <1>2, <1>3, <1>7, <2>1 DEF AssembleFinish
  <2>2. CASE /\ asm.pages # << >>
             /\ out' = [ready |-> TRUE, pages |-> asm.pages, meta |-> asm.meta,
                        chapters |-> chs, wrapped |-> FALSE]
             /\ asm' = [asm EXCEPT !.active = FALSE, !.pages = << >>]
    <3>1. WholeSpines(asm.pages) /\ Below(asm.toc, Len(asm.pages))
      BY <1>7 DEF AssembleFinish, AsmSound, Healthy
    <3>2. Tiles(chs, Len(asm.pages))
      BY <1>0, <3>1, ChaptersTile DEF Below
    <3> HIDE DEF chs
    <3>3. out'.pages = asm.pages /\ out'.chapters = chs
      BY <2>2
    <3>4. /\ WholeSpines(out'.pages) /\ out'.pages # << >>
          /\ Tiles(out'.chapters, Len(out'.pages))
      BY <2>2, <3>1, <3>2, <3>3
    <3>5. OutSound'
      BY <3>4 DEF OutSound, WholeSpines, Follows, Count, Tiles
    <3>6. asm'.active = FALSE /\ asm'.pages = << >>
      BY <1>0, <2>2 DEF AsmState
    <3>7. AsmSound'
      BY <3>6, EmptyFacts DEF AsmSound
    <3> QED BY <1>2, <1>7, <3>5, <3>7 DEF AssembleFinish
  <2> QED BY <1>7, <2>1, <2>2 DEF AssembleFinish
<1> QED BY <1>4, <1>5, <1>6, <1>7 DEF Assemble

LEMMA FilePlanStep ==
  ASSUME TypeOK, FileInv, Plan
  PROVE  FileInv'
<1> SerialSound /\ AsmSound /\ PlanSound /\ OutSound
  BY DEF FileInv
<1>0. plan \in PlanState /\ plan.pages \in Nat /\ plan.toc \in Seq(Nat)
  BY EngineAssumption DEF TypeOK, PoolType, PlanState
<1>1. ASSUME UNCHANGED <<serial, asm, out>>, PlanSound' PROVE FileInv'
  BY <1>1, SerialSoundFrame, AsmSoundFrame, OutSoundFrame DEF FileInv
<1>2. FailPlan => PlanSound'
  BY DEF FailPlan, NoPlan, PlanSound
<1>3. CASE PlanBegin
  <2>1. plan'.toc = << >> /\ plan'.prefix = {}
    BY <1>3 DEF PlanBegin, NoPlan
  <2>2. PlanSound'
    BY <2>1, EmptyFacts DEF PlanSound
  <2> QED BY <1>1, <1>3, <2>2 DEF PlanBegin
<1>4. ASSUME NEW n \in 0..MaxPlanPages, NEW lengthsMatch \in BOOLEAN, PlanAddSpine(n, lengthsMatch)
      PROVE  FileInv'
  <2>1. CASE FailPlan
    BY <1>1, <1>2, <1>4, <2>1 DEF PlanAddSpine
  <2>2. CASE plan.active /\ plan' = [plan EXCEPT !.pages = @ + n]
    <3>1. plan'.pages = plan.pages + n /\ plan'.toc = plan.toc /\ plan'.prefix = plan.prefix
      BY <1>0, <2>2 DEF PlanState
    <3>2. n \in Nat /\ plan.pages + n \in Nat /\ plan.pages <= plan.pages + n
      BY <1>0, EngineAssumption
    <3>3. Below(plan.toc, plan.pages + n)
      BY <1>0, <2>2, <3>2, BelowMonotonic DEF PlanSound
    <3>4. PlanSound'
      BY <3>1, <3>3 DEF PlanSound, Below, Tiles
    <3> QED BY <1>1, <1>4, <3>4 DEF PlanAddSpine
  <2> QED BY <1>4, <2>1, <2>2 DEF PlanAddSpine, Healthy
<1>5. ASSUME NEW p \in -1..MaxPages, PlanAddToc(p) PROVE FileInv'
  <2>1. CASE FailPlan
    BY <1>1, <1>2, <1>5, <2>1 DEF PlanAddToc
  <2>2. CASE plan.active /\ p \in 0 .. plan.pages - 1 /\ plan' = [plan EXCEPT !.toc = Retain(@, <<p>>)]
    <3>1. <<p>> \in Seq(Nat) /\ Below(<<p>>, plan.pages)
      BY <1>0, <2>2 DEF Below
    <3>2. Below(Retain(plan.toc, <<p>>), plan.pages)
      BY <1>0, <2>2, <3>1, BelowRetain DEF PlanSound
    <3>3. /\ plan'.pages = plan.pages /\ plan'.toc = Retain(plan.toc, <<p>>)
          /\ plan'.prefix = plan.prefix
      BY <1>0, <2>2 DEF PlanState
    <3>4. PlanSound'
      BY <3>2, <3>3 DEF PlanSound, Below, Tiles
    <3> QED BY <1>1, <1>5, <3>4 DEF PlanAddToc
  <2> QED BY <1>5, <2>1, <2>2 DEF PlanAddToc, Healthy
<1>6. CASE PlanFinish
  <2> DEFINE chs == Chapters(plan.toc, plan.pages)
             pre == [pages |-> plan.pages, meta |-> writer.meta, chapters |-> chs]
  <2>1. \/ plan.active /\ plan' = [plan EXCEPT !.active = FALSE, !.prefix = {pre}]
        \/ FailPlan
        \/ ~Healthy(plan) /\ plan' = [plan EXCEPT !.prefix = {}]
    BY <1>6 DEF PlanFinish, Healthy
  <2>2. CASE plan.active /\ plan' = [plan EXCEPT !.active = FALSE, !.prefix = {pre}]
    <3>1. Tiles(chs, plan.pages)
      BY <1>0, <2>2, ChaptersTile DEF PlanSound, Below
    <3> HIDE DEF chs
    <3>2. plan'.active = FALSE /\ plan'.prefix = {pre}
      BY <1>0, <2>2 DEF PlanState
    <3>3. PlanSound'
      BY <3>1, <3>2 DEF PlanSound, Tiles
    <3> QED BY <1>1, <1>6, <3>3 DEF PlanFinish
  <2>3. CASE FailPlan
    BY <1>1, <1>2, <1>6, <2>3 DEF PlanFinish
  <2>4. CASE plan' = [plan EXCEPT !.prefix = {}]
    <3>1. /\ plan'.active = plan.active /\ plan'.toc = plan.toc /\ plan'.pages = plan.pages
          /\ plan'.prefix = {}
      BY <1>0, <2>4 DEF PlanState
    <3>2. PlanSound'
      BY <3>1 DEF PlanSound, Below
    <3> QED BY <1>1, <1>6, <3>2 DEF PlanFinish
  <2> QED BY <2>1, <2>2, <2>3, <2>4
<1> QED BY <1>3, <1>4, <1>5, <1>6 DEF Plan

LEMMA FileInvStep == TypeOK /\ FileInv /\ [Next]_vars => FileInv'
<1> SUFFICES ASSUME TypeOK, FileInv, [Next]_vars PROVE FileInv'
  OBVIOUS
<1>1. CASE Next
  BY <1>1, NextCases, FileSettingsStep, FileSerialStep, FileAssembleStep, FilePlanStep
<1>2. CASE UNCHANGED vars
  BY <1>2, SerialSoundFrame, AsmSoundFrame, PlanSoundFrame, OutSoundFrame DEF FileInv, vars
<1> QED BY <1>1, <1>2

LEMMA FileInvCorrect == Spec => [](TypeOK /\ FileInv)
BY TypeInit, TypeStep, FileInvInit, FileInvStep, PTL DEF Spec

-----------------------------------------------------------------------------
(* Theorems. *)

\* A container readable through ko_xtch_ptr() (wasm_api.cpp) holds every page of every spine it
\* mentions, whatever calls failed and were ignored on the way.
THEOREM FilesAreWhole == Spec => []NoPartialFile
<1>1. FileInv => NoPartialFile
  BY DEF FileInv, OutSound, NoPartialFile
<1> QED BY <1>1, FileInvCorrect, PTL

\* "Every page of one export uses one spec": ko_export_begin snapshots the settings, and nothing a
\* caller changes between two spines reaches the pages.
THEOREM ExportsUseOneSpec == Spec => []OneSpecPerExport
<1>1. FileInv => OneSpecPerExport
  BY DEF FileInv, SerialSound, AllSpec, OneSpecPerExport
<1> QED BY <1>1, FileInvCorrect, PTL

\* Chapters (xtch_chapters.h) of every finished file and planned prefix lie inside it, do not
\* overlap, and leave no page uncovered after the first chapter.
THEOREM ChapterTablesTile == Spec => []ChaptersTileTheFile
<1>1. FileInv => ChaptersTileTheFile
  BY DEF FileInv, OutSound, PlanSound, ChaptersTileTheFile
<1> QED BY <1>1, FileInvCorrect, PTL

-----------------------------------------------------------------------------
(* One format per file, and files that do not change under their reader.   *)
(* Both rest on the same fact: while a transaction can still succeed there *)
(* is no finished file, so finishing it never replaces one.                *)

OfFormat(m, p, pages) == \A i \in 1..Len(pages) : pages[i].mode = m /\ pages[i].spec.profile = p

AsmFormat ==
  /\ "pool" \notin Calls => ~asm.active
  /\ OfFormat(asm.mode, asm.profile, asm.pages)
NoFileYet == Healthy(export) \/ Healthy(asm) => ~out.ready
FormatInv == AsmFormat /\ NoFileYet /\ OneFormatPerFile

LEMMA OfFormatConcat ==
  ASSUME NEW m, NEW p, NEW x \in Seq(Page), NEW y \in Seq(Page),
         OfFormat(m, p, x), OfFormat(m, p, y)
  PROVE  OfFormat(m, p, x \o y)
<1> SUFFICES ASSUME NEW i \in 1..Len(x \o y)
             PROVE  (x \o y)[i].mode = m /\ (x \o y)[i].spec.profile = p
  BY DEF OfFormat
<1>1. /\ Len(x) \in Nat /\ Len(y) \in Nat /\ i \in 1 .. Len(x) + Len(y)
      /\ (x \o y)[i] = IF i <= Len(x) THEN x[i] ELSE y[i - Len(x)]
  BY ConcatProperties
<1>2. CASE i <= Len(x)
  BY <1>1, <1>2 DEF OfFormat
<1>3. CASE i > Len(x)
  <2>1. i - Len(x) \in 1..Len(y)
    BY <1>1, <1>3
  <2> QED BY <1>1, <1>3, <2>1 DEF OfFormat
<1> QED BY <1>1, <1>2, <1>3

LEMMA FormatInvInit == Init => FormatInv
BY DEF Init, FormatInv, AsmFormat, NoFileYet, OneFormatPerFile, OfFormat, Healthy, NoExport, NoFile

\* Frames.
LEMMA AsmFormatFrame == AsmFormat /\ UNCHANGED asm => AsmFormat'
BY DEF AsmFormat, OfFormat
LEMMA OneFormatFrame == OneFormatPerFile /\ UNCHANGED out => OneFormatPerFile'
BY DEF OneFormatPerFile

\* No file: one format, and nothing in the way of a transaction.
LEMMA NoFileFormat == out' = NoFile => OneFormatPerFile' /\ NoFileYet'
BY DEF NoFile, OneFormatPerFile, NoFileYet

\* A step that makes no file and revives no transaction.
LEMMA FormatQuiet ==
  ASSUME FormatInv, UNCHANGED asm,
         \/ UNCHANGED out /\ (Healthy(export') => Healthy(export))
         \/ out' = NoFile
  PROVE  FormatInv'
<1>1. AsmFormat'
  BY AsmFormatFrame DEF FormatInv
<1>2. OneFormatPerFile' /\ NoFileYet'
  <2>1. CASE UNCHANGED out /\ (Healthy(export') => Healthy(export))
    BY <2>1, OneFormatFrame DEF FormatInv, NoFileYet, Healthy
  <2> QED BY <2>1, NoFileFormat
<1> QED BY <1>1, <1>2 DEF FormatInv

LEMMA FormatClosed ==
  ASSUME TypeOK, CloseTransactions
  PROVE  FormatInv'
<1>1. asm'.active = FALSE /\ asm'.pages = << >>
  BY DEF CloseTransactions, AsmState, TypeOK, PoolType
<1>2. AsmFormat'
  BY <1>1 DEF AsmFormat, OfFormat
<1> QED BY <1>2, NoFileFormat DEF CloseTransactions, FormatInv

LEMMA FormatSettingsStep ==
  ASSUME TypeOK, FormatInv,
         \/ \E l \in Layouts : SetLayout(l)
         \/ LoadFace \/ ClearFace
         \/ \E p \in Profiles : SetDeviceProfile(p)
         \/ \E m \in Modes : ExportSetMode(m)
         \/ \E b \in Books \cup {NoBook} : Replace(b)
         \/ RenderPage \/ ComposeRgba \/ \E s \in Spines : BuildSpine(s)
         \/ SpineRelease \/ \E s \in Spines : EncodeSpine(s)
         \/ Plan
  PROVE  FormatInv'
<1>0. ASSUME UNCHANGED <<export, asm, out>> PROVE FormatInv'
  BY <1>0, FormatQuiet
<1>1. ASSUME NEW b \in Books \cup {NoBook}, Replace(b) PROVE FormatInv'
  BY <1>1, FormatClosed DEF Replace
<1>2. CASE Plan
  BY <1>0, <1>2 DEF Plan, PlanBegin, PlanFinish, PlanAddSpine, PlanAddToc, serial
<1>3. ASSUME NEW l \in Layouts, SetLayout(l) PROVE FormatInv'
  BY <1>0, <1>3 DEF SetLayout, serial
<1>4. CASE LoadFace \/ ClearFace
  BY <1>0, <1>4 DEF LoadFace, ClearFace, serial
<1>5. ASSUME NEW p \in Profiles, SetDeviceProfile(p) PROVE FormatInv'
  BY <1>0, <1>5 DEF SetDeviceProfile
<1>6. ASSUME NEW m \in Modes, ExportSetMode(m) PROVE FormatInv'
  BY <1>0, <1>6 DEF ExportSetMode
<1>7. CASE RenderPage \/ ComposeRgba
  BY <1>0, <1>7 DEF RenderPage, ComposeRgba, serial
<1>8. ASSUME NEW s \in Spines, BuildSpine(s) \/ EncodeSpine(s) PROVE FormatInv'
  BY <1>0, <1>8 DEF BuildSpine, EncodeSpine, serial
<1>9. CASE SpineRelease
  BY <1>0, <1>9 DEF SpineRelease, serial
<1> QED BY <1>1, <1>2, <1>3, <1>4, <1>5, <1>6, <1>7, <1>8, <1>9

LEMMA FormatSerialStep ==
  ASSUME TypeOK, FileInv, FormatInv, ("serial" \in Calls /\ Serial) \/ ExportAbort
  PROVE  FormatInv'
<1>0. export \in ExportState /\ out \in FileState /\ snapshot \in [spec : Specs, mode : Modes]
  BY DEF TypeOK, SerialType, OutputType
<1>1. CASE ExportBegin
  BY <1>1, FormatQuiet DEF ExportBegin, DropOutput
<1>2. CASE FailExport /\ UNCHANGED asm
  BY <1>2, FormatQuiet DEF FailExport
<1>3. ASSUME NEW s \in Spines, ExportSpineRefused(s) PROVE FormatInv'
  BY <1>2, <1>3 DEF ExportSpineRefused
<1>4. ASSUME NEW s \in Spines, NEW k \in 0..MaxPages, ExportSpine(s, k) PROVE FormatInv'
  <2>1. Healthy(export) /\ UNCHANGED asm /\ (UNCHANGED out \/ FailExport)
    BY <1>4 DEF ExportSpine
  <2> QED BY <1>2, <2>1, FormatQuiet
<1>5. CASE "serial" \in Calls /\ ExportFinish
  <2>1. CASE FailExport
    BY <1>2, <1>5, <2>1 DEF ExportFinish
  <2>2. CASE /\ out' = [ready |-> TRUE, pages |-> writer.pages, meta |-> writer.meta,
                        chapters |-> Chapters(export.toc, totalPages), wrapped |-> FALSE]
             /\ export' = [export EXCEPT !.active = FALSE]
    <3>1. AllSpec(snapshot.spec, snapshot.mode, writer.pages)
      BY <1>5 DEF ExportFinish, FileInv, SerialSound
    <3>2. out'.pages = writer.pages
      BY <2>2
    <3>3. OneFormatPerFile'
      BY <3>1, <3>2 DEF AllSpec, OneFormatPerFile
    <3>4. ~Healthy(export')
      BY <1>0, <2>2 DEF ExportState, Healthy
    <3>5. ~Healthy(asm') /\ AsmFormat'
      <4>1. "pool" \notin Calls /\ UNCHANGED asm
        BY <1>5, CallerAssumption DEF ExportFinish
      <4> QED BY <4>1, AsmFormatFrame DEF FormatInv, AsmFormat, Healthy
    <3> QED BY <3>3, <3>4, <3>5 DEF FormatInv, NoFileYet
  <2> QED BY <1>5, <2>1, <2>2 DEF ExportFinish
<1>6. CASE XtczWrap
  <2>1. out'.pages = out.pages /\ out'.ready = out.ready /\ UNCHANGED <<export, asm>>
    BY <1>0, <1>6 DEF XtczWrap, FileState, serial
  <2> QED BY <2>1 DEF FormatInv, AsmFormat, OfFormat, NoFileYet, OneFormatPerFile, Healthy
<1>7. CASE XtchRelease
  BY <1>7, FormatQuiet DEF XtchRelease
<1>8. CASE ExportAbort
  BY <1>8, FormatClosed DEF ExportAbort
<1> QED BY <1>1, <1>3, <1>4, <1>5, <1>6, <1>7, <1>8 DEF Serial

LEMMA FormatAssembleStep ==
  ASSUME TypeOK, FileInv, FormatInv, "pool" \in Calls, Assemble
  PROVE  FormatInv'
<1>0. /\ asm \in AsmState /\ asm.pages \in Seq(Page)
      /\ OfFormat(asm.mode, asm.profile, asm.pages)
  BY DEF TypeOK, PoolType, AsmState, FormatInv, AsmFormat
\* The engine of a pool member never runs the serial export.
<1>1. ASSUME UNCHANGED export PROVE ~Healthy(export) /\ ~Healthy(export')
  BY <1>1, CallerAssumption DEF FileInv, SerialSound, Healthy
<1>2. ASSUME FailAssembly PROVE FormatInv'
  <2>1. asm'.pages = << >>
    BY <1>0, <1>2 DEF FailAssembly, AsmState
  <2>2. AsmFormat'
    BY <2>1 DEF AsmFormat, OfFormat
  <2> QED BY <1>2, <2>2, NoFileFormat DEF FailAssembly, FormatInv
<1>3. ASSUME NEW m \in Modes, AssembleBegin(m) PROVE FormatInv'
  <2>1. asm'.pages = << >> /\ out' = NoFile
    BY <1>3 DEF AssembleBegin, DropOutput
  <2>2. AsmFormat'
    BY <2>1 DEF AsmFormat, OfFormat
  <2> QED BY <2>1, <2>2, NoFileFormat DEF FormatInv
<1>4. ASSUME Healthy(asm), UNCHANGED <<export, out>>, AsmFormat' PROVE FormatInv'
  <2>1. OneFormatPerFile'
    BY <1>4, OneFormatFrame DEF FormatInv
  <2>2. NoFileYet'
    BY <1>4 DEF FormatInv, NoFileYet
  <2> QED BY <1>4, <2>1, <2>2 DEF FormatInv
<1>5. ASSUME NEW recs \in Transferred, AssembleAddSpine(recs) PROVE FormatInv'
  <2>1. CASE Healthy(asm) /\ Accepts(recs) /\ out' = out /\ asm' = [asm EXCEPT !.pages = @ \o recs]
    <3>1. recs \in Seq(Page) /\ OfFormat(asm.mode, asm.profile, recs)
      BY <2>1, TransferredType DEF Accepts, OfFormat
    <3>2. OfFormat(asm.mode, asm.profile, asm.pages \o recs)
      BY <1>0, <3>1, OfFormatConcat
    <3>3. asm'.pages = asm.pages \o recs /\ asm'.mode = asm.mode /\ asm'.profile = asm.profile
      BY <1>0, <2>1 DEF AsmState
    <3>4. AsmFormat'
      BY <3>2, <3>3 DEF AsmFormat, OfFormat
    <3> QED BY <1>4, <1>5, <2>1, <3>4 DEF AssembleAddSpine, serial
  <2> QED BY <1>2, <1>5, <2>1 DEF AssembleAddSpine
<1>6. ASSUME NEW p \in -1..MaxPages, AssembleAddToc(p) PROVE FormatInv'
  <2>1. CASE Healthy(asm) /\ out' = out /\ asm' = [asm EXCEPT !.toc = Retain(@, <<p>>)]
    <3>1. asm'.pages = asm.pages /\ asm'.mode = asm.mode /\ asm'.profile = asm.profile
      BY <1>0, <2>1 DEF AsmState
    <3>2. AsmFormat'
      BY <1>0, <3>1 DEF AsmFormat, OfFormat
    <3> QED BY <1>4, <1>6, <2>1, <3>2 DEF AssembleAddToc, serial
  <2> QED BY <1>2, <1>6, <2>1 DEF AssembleAddToc
<1>7. CASE AssembleFinish
  <2>1. CASE /\ out' = [ready |-> TRUE, pages |-> asm.pages, meta |-> asm.meta,
                        chapters |-> Chapters(asm.toc, Len(asm.pages)), wrapped |-> FALSE]
             /\ asm' = [asm EXCEPT !.active = FALSE, !.pages = << >>]
    <3>1. asm'.active = FALSE /\ asm'.pages = << >> /\ out'.pages = asm.pages
      BY <1>0, <2>1 DEF AsmState
    <3>2. OneFormatPerFile'
      BY <1>0, <3>1 DEF OfFormat, OneFormatPerFile
    <3>3. AsmFormat' /\ ~Healthy(asm')
      BY <3>1 DEF AsmFormat, OfFormat, Healthy
    <3> QED BY <1>1, <1>7, <3>2, <3>3 DEF AssembleFinish, FormatInv, NoFileYet
  <2> QED BY <1>2, <1>7, <2>1 DEF AssembleFinish
<1> QED BY <1>3, <1>5, <1>6, <1>7 DEF Assemble

LEMMA FormatInvStep == TypeOK /\ FileInv /\ FormatInv /\ [Next]_vars => FormatInv'
<1> SUFFICES ASSUME TypeOK, FileInv, FormatInv, [Next]_vars PROVE FormatInv'
  OBVIOUS
<1>1. CASE Next
  BY <1>1, NextCases, FormatSettingsStep, FormatSerialStep, FormatAssembleStep
<1>2. CASE UNCHANGED vars
  BY <1>2, FormatQuiet DEF vars, serial
<1> QED BY <1>1, <1>2

LEMMA FormatInvCorrect == Spec => [](TypeOK /\ FileInv /\ FormatInv)
BY TypeInit, TypeStep, FileInvInit, FileInvStep, FormatInvInit, FormatInvStep, PTL DEF Spec

\* The finished file is the same one, wrapped or not, or it is gone.
SameFileOrGone == out.ready /\ out'.ready => out' \in {out, [out EXCEPT !.wrapped = TRUE]}

LEMMA FileStableStep == TypeOK /\ FileInv /\ FormatInv /\ [Next]_vars => SameFileOrGone
<1> SUFFICES ASSUME TypeOK, FileInv, FormatInv, [Next]_vars, out.ready, out'.ready
             PROVE  out' \in {out, [out EXCEPT !.wrapped = TRUE]}
  BY DEF SameFileOrGone
<1>1. out' # NoFile
  BY DEF NoFile
<1>2. ~Healthy(export) /\ ~Healthy(asm)
  BY DEF FormatInv, NoFileYet
<1>3. CASE ("serial" \in Calls /\ Serial) \/ ExportAbort
  BY <1>1, <1>2, <1>3 DEF Serial, ExportAbort, CloseTransactions, ExportBegin, DropOutput, ExportFinish,
     XtczWrap, XtchRelease, ExportSpineRefused, FailExport, ExportSpine
<1>4. CASE Assemble
  BY <1>1, <1>2, <1>4 DEF Assemble, AssembleFinish, AssembleBegin, DropOutput, AssembleAddSpine,
     AssembleAddToc, FailAssembly
<1>5. CASE Plan
  BY <1>5 DEF Plan, PlanBegin, PlanFinish, PlanAddSpine, PlanAddToc
<1>6. ASSUME NEW b, Replace(b) PROVE FALSE
  BY <1>1, <1>6 DEF Replace, CloseTransactions
<1>7. CASE \/ \E l \in Layouts : SetLayout(l)
           \/ LoadFace \/ ClearFace
           \/ \E p \in Profiles : SetDeviceProfile(p)
           \/ \E m \in Modes : ExportSetMode(m)
  BY <1>7 DEF SetLayout, LoadFace, ClearFace, SetDeviceProfile, ExportSetMode
<1>8. CASE \/ RenderPage \/ ComposeRgba \/ \E s \in Spines : BuildSpine(s)
           \/ SpineRelease \/ \E s \in Spines : EncodeSpine(s)
  BY <1>8 DEF RenderPage, ComposeRgba, BuildSpine, SpineRelease, EncodeSpine
<1>9. CASE UNCHANGED vars
  BY <1>9 DEF vars
<1> QED BY <1>3, <1>4, <1>5, <1>6, <1>7, <1>8, <1>9, NextCases

\* A container holds pages of one mode and of one device profile (addRawPage checks every record of an
\* assembly; a serial export renders them all under its snapshot).
THEOREM FilesHaveOneFormat == Spec => []OneFormatPerFile
<1>1. FormatInv => OneFormatPerFile
  BY DEF FormatInv
<1> QED BY <1>1, FormatInvCorrect, PTL

\* The bytes behind ko_xtch_ptr() are never exchanged while they are readable: a new transaction drops
\* them when it begins, and no call but ko_xtcz_wrap touches them before.
THEOREM FilesAreStable == Spec => FileIsStable
<1>1. TypeOK /\ FileInv /\ FormatInv /\ [Next]_vars =>
        [out.ready /\ out'.ready => out' \in {out, [out EXCEPT !.wrapped = TRUE]}]_out
  BY FileStableStep DEF SameFileOrGone
<1> QED BY <1>1, FormatInvCorrect, PTL DEF Spec, FileIsStable

=============================================================================
