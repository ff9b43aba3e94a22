------------------------------ MODULE SpinePool ------------------------------
(***************************************************************************)
(* The export pool of the page (src/web/app.js): exportAndDownload,        *)
(* ensurePool, pooledExportBook and the calls they make to pool engines,   *)
(* each engine a Web Worker running ko.worker.js.                          *)
(*                                                                         *)
(* The page is one thread: a handler runs from one await to the next       *)
(* without interruption, so an action is one such stretch, started by a    *)
(* click, a reply, a timeout or a worker error.  Between two stretches     *)
(* anything else on the page may run: a font conversion that finishes, a   *)
(* book dropped on the page, another export.                               *)
(***************************************************************************)
EXTENDS Integers, Sequences

CONSTANTS
  Attempts,     \* presses of the download button, and runs of the __pool.run hook
  Books,        \* 1..n: the books in the order they are opened (bookEpoch)
  SpineCount,   \* SpineCount[b]: number of spines of book b
  MinSpines,    \* fewest spines worth a pool; 4 in the code
  PoolSize,     \* engines of a full pool: the smaller of 4 and the cores less one
  MaxFace,      \* bound on the number of font conversions
  Overlapping   \* an attempt may begin while another is under way; if not, the hook is used too

ASSUME PoolAssumption ==
  /\ Books \subseteq Nat \ {0} /\ 1 \in Books
  /\ SpineCount \in [Books -> Nat \ {0}]
  /\ MinSpines \in Nat /\ PoolSize \in Nat \ {0} /\ MaxFace \in Nat
  /\ Overlapping \in BOOLEAN

VARIABLES
  book,       \* the open book, 0 when none: book and currentBookBlob
  bookEpoch,  \* bookEpoch
  opening,    \* a loadBook awaits the preview worker
  face,       \* customFontAsset.generation, 0 without a custom face
  exporting,  \* the export lock
  pool,       \* poolEngines and poolKey
  engine,     \* the workers, terminated or not
  export,     \* the attempts, with the local variables of their handlers
  saved       \* the file each attempt produced

page == <<book, bookEpoch, opening, face>>
vars == <<page, exporting, pool, engine, export, saved>>

Engines == Attempts \X (1..PoolSize)     \* those an attempt may spawn
Spines == UNION {0 .. SpineCount[b] - 1 : b \in Books}

NoCall == [cmd |-> "none", spine |-> -1]
Load == [cmd |-> "load", spine |-> -1]
LoadFont == [cmd |-> "loadFont", spine |-> -1]
Stats == [cmd |-> "stats", spine |-> -1]
EncodeSpine(s) == [cmd |-> "encodeSpine", spine |-> s]
Assemble == [cmd |-> "assemble", spine |-> -1]   \* planPrefix or assembleSpines

NoKey == [book |-> 0, face |-> 0, size |-> 0]
NoPool == [engines |-> << >>, key |-> NoKey]
NoEngine == [alive |-> FALSE, book |-> 0, face |-> 0]
NoResult == [spine |-> -1, book |-> 0, face |-> 0]
NoResults == [s \in Spines |-> NoResult]
NoFile == [parts |-> << >>, title |-> 0]

Init ==
  /\ book = 1 /\ bookEpoch = 1 /\ opening = FALSE /\ face = 0
  /\ exporting = FALSE
  /\ pool = NoPool
  /\ engine = [e \in Engines |-> NoEngine]
  /\ export = [x \in Attempts |->
       [phase |-> "idle", hook |-> FALSE, custom |-> FALSE, key |-> [NoKey EXCEPT !.book = 1],
        members |-> << >>, call |-> << >>, next |-> 0, results |-> NoResults]]
  /\ saved = [x \in Attempts |-> NoFile]

(***************************************************************************)
(* Ends of engines and of attempts.                                        *)
(***************************************************************************)
UnderWay(x) == export[x].phase \in {"ping", "prepare", "build", "encode", "assemble"}
Members(x) == {export[x].members[i] : i \in 1..Len(export[x].members)}
PoolMembers == {pool.engines[i] : i \in 1..Len(pool.engines)}

\* Attempt x awaits an answer of engine e.
Awaits(x, e) ==
  \E i \in 1..Len(export[x].members) : export[x].members[i] = e /\ export[x].call[i] # NoCall

\* Encoding or assembling attempts whose pending call is rejected when engines D are terminated.
Rejected(D) ==
  {x \in Attempts : export[x].phase \in {"encode", "assemble"} /\ \E e \in D : Awaits(x, e)}

Terminate(D) == [e \in Engines |-> IF e \in D THEN NoEngine ELSE engine[e]]

\* An attempt that is over: its local variables are garbage.
Over(r, how) ==
  [r EXCEPT !.phase = how, !.members = << >>, !.call = << >>, !.next = 0, !.results = NoResults]

Ended(F, how, hit) ==
  [x \in Attempts |-> IF x \in F THEN Over(export[x], how)
                      ELSE IF x \in hit THEN Over(export[x], "failed") ELSE export[x]]

\* Mutated form: the lock stays.
Unlock_Never(F) == UNCHANGED exporting

\* setExportLocked(false), in the finally of every exportAndDownload that ends.
Unlock(F) == exporting' = (exporting /\ \A x \in F : export[x].hook)

\* Engines D are terminated, attempts F end as how, and killPool() runs.  Every attempt that awaits
\* one of the terminated engines fails in turn; its own killPool() finds no pool.
KillPool(D, F, how) ==
  LET gone == D \cup PoolMembers
      hit == Rejected(gone) \ F
  IN  /\ engine' = Terminate(gone)
      /\ pool' = NoPool
      /\ export' = Ended(F, how, hit)
      /\ Unlock(F \cup hit)

(***************************************************************************)
(* The beginning of an export.                                             *)
(***************************************************************************)
\* exportAndDownload up to the ping
Click(x) ==
  /\ export[x].phase = "idle"
  /\ book # 0 /\ ~exporting
  /\ Overlapping \/ \A y \in Attempts : ~UnderWay(y)
  /\ export' = [export EXCEPT ![x].phase = "ping"]
  /\ UNCHANGED <<page, exporting, pool, engine, saved>>

\* The ping is answered and the page takes the lock, without testing it again.
PingReply(x) ==
  /\ export[x].phase = "ping"
  /\ export' = [export EXCEPT ![x].phase = "prepare"]
  /\ exporting' = TRUE
  /\ UNCHANGED <<page, pool, engine, saved>>

\* The ping fails, or a warm result serves the export.
NoPoolNeeded(x) ==
  /\ export[x].phase = "ping"
  /\ export' = [export EXCEPT ![x].phase = "ended"]
  /\ UNCHANGED <<page, exporting, pool, engine, saved>>

Want == IF PoolSize <= SpineCount[book] THEN PoolSize ELSE SpineCount[book]

\* chooseForegroundPoolSize() >= 2
WorthPool == book # 0 /\ SpineCount[book] >= MinSpines /\ Want >= 2

\* No pool: the serial path serves the export.
SerialInstead(x) ==
  /\ export[x].phase = "prepare" /\ ~WorthPool
  /\ export' = [export EXCEPT ![x].phase = "ended"]
  /\ Unlock({x})
  /\ UNCHANGED <<page, pool, engine, saved>>

(***************************************************************************)
(* ensurePool                                                              *)
(***************************************************************************)

\* poolIdentity
PoolIdentity == [book |-> bookEpoch, face |-> face, size |-> Want]

\* Mutated form: a pool is not tied to the face it was built with.
Fits_AnyFace ==
  pool.key = [PoolIdentity EXCEPT !.face = pool.key.face] /\ Len(pool.engines) = Want

\* The pool at hand can serve: it was built for what the page has now.
Fits == pool.key = PoolIdentity /\ Len(pool.engines) = Want

\* readSpec(): the reader uses the custom face, if there is one, or a built-in one.
CustomSpec == IF face > 0 THEN BOOLEAN ELSE {FALSE}

\* The settings are read now, for the whole export, and each member pulls its first spine.
Dispatched(r, custom) ==
  [r EXCEPT !.phase = "encode", !.custom = custom, !.next = Len(r.members),
            !.call = [i \in 1..Len(r.members) |-> EncodeSpine(i - 1)]]

\* The pool at hand is used again.
ReusePool(x, hook) ==
  /\ Fits
  /\ \E custom \in CustomSpec : export' = [export EXCEPT ![x] = Dispatched(
       [@ EXCEPT !.hook = hook, !.key = PoolIdentity, !.members = pool.engines], custom)]
  /\ UNCHANGED <<exporting, pool, engine>>

\* The pool at hand goes; Want engines are spawned and start to load the book.
BuildPool(x, hook) ==
  LET hit == Rejected(PoolMembers)
      fresh == [i \in 1..Want |-> <<x, i>>]
  IN  /\ ~Fits
      /\ pool' = NoPool
      /\ engine' = [e \in Engines |-> IF \E i \in 1..Want : e = fresh[i]
                                      THEN [alive |-> TRUE, book |-> book, face |-> 0]
                                      ELSE Terminate(PoolMembers)[e]]
      /\ export' = [Ended({}, "failed", hit) EXCEPT ![x] =
           [@ EXCEPT !.phase = "build", !.hook = hook, !.key = PoolIdentity, !.members = fresh,
                     !.call = [i \in 1..Want |-> Load]]]
      /\ Unlock(hit)

Start(x) ==
  /\ export[x].phase = "prepare" /\ WorthPool
  /\ ReusePool(x, FALSE) \/ BuildPool(x, FALSE)
  /\ UNCHANGED <<page, saved>>

Calls(x, i, cmd) ==
  /\ UnderWay(x) /\ i \in 1..Len(export[x].call)
  /\ export[x].call[i].cmd = cmd

Answers(x, i) == engine[export[x].members[i]].alive

\* Member i has loaded the book; it gets the face the page has NOW.
LoadReply(x, i) ==
  /\ Calls(x, i, "load") /\ Answers(x, i)
  /\ export' = [export EXCEPT ![x].call[i] = IF face > 0 THEN LoadFont ELSE Stats]
  /\ engine' = [engine EXCEPT ![export[x].members[i]].face = face]
  /\ UNCHANGED <<page, exporting, pool, saved>>

LoadFontReply(x, i) ==
  /\ Calls(x, i, "loadFont") /\ Answers(x, i)
  /\ export' = [export EXCEPT ![x].call[i] = Stats]
  /\ UNCHANGED <<page, exporting, pool, engine, saved>>

\* The diagnostic call ends, one way or another; the last member to load completes the pool.
MemberLoaded(x, i) ==
  LET r == [export[x] EXCEPT !.call[i] = NoCall]
  IN  IF \A j \in 1..Len(r.call) : r.call[j] = NoCall
      THEN /\ pool' = [engines |-> r.members, key |-> r.key]
           /\ \E custom \in CustomSpec : export' = [export EXCEPT ![x] = Dispatched(r, custom)]
      ELSE /\ export' = [export EXCEPT ![x] = r]
           /\ UNCHANGED pool

\* stats answers, or fails with an answer.
StatsReply(x, i) ==
  /\ Calls(x, i, "stats") /\ Answers(x, i)
  /\ MemberLoaded(x, i)
  /\ UNCHANGED <<page, exporting, engine, saved>>

\* stats times out, or the worker dies meanwhile: the engine is killed and the rejection ignored.
StatsLost(x, i) ==
  /\ Calls(x, i, "stats")
  /\ engine' = Terminate({export[x].members[i]})
  /\ MemberLoaded(x, i)
  /\ UNCHANGED <<page, exporting, saved>>

\* Mutated form: the other members are left alone.
BuildFails_OneOnly(x, i) ==
  /\ Calls(x, i, "load") \/ Calls(x, i, "loadFont")
  /\ KillPool({export[x].members[i]}, {x}, "failed")
  /\ UNCHANGED <<page, saved>>

\* A member cannot load the book or the face: none of them is used.
BuildFails(x, i) ==
  /\ Calls(x, i, "load") \/ Calls(x, i, "loadFont")
  /\ KillPool(Members(x), {x}, "failed")
  /\ UNCHANGED <<page, saved>>

(***************************************************************************)
(* pooledExportBook, after ensurePool                                      *)
(***************************************************************************)
\* Mutated form: one spine too many.
Pull_OneMore(r, i) ==
  IF r.next <= SpineCount[r.key.book]
  THEN [r EXCEPT !.call[i] = EncodeSpine(r.next), !.next = @ + 1]
  ELSE [r EXCEPT !.call[i] = NoCall]

\* Member i takes the next spine, if any is left.
Pull(r, i) ==
  IF r.next < SpineCount[r.key.book]
  THEN [r EXCEPT !.call[i] = EncodeSpine(r.next), !.next = @ + 1]
  ELSE [r EXCEPT !.call[i] = NoCall]

\* Mutated form: the first member to run out of spines assembles.
AssembleWhenDone_FirstOut(r) ==
  IF \E j \in 1..Len(r.call) : r.call[j] = NoCall
  THEN [r EXCEPT !.phase = "assemble", !.call[1] = Assemble]
  ELSE r

\* When every member is out of spines the first one assembles.
AssembleWhenDone(r) ==
  IF \A j \in 1..Len(r.call) : r.call[j] = NoCall
  THEN [r EXCEPT !.phase = "assemble", !.call[1] = Assemble]
  ELSE r

\* What engine e makes of spine s.
Encoded(r, s, e) ==
  [spine |-> s, book |-> engine[e].book, face |-> IF r.custom THEN engine[e].face ELSE 0]

\* Mutated form: results are kept in order of completion.
Store_ByCompletion(r, s, e) ==
  LET free == CHOOSE t \in Spines :
        r.results[t] = NoResult /\ \A u \in 0 .. t - 1 : r.results[u] # NoResult
  IN  [r EXCEPT !.results[free] = Encoded(r, s, e)]

\* The reply of spine s from engine e is kept under the spine's number.
Store(r, s, e) == [r EXCEPT !.results[s] = Encoded(r, s, e)]

\* encodeSpine answers; an engine refuses a spec with a custom face it was not given.
EncodeReply(x, i) ==
  /\ Calls(x, i, "encodeSpine") /\ Answers(x, i)
  /\ export[x].custom => engine[export[x].members[i]].face > 0
  /\ LET r == Store(export[x], export[x].call[i].spine, export[x].members[i])
     IN  export' = [export EXCEPT ![x] = AssembleWhenDone(Pull(r, i))]
  /\ UNCHANGED <<page, exporting, pool, engine, saved>>

\* Mutated form: a call that times out ends its engine but is not rejected.
EncodeFails_NotRejected(x, i, lost) ==
  /\ Calls(x, i, "encodeSpine")
  /\ engine' = Terminate({export[x].members[i]})
  /\ UNCHANGED <<page, exporting, pool, export, saved>>

\* encodeSpine fails: with an answer, or (lost) by a timeout or a worker error that kills the engine.
EncodeFails(x, i, lost) ==
  /\ Calls(x, i, "encodeSpine")
  /\ lost \/ Answers(x, i)
  /\ KillPool(IF lost THEN {export[x].members[i]} ELSE {}, {x}, "failed")
  /\ UNCHANGED <<page, saved>>

\* The records in spine order, whoever encoded them and whenever.
InSpineOrder(r) == [i \in 1..SpineCount[r.key.book] |-> r.results[i-1]]

\* planPrefix or assembleSpines answers.  The download is named after the book open by now and its
\* pool is destroyed; the hook keeps it.
AssembleReply(x) ==
  /\ Calls(x, 1, "assemble") /\ Answers(x, 1)
  /\ saved' = [saved EXCEPT ![x] = [parts |-> InSpineOrder(export[x]), title |-> book]]
  /\ IF export[x].hook
     THEN export' = Ended({x}, "saved", {}) /\ UNCHANGED <<exporting, pool, engine>>
     ELSE KillPool({}, {x}, "saved")
  /\ UNCHANGED page

\* The assembling call fails, as in EncodeFails; pooledExportBook itself does not kill the pool here.
AssembleFails(x, lost) ==
  LET D == IF lost THEN {export[x].members[1]} ELSE {}
  IN  /\ Calls(x, 1, "assemble")
      /\ lost \/ Answers(x, 1)
      /\ IF export[x].hook
         THEN /\ engine' = Terminate(D)
              /\ export' = Ended({x}, "failed", {})
              /\ UNCHANGED <<exporting, pool>>
         ELSE KillPool(D, {x}, "failed")
      /\ UNCHANGED <<page, saved>>

(***************************************************************************)
(* Everything else on the page that touches a pool.                        *)
(***************************************************************************)
\* __pool.run: pooledExportBook alone, without the lock; the pool stays.
HookRun(x) ==
  /\ ~Overlapping
  /\ \A y \in Attempts : ~UnderWay(y)
  /\ export[x].phase = "idle" /\ book # 0
  /\ ReusePool(x, TRUE) \/ BuildPool(x, TRUE)
  /\ UNCHANGED <<page, saved>>

\* applyCustomFont commits a converted face; the conversion may have begun before the lock was taken.
FontCommit ==
  /\ face < MaxFace
  /\ face' = face + 1
  /\ KillPool({}, {}, "failed")
  /\ UNCHANGED <<book, bookEpoch, opening, saved>>

\* loadBook, up to its call to the preview worker: a book may be dropped on the page at any time.
OpenBook ==
  /\ ~opening /\ bookEpoch + 1 \in Books
  /\ opening' = TRUE
  /\ KillPool({}, {}, "failed")
  /\ UNCHANGED <<book, bookEpoch, face, saved>>

\* loadBook, when the preview worker has opened the book
OpenCommits ==
  /\ opening
  /\ opening' = FALSE
  /\ bookEpoch' = bookEpoch + 1 /\ book' = bookEpoch + 1
  /\ UNCHANGED <<face, exporting, pool, engine, export, saved>>

\* clearLoadedBookAfterFailedOpen
OpenFails ==
  /\ opening
  /\ opening' = FALSE
  /\ book' = 0
  /\ KillPool({}, {}, "failed")
  /\ UNCHANGED <<bookEpoch, face, saved>>

\* A worker dies while nothing is asked of it; it stays in the pool.
WorkerError(e) ==
  /\ engine[e].alive
  /\ \A x \in Attempts : ~Awaits(x, e)
  /\ engine' = Terminate({e})
  /\ UNCHANGED <<page, exporting, pool, export, saved>>

\* The call attempt x makes to its member i ends.
CallEnds(x, i) ==
  \/ LoadReply(x, i) \/ LoadFontReply(x, i) \/ StatsReply(x, i) \/ StatsLost(x, i)
  \/ BuildFails(x, i)
  \/ EncodeReply(x, i) \/ \E lost \in BOOLEAN : EncodeFails(x, i, lost)
  \/ i = 1 /\ (AssembleReply(x) \/ \E lost \in BOOLEAN : AssembleFails(x, lost))

Continues(x) == PingReply(x) \/ NoPoolNeeded(x) \/ SerialInstead(x) \/ Start(x)

Next ==
  \/ \E x \in Attempts :
       \/ Click(x) \/ HookRun(x) \/ Continues(x)
       \/ \E i \in 1..PoolSize : CallEnds(x, i)
  \/ FontCommit \/ OpenBook \/ OpenCommits \/ OpenFails
  \/ \E e \in Engines : WorkerError(e)

\* Every call of the page to a worker has a timer, so it ends; the page runs what it can.
Fairness == \A x \in Attempts :
  /\ WF_vars(Continues(x))
  /\ \A i \in 1..PoolSize : WF_vars(CallEnds(x, i))

Spec == Init /\ [][Next]_vars
FairSpec == Spec /\ Fairness

(***************************************************************************)
(* Properties.                                                             *)
(***************************************************************************)
Result == [spine : Spines, book : Books, face : 0..MaxFace]
Key == [book : Books \cup {0}, face : 0..MaxFace, size : 0..PoolSize]
CallState ==
  {NoCall, Load, LoadFont, Stats, Assemble} \cup {EncodeSpine(s) : s \in Spines}
ExportState ==
  [phase : {"idle", "ping", "prepare", "build", "encode", "assemble", "saved", "failed", "ended"},
   hook : BOOLEAN, custom : BOOLEAN, key : Key, members : Seq(Engines), call : Seq(CallState), next : Nat,
   results : [Spines -> Result \cup {NoResult}]]

\* Shape of the state; as many pending calls as members.
TypeOK ==
  /\ book \in {0, bookEpoch} /\ bookEpoch \in Books /\ opening \in BOOLEAN /\ face \in 0..MaxFace
  /\ exporting \in BOOLEAN
  /\ pool \in [engines : Seq(Engines), key : Key]
  /\ engine \in [Engines -> [alive : BOOLEAN, book : Books \cup {0}, face : 0..MaxFace]]
  /\ export \in [Attempts -> ExportState]
  /\ saved \in [Attempts -> [parts : Seq(Result), title : Books \cup {0}]]
  /\ \A x \in Attempts : Len(export[x].call) = Len(export[x].members)

\* A file is the whole of one book, each spine once and in the order of the book, however the
\* spines were spread over the engines and in whatever order their replies came.
SavedInSpineOrder ==
  \A x \in Attempts : saved[x] # NoFile =>
    /\ Len(saved[x].parts) = SpineCount[export[x].key.book]
    /\ \A i \in 1..Len(saved[x].parts) :
         saved[x].parts[i].spine = i - 1 /\ saved[x].parts[i].book = export[x].key.book

\* Unless a face was committed while the export was under way, every spine of its file was laid out
\* with the face the page had: no pool, kept or new, brings an older one.
CurrentFace ==
  \A x \in Attempts : \A i \in 1..Len(saved[x].parts) :
    export[x].key.face = face => saved[x].parts[i].face = IF export[x].custom THEN face ELSE 0

\* A live engine is in the pool or works for an export under way; nothing else would terminate it.
NoOrphanEngine ==
  \A e \in Engines : engine[e].alive =>
    e \in PoolMembers \/ \E x \in Attempts : UnderWay(x) /\ e \in Members(x)

\* The settings are locked exactly while a download is under way, whichever way it ends.
LockedWhileExporting ==
  exporting <=> \E x \in Attempts : UnderWay(x) /\ export[x].phase # "ping" /\ ~export[x].hook

\* Every export ends, with dead members and lost replies too.
EveryExportEnds == \A x \in Attempts : UnderWay(x) ~> ~UnderWay(x)

\* The abstract specification: what attempt x promises.
Promise(x) == INSTANCE SpineExport WITH
  status <- CASE export[x].phase \in {"idle", "ping", "prepare", "ended"} -> "idle"
              [] export[x].phase \in {"build", "encode", "assemble"} -> "running"
              [] OTHER -> export[x].phase,
  source <- export[x].key.book,
  encoded <- {s \in Spines : export[x].results[s] # NoResult},
  file <- [i \in 1..Len(saved[x].parts) |->
             [book |-> saved[x].parts[i].book, spine |-> saved[x].parts[i].spine]]

\* Each attempt does what SpineExport says: \A x \in Attempts : Promise(x)!Spec, with the
\* quantifier where TLC can evaluate it.
EachExportIsInOrder ==
  /\ \A x \in Attempts : Promise(x)!Init
  /\ [][\A x \in Attempts : [Promise(x)!Next]_(Promise(x)!avars)]_vars

(***************************************************************************)
(* What the page's comments say and the code does not ensure.              *)
(***************************************************************************)
\* All the spines of a file were laid out with one face: a member that cannot restore the current
\* face is not used.
OneFacePerFile ==
  \A x \in Attempts : \A i, j \in 1..Len(saved[x].parts) :
    saved[x].parts[i].face = saved[x].parts[j].face
=============================================================================
