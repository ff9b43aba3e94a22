--------------------------- MODULE SpinePool_proofs ---------------------------
(***************************************************************************)
(* Proofs about the export pool of the page (src/web/app.js): a saved file *)
(* is the whole book in spine order and uses no face older than the export,*)
(* for any number of attempts, engines and books, whatever dies meanwhile. *)
(*                                                                         *)
(* The inductive invariant says what an attempt knows at each of its       *)
(* awaits (Sound), what the engines it uses have loaded (EnginesOK,        *)
(* MembersFit), and what a kept pool is worth (PoolOK).  Two more results  *)
(* rest on it: the pool implements the export of SpineExport, step by      *)
(* step, and while no two exports overlap the lock is held by the one that *)
(* runs and no engine is left behind.                                      *)
(***************************************************************************)
EXTENDS SpinePool, TLAPS

Busy(r) == r.phase \in {"build", "encode", "assemble"}
Begun(r) == r.phase \notin {"idle", "ping", "prepare"}

\* Faces a spine may have been laid out with, when the page has had f faces: none older than the
\* export, unless the settings it read use a built-in one.
Faces(r, f) == IF r.custom THEN r.key.face .. f ELSE {0}

(***************************************************************************)
(* What the local variables r of an attempt say, phase by phase.           *)
(***************************************************************************)
OffDuty(r) == ~Busy(r) => r.members = << >> /\ r.call = << >> /\ r.results = NoResults
Staffed(r) == Busy(r) => r.key.book \in Books /\ Len(r.members) \in 1..SpineCount[r.key.book]
Building(r) == r.phase = "build" =>
  /\ r.results = NoResults
  /\ \A i \in 1..Len(r.call) : r.call[i] \in {NoCall, Load, LoadFont, Stats}

\* Every spine below next is either pending at exactly one member or has its result.
Encoding(r) == r.phase = "encode" =>
  /\ r.next <= SpineCount[r.key.book]
  /\ \E i \in 1..Len(r.call) : r.call[i] # NoCall
  /\ \A i \in 1..Len(r.call) :
       r.call[i] = NoCall \/ \E s \in Spines : s < r.next /\ r.call[i] = EncodeSpine(s)
  /\ \A i, j \in 1..Len(r.call) : i # j => r.call[i] = NoCall \/ r.call[i] # r.call[j]
  /\ \A s \in Spines :
       r.results[s] = NoResult <=> s >= r.next \/ \E i \in 1..Len(r.call) : r.call[i] = EncodeSpine(s)
Assembling(r) == r.phase = "assemble" =>
  /\ r.call[1] = Assemble
  /\ \A i \in 2..Len(r.call) : r.call[i] = NoCall
  /\ \A s \in Spines : r.results[s] = NoResult <=> s >= SpineCount[r.key.book]
ResultsTrue(r, f) == \A s \in Spines : r.results[s] # NoResult =>
  r.results[s].spine = s /\ r.results[s].book = r.key.book /\ r.results[s].face \in Faces(r, f)

Sound(r, f) ==
  /\ Len(r.call) = Len(r.members)
  /\ OffDuty(r) /\ Staffed(r) /\ Building(r) /\ Encoding(r) /\ Assembling(r) /\ ResultsTrue(r, f)
  /\ ~Begun(r) => ~r.hook
  /\ r.key.face <= f

(***************************************************************************)
(* Engines.                                                                *)
(***************************************************************************)
EngineState == [alive : BOOLEAN, book : Books \cup {0}, face : 0..MaxFace]
PoolState == [engines : Seq(Engines), key : Key]
SavedState == [parts : Seq(Result), title : Books \cup {0}]

\* Engine e, if it lives, has the book of key, and a face that is not older.
Fit(e, key) == engine[e].alive => engine[e].book = key.book /\ engine[e].face >= key.face

\* A member belongs to an attempt that has begun, so nobody spawns it again; it has its attempt's
\* book, and once it was given a face it fits.
MembersFit(x) ==
  \A i \in 1..Len(export[x].members) :
    /\ Begun(export[export[x].members[i][1]])
    /\ engine[export[x].members[i]].alive => engine[export[x].members[i]].book = export[x].key.book
    /\ export[x].call[i] # Load => Fit(export[x].members[i], export[x].key)

PageOK ==
  /\ book \in {0, bookEpoch} /\ bookEpoch \in Books
  /\ opening \in BOOLEAN /\ (opening => bookEpoch + 1 \in Books)
  /\ face \in 0..MaxFace
AttemptsOK ==
  export \in [Attempts -> ExportState] /\ \A x \in Attempts : Sound(export[x], face)
EnginesOK ==
  /\ engine \in [Engines -> EngineState]
  /\ \A e \in Engines : engine[e].face <= face /\ (engine[e].alive => engine[e].book \in Books)
MembersOK == \A x \in Attempts : MembersFit(x)
PoolOK ==
  /\ pool \in PoolState
  /\ pool.key.face <= face
  /\ \A i \in 1..Len(pool.engines) :
       Begun(export[pool.engines[i][1]]) /\ Fit(pool.engines[i], pool.key)

\* The file of an attempt, once it has one, is that attempt's.
FileOf(x) ==
  /\ export[x].phase = "saved" /\ export[x].key.book \in Books
  /\ Len(saved[x].parts) = SpineCount[export[x].key.book]
  /\ \A i \in 1..Len(saved[x].parts) :
       /\ saved[x].parts[i].spine = i - 1 /\ saved[x].parts[i].book = export[x].key.book
       /\ saved[x].parts[i].face \in Faces(export[x], face)
SavedOK ==
  saved \in [Attempts -> SavedState] /\ \A x \in Attempts : saved[x] = NoFile \/ FileOf(x)

PoolInv ==
  /\ PageOK /\ exporting \in BOOLEAN
  /\ AttemptsOK /\ EnginesOK /\ MembersOK /\ PoolOK /\ SavedOK

-----------------------------------------------------------------------------
(* Helpers. *)

LEMMA SpinesFacts ==
  /\ Spines \subseteq Nat
  /\ \A b \in Books : SpineCount[b] \in Nat \ {0} /\ 0 .. SpineCount[b] - 1 \subseteq Spines
<1>1. \A b \in Books : SpineCount[b] \in Nat \ {0}
  BY PoolAssumption
<1> QED BY <1>1 DEF Spines

LEMMA CallFacts ==
  ASSUME NEW c \in CallState
  PROVE  /\ c.cmd = "load" => c = Load
         /\ c.cmd = "loadFont" => c = LoadFont
         /\ c.cmd = "stats" => c = Stats
         /\ c.cmd = "assemble" => c = Assemble
         /\ c.cmd = "encodeSpine" => c.spine \in Spines /\ c = EncodeSpine(c.spine)
BY DEF CallState, NoCall, Load, LoadFont, Stats, Assemble, EncodeSpine

LEMMA CallsDiffer ==
  /\ NoCall # Load /\ NoCall # LoadFont /\ NoCall # Stats /\ NoCall # Assemble
  /\ Load # LoadFont /\ Load # Stats /\ Load # Assemble
  /\ \A s \in Spines : /\ EncodeSpine(s) # NoCall /\ EncodeSpine(s) # Load
                       /\ EncodeSpine(s) # LoadFont /\ EncodeSpine(s) # Stats
                       /\ EncodeSpine(s) # Assemble
  /\ \A s, t \in Spines : EncodeSpine(s) = EncodeSpine(t) => s = t
BY DEF NoCall, Load, LoadFont, Stats, Assemble, EncodeSpine

LEMMA TypeFollows == PoolInv => TypeOK
BY DEF PoolInv, TypeOK, PageOK, AttemptsOK, EnginesOK, PoolOK, SavedOK, Sound, PoolState, EngineState,
   SavedState

LEMMA SeqUpdate ==
  ASSUME NEW S, NEW q \in Seq(S), NEW i \in 1..Len(q), NEW v \in S
  PROVE  /\ [q EXCEPT ![i] = v] \in Seq(S) /\ Len([q EXCEPT ![i] = v]) = Len(q)
         /\ \A j \in 1..Len(q) : [q EXCEPT ![i] = v][j] = IF j = i THEN v ELSE q[j]
OBVIOUS

\* Which phase a pending call belongs to.
LEMMA CallPhase ==
  ASSUME PoolInv, NEW x \in Attempts, NEW i, NEW cmd, Calls(x, i, cmd)
  PROVE  /\ export[x] \in ExportState /\ i \in 1..Len(export[x].call)
         /\ Len(export[x].call) = Len(export[x].members) /\ Len(export[x].call) \in Nat
         /\ export[x].call[i] \in CallState /\ export[x].members[i] \in Engines
         /\ cmd \in {"load", "loadFont", "stats"} => export[x].phase = "build"
         /\ cmd = "encodeSpine" => export[x].phase = "encode"
         /\ cmd = "assemble" => export[x].phase = "assemble"
<1> DEFINE r == export[x]
<1>1. r \in ExportState /\ Sound(r, face) /\ i \in 1..Len(r.call) /\ r.call[i].cmd = cmd
  BY DEF PoolInv, AttemptsOK, Calls
<1>2. Len(r.call) = Len(r.members) /\ r.call \in Seq(CallState) /\ r.members \in Seq(Engines)
  BY <1>1 DEF Sound, ExportState
<1>3. r.call[i] \in CallState /\ r.members[i] \in Engines
  BY <1>1, <1>2
<1>4. Busy(r)
  BY <1>1 DEF Sound, OffDuty
<1>5. r.phase = "build" => cmd \notin {"encodeSpine", "assemble"}
  BY <1>1 DEF Sound, Building, NoCall, Load, LoadFont, Stats
<1>6. r.phase = "encode" => cmd \in {"none", "encodeSpine"}
  <2>1. ASSUME r.phase = "encode" PROVE cmd \in {"none", "encodeSpine"}
    <3>1. r.call[i] = NoCall \/ \E s \in Spines : r.call[i] = EncodeSpine(s)
      BY <1>1, <2>1 DEF Sound, Encoding
    <3>2. CASE r.call[i] = NoCall
      BY <1>1, <3>2 DEF NoCall
    <3>3. ASSUME NEW s \in Spines, r.call[i] = EncodeSpine(s) PROVE cmd = "encodeSpine"
      BY <1>1, <3>3 DEF EncodeSpine
    <3> QED BY <3>1, <3>2, <3>3
  <2> QED BY <2>1
<1>7. r.phase = "assemble" => cmd \in {"none", "assemble"}
  <2>1. ASSUME r.phase = "assemble" PROVE cmd \in {"none", "assemble"}
    <3>1. r.call[1] = Assemble /\ \A j \in 2..Len(r.call) : r.call[j] = NoCall
      BY <1>1, <2>1 DEF Sound, Assembling
    <3> QED BY <1>1, <1>2, <3>1 DEF NoCall, Assemble
  <2> QED BY <2>1
<1> QED BY <1>1, <1>2, <1>3, <1>4, <1>5, <1>6, <1>7 DEF Busy

-----------------------------------------------------------------------------
(* What the operations on an attempt's local variables preserve. *)

LEMMA SoundLater ==
  ASSUME NEW r \in ExportState, NEW f \in Nat, NEW g \in Nat, f <= g, Sound(r, f)
  PROVE  Sound(r, g)
<1>1. r.key.face \in Nat
  BY PoolAssumption DEF ExportState, Key
<1>2. Faces(r, f) \subseteq Faces(r, g)
  BY <1>1 DEF Faces
<1>3. ResultsTrue(r, g)
  BY <1>2 DEF Sound, ResultsTrue
<1> QED BY <1>1, <1>3 DEF Sound

LEMMA OverSound ==
  ASSUME NEW r \in ExportState, NEW f \in Nat, Sound(r, f), NEW how \in {"saved", "failed", "ended"}
  PROVE  /\ Over(r, how) \in ExportState /\ Sound(Over(r, how), f)
         /\ Over(r, how).phase = how /\ Over(r, how).members = << >>
         /\ Over(r, how).key = r.key /\ Over(r, how).custom = r.custom /\ Over(r, how).hook = r.hook
         /\ Over(r, how).results = NoResults
<1> DEFINE o == Over(r, how)
<1>1. /\ o.phase = how /\ o.members = << >> /\ o.call = << >> /\ o.next = 0 /\ o.results = NoResults
      /\ o.key = r.key /\ o.custom = r.custom /\ o.hook = r.hook
  BY DEF Over, ExportState
<1>2. NoResults \in [Spines -> Result \cup {NoResult}]
  BY DEF NoResults
<1>3. o \in ExportState
  <2>1. << >> \in Seq(Engines) /\ << >> \in Seq(CallState)
    OBVIOUS
  <2> QED BY <1>2, <2>1 DEF Over, ExportState
<1>4. \A s \in Spines : o.results[s] = NoResult
  BY <1>1 DEF NoResults
<1>5. Sound(o, f)
  <2>1. r.key.face <= f
    BY DEF Sound
  <2> HIDE DEF o
  <2> QED BY <1>1, <1>4, <2>1
          DEF Sound, OffDuty, Staffed, Building, Encoding, Assembling, ResultsTrue, Busy, Begun
<1> QED BY <1>1, <1>3, <1>5

\* The members pull their first spines.
LEMMA DispatchedSound ==
  ASSUME NEW r \in ExportState, NEW f \in Nat, NEW custom \in BOOLEAN,
         r.key.book \in Books, Len(r.members) \in 1..SpineCount[r.key.book],
         r.results = NoResults, r.key.face <= f
  PROVE  /\ Dispatched(r, custom) \in ExportState /\ Sound(Dispatched(r, custom), f)
         /\ Dispatched(r, custom).phase = "encode"
         /\ Dispatched(r, custom).members = r.members /\ Dispatched(r, custom).key = r.key
         /\ Dispatched(r, custom).hook = r.hook /\ Dispatched(r, custom).results = NoResults
<1> DEFINE d == Dispatched(r, custom)
           n == Len(r.members)
<1>1. /\ d.phase = "encode" /\ d.custom = custom /\ d.next = n
      /\ d.call = [i \in 1..n |-> EncodeSpine(i - 1)] /\ d.results = r.results
      /\ d.key = r.key /\ d.hook = r.hook /\ d.members = r.members
  BY DEF Dispatched, ExportState
<1>2. n \in Nat /\ n >= 1 /\ n <= SpineCount[r.key.book]
  BY SpinesFacts
<1>3. \A i \in 1..n : i - 1 \in Spines
  BY <1>2, SpinesFacts
<1>4. d.call \in Seq(CallState) /\ Len(d.call) = n /\ \A i \in 1..n : d.call[i] = EncodeSpine(i - 1)
  BY <1>1, <1>2, <1>3 DEF CallState
<1>5. d \in ExportState
  <2>1. [i \in 1..n |-> EncodeSpine(i - 1)] \in Seq(CallState)
    BY <1>1, <1>4
  <2> HIDE DEF n
  <2> QED BY <1>2, <2>1 DEF Dispatched, ExportState, n
<1> HIDE DEF d
<1>6. \A s \in Spines : d.results[s] = NoResult
  BY <1>1 DEF NoResults
<1>7. Encoding(d)
  <2>1. d.call[1] # NoCall
    BY <1>2, <1>3, <1>4, CallsDiffer
  <2>2. \A i \in 1..n : \E s \in Spines : s < n /\ d.call[i] = EncodeSpine(s)
    BY <1>2, <1>3, <1>4
  <2>3. \A i, j \in 1..n : i # j => d.call[i] # d.call[j]
    BY <1>2, <1>3, <1>4, CallsDiffer
  <2>4. ASSUME NEW s \in Spines, s < n PROVE \E i \in 1..n : d.call[i] = EncodeSpine(s)
    <3>1. s + 1 \in 1..n /\ d.call[s + 1] = EncodeSpine(s)
      BY <1>2, <1>4, <2>4, SpinesFacts
    <3> QED BY <3>1
  <2>5. \A s \in Spines : s >= n \/ \E i \in 1..n : d.call[i] = EncodeSpine(s)
    BY <1>2, <2>4, SpinesFacts
  <2>6. d.next = n /\ n <= SpineCount[d.key.book] /\ Len(d.call) = n /\ 1 \in 1..n
    BY <1>1, <1>2, <1>4
  <2> HIDE DEF n
  <2> QED BY <1>6, <2>1, <2>2, <2>3, <2>5, <2>6 DEF Encoding
<1>8. Sound(d, f)
  BY <1>1, <1>4, <1>6, <1>7
     DEF Sound, OffDuty, Staffed, Building, Assembling, ResultsTrue, Busy, Begun
<1> QED BY <1>1, <1>5, <1>8 DEF d

\* The reply of spine s is stored, its member pulls the next one, and the last reply starts the
\* assembly: no spine is lost and none is encoded twice.
LEMMA EncodedSound ==
  ASSUME NEW r \in ExportState, NEW f \in Nat, Sound(r, f), r.phase = "encode",
         NEW i \in 1..Len(r.call), NEW s \in Spines, r.call[i] = EncodeSpine(s),
         NEW v \in Result, v.spine = s, v.book = r.key.book, v.face \in Faces(r, f),
         NEW q, q = AssembleWhenDone(Pull([r EXCEPT !.results[s] = v], i))
  PROVE  /\ q \in ExportState /\ Sound(q, f)
         /\ q.members = r.members /\ q.key = r.key /\ q.hook = r.hook
         /\ q.phase \in {"encode", "assemble"}
         /\ r.results[s] = NoResult /\ q.results = [r.results EXCEPT ![s] = v] /\ v # NoResult
<1> DEFINE n == SpineCount[r.key.book]
           c == IF r.next < n THEN EncodeSpine(r.next) ELSE NoCall
           k == IF r.next < n THEN r.next + 1 ELSE r.next
           p == Pull([r EXCEPT !.results[s] = v], i)
<1>0. v # NoResult
  BY SpinesFacts DEF Result, NoResult
<1>1. /\ r.call \in Seq(CallState) /\ Len(r.call) \in Nat /\ Len(r.call) = Len(r.members)
      /\ r.next \in Nat /\ r.results \in [Spines -> Result \cup {NoResult}]
      /\ r.key.book \in Books /\ n \in Nat \ {0} /\ Len(r.call) >= 1 /\ r.key.face <= f
      /\ Len(r.members) \in 1..n
  BY SpinesFacts DEF ExportState, Sound, Staffed, Busy
<1>2. /\ r.next <= n
      /\ \A j \in 1..Len(r.call) :
           r.call[j] = NoCall \/ \E t \in Spines : t < r.next /\ r.call[j] = EncodeSpine(t)
      /\ \A j, l \in 1..Len(r.call) : j # l => r.call[j] = NoCall \/ r.call[j] # r.call[l]
      /\ \A t \in Spines :
           r.results[t] = NoResult <=> t >= r.next \/ \E j \in 1..Len(r.call) : r.call[j] = EncodeSpine(t)
  BY DEF Sound, Encoding
<1>3. r.next < n => r.next \in Spines
  BY <1>1, SpinesFacts
<1>4. c \in CallState
  BY <1>3 DEF CallState
<1>5. p = [r EXCEPT !.results[s] = v, !.call[i] = c, !.next = k]
  BY <1>1 DEF Pull, ExportState
<1> HIDE DEF p
<1>6. /\ p.results = [r.results EXCEPT ![s] = v] /\ p.call = [r.call EXCEPT ![i] = c] /\ p.next = k
      /\ p.phase = "encode" /\ p.key = r.key /\ p.hook = r.hook /\ p.members = r.members
      /\ p.custom = r.custom
  BY <1>5 DEF ExportState
<1>7. p.call \in Seq(CallState) /\ Len(p.call) = Len(r.call)
  BY <1>1, <1>4, <1>6
<1>8. p \in ExportState
  <2>1. p.results \in [Spines -> Result \cup {NoResult}] /\ k \in Nat
    BY <1>1, <1>6
  <2> HIDE DEF k, c
  <2> QED BY <1>5, <1>6, <1>7, <2>1 DEF ExportState
<1>9. /\ p.call[i] = c /\ \A j \in 1..Len(r.call) : j # i => p.call[j] = r.call[j]
      /\ p.results[s] = v /\ \A t \in Spines : t # s => p.results[t] = r.results[t]
  BY <1>1, <1>6
<1>10. s < r.next /\ r.results[s] = NoResult
  <2>1. \E t \in Spines : t < r.next /\ EncodeSpine(s) = EncodeSpine(t)
    BY <1>2, CallsDiffer
  <2> QED BY <1>2, <2>1, CallsDiffer
<1>11. \A j \in 1..Len(r.call) : p.call[j] = NoCall \/ \E t \in Spines : t < k /\ p.call[j] = EncodeSpine(t)
  <2>1. p.call[i] = NoCall \/ \E t \in Spines : t < k /\ p.call[i] = EncodeSpine(t)
    BY <1>1, <1>3, <1>9
  <2>2. r.next <= k
    BY <1>1
  <2>3. ASSUME NEW t \in Spines, t < r.next PROVE t < k
    BY <1>1, <2>2, <2>3, SpinesFacts
  <2> QED BY <1>2, <1>9, <2>1, <2>3
<1>12. \A j, l \in 1..Len(r.call) : j # l => p.call[j] = NoCall \/ p.call[j] # p.call[l]
  <2>1. ASSUME NEW j \in 1..Len(r.call), j # i, r.next < n PROVE r.call[j] # EncodeSpine(r.next)
    BY <1>1, <1>2, <1>3, <2>1, CallsDiffer, SpinesFacts
  <2>2. ASSUME NEW j \in 1..Len(r.call), j # i, c # NoCall PROVE p.call[j] # c
    BY <1>9, <2>1, <2>2
  <2> QED BY <1>2, <1>9, <2>2
<1>13. ASSUME NEW t \in Spines
       PROVE p.results[t] = NoResult <=> t >= k \/ \E j \in 1..Len(r.call) : p.call[j] = EncodeSpine(t)
  <2>1. CASE t = s
    <3>1. ~(t >= k)
      BY <1>1, <1>10, <2>1, SpinesFacts
    <3>2. ASSUME NEW j \in 1..Len(r.call), j # i PROVE p.call[j] # EncodeSpine(s)
      BY <1>2, <1>9, <3>2, CallsDiffer
    <3>3. p.call[i] # EncodeSpine(s)
      BY <1>1, <1>3, <1>9, <1>10, CallsDiffer, SpinesFacts
    <3> QED BY <1>0, <1>9, <2>1, <3>1, <3>2, <3>3
  <2>2. CASE t # s /\ r.next < n /\ t = r.next
    <3>1. p.results[t] = NoResult
      BY <1>1, <1>2, <1>9, <2>2
    <3> QED BY <1>9, <2>2, <3>1
  <2>3. CASE t # s /\ ~(r.next < n /\ t = r.next)
    <3>1. p.results[t] = r.results[t]
      BY <1>9, <2>3
    <3>2. p.call[i] # EncodeSpine(t) /\ r.call[i] # EncodeSpine(t)
      BY <1>3, <1>9, <2>3, CallsDiffer
    <3>3. t >= k <=> t >= r.next
      BY <1>1, <2>3, SpinesFacts
    <3>4. (\E j \in 1..Len(r.call) : p.call[j] = EncodeSpine(t))
            <=> (\E j \in 1..Len(r.call) : r.call[j] = EncodeSpine(t))
      BY <1>9, <3>2
    <3> QED BY <1>2, <3>1, <3>3, <3>4
  <2> QED BY <2>1, <2>2, <2>3
<1>14. ResultsTrue(r, f) /\ Faces(p, f) = Faces(r, f)
  BY <1>6 DEF Sound, Faces
<1>15. \A t \in Spines : p.results[t] # NoResult =>
         p.results[t].spine = t /\ p.results[t].book = p.key.book /\ p.results[t].face \in Faces(p, f)
  BY <1>6, <1>9, <1>14 DEF ResultsTrue
<1>16. CASE \E j \in 1..Len(p.call) : p.call[j] # NoCall
  <2>1. q = p
    BY <1>16 DEF AssembleWhenDone, p
  <2>2. Encoding(p)
    <3>1. p.next = k /\ k <= SpineCount[p.key.book]
      BY <1>1, <1>2, <1>6
    <3> HIDE DEF k, c
    <3> QED BY <1>7, <1>11, <1>12, <1>13, <1>16, <3>1 DEF Encoding
  <2>3. Sound(p, f)
    BY <1>1, <1>6, <1>7, <1>15, <2>2
       DEF Sound, OffDuty, Staffed, Building, Assembling, ResultsTrue, Busy, Begun
  <2> QED BY <1>0, <1>6, <1>8, <1>10, <2>1, <2>3
<1>17. CASE ~ \E j \in 1..Len(p.call) : p.call[j] # NoCall
  <2>1. q = [p EXCEPT !.phase = "assemble", !.call[1] = Assemble]
    BY <1>17 DEF AssembleWhenDone, p
  <2>2. /\ q.phase = "assemble" /\ q.call = [p.call EXCEPT ![1] = Assemble] /\ q.results = p.results
        /\ q.key = r.key /\ q.hook = r.hook /\ q.members = r.members /\ q.custom = r.custom
    BY <1>6, <1>8, <2>1 DEF ExportState
  <2>3. q.call \in Seq(CallState) /\ Len(q.call) = Len(r.call)
    <3>1. Assemble \in CallState
      BY DEF CallState
    <3>2. p.call \in Seq(CallState) /\ 1 \in 1..Len(p.call)
      BY <1>1, <1>7
    <3> QED BY <1>7, <2>2, <3>1, <3>2, SeqUpdate
  <2>4. q \in ExportState
    BY <1>8, <2>1, <2>2, <2>3 DEF ExportState
  <2>5. ~(r.next < n)
    BY <1>1, <1>3, <1>7, <1>9, <1>17, CallsDiffer
  <2>6. \A t \in Spines : p.results[t] = NoResult <=> t >= n
    <3>1. \A t \in Spines, j \in 1..Len(r.call) : p.call[j] # EncodeSpine(t)
      BY <1>7, <1>17, CallsDiffer
    <3>2. k = n
      BY <1>1, <1>2, <2>5
    <3> HIDE DEF k, n
    <3> QED BY <1>13, <3>1, <3>2
  <2>7. Assembling(q)
    <3>1. q.call[1] = Assemble /\ \A j \in 2..Len(q.call) : q.call[j] = NoCall
      <4>1. 1 \in 1..Len(p.call) /\ Len(q.call) = Len(p.call)
        BY <1>1, <1>7, <2>3
      <4>2. \A j \in 1..Len(p.call) : q.call[j] = IF j = 1 THEN Assemble ELSE p.call[j]
        BY <1>7, <2>2
      <4> QED BY <1>17, <4>1, <4>2
    <3> QED BY <2>2, <2>6, <3>1 DEF Assembling
  <2>8. ResultsTrue(q, f)
    <3>1. Faces(q, f) = Faces(p, f) /\ q.key = p.key /\ q.results = p.results
      BY <1>6, <2>2 DEF Faces
    <3> QED BY <1>15, <3>1 DEF ResultsTrue
  <2>9. Sound(q, f)
    BY <1>1, <2>2, <2>3, <2>7, <2>8 DEF Sound, OffDuty, Staffed, Building, Encoding, Busy, Begun
  <2> QED BY <1>0, <1>6, <1>10, <2>2, <2>4, <2>9
<1> QED BY <1>16, <1>17

-----------------------------------------------------------------------------
(* What a step may do to engines, pool and attempts without harm. *)

\* Engines terminate; one may be given the current face; new ones are those of an attempt that has
\* not begun.
Drift == \A e \in Engines : engine'[e].alive /\ Begun(export[e[1]]) =>
  /\ engine[e].alive /\ engine'[e].book = engine[e].book
  /\ engine'[e].face \in {engine[e].face, face}

\* An attempt that has begun stays so.
Evolve == \A y \in Attempts : Begun(export[y]) => Begun(export'[y])

LEMMA PoolInvTypes ==
  ASSUME PoolInv
  PROVE  /\ face \in Nat /\ MaxFace \in Nat
         /\ \A x \in Attempts : export[x] \in ExportState /\ Sound(export[x], face)
         /\ \A x \in Attempts : \A i \in 1..Len(export[x].members) :
              export[x].members[i] \in Engines /\ export[x].members[i][1] \in Attempts
         /\ \A x \in Attempts : export[x].key.face \in Nat /\ export[x].key.face <= face
         /\ \A e \in Engines : engine[e] \in EngineState /\ engine[e].face \in Nat
         /\ \A i \in 1..Len(pool.engines) : pool.engines[i] \in Engines /\ pool.engines[i][1] \in Attempts
         /\ pool.key.face \in Nat
         /\ PoolMembers \subseteq Engines
<1>1. face \in Nat /\ MaxFace \in Nat
  BY PoolAssumption DEF PoolInv, PageOK
<1>2. \A x \in Attempts : export[x] \in ExportState /\ Sound(export[x], face)
  BY DEF PoolInv, AttemptsOK
<1>3. \A e \in Engines : e[1] \in Attempts
  BY DEF Engines
<1>4. \A x \in Attempts : export[x].members \in Seq(Engines)
  BY <1>2 DEF ExportState
<1>5. \A x \in Attempts : export[x].key.face \in Nat /\ export[x].key.face <= face
  <2> SUFFICES ASSUME NEW x \in Attempts PROVE export[x].key.face \in Nat /\ export[x].key.face <= face
    OBVIOUS
  <2>1. export[x].key \in Key
    BY <1>2 DEF ExportState
  <2>2. export[x].key.face \in Nat
    BY <2>1, PoolAssumption DEF Key
  <2> QED BY <1>2, <2>2 DEF Sound
<1>6. \A e \in Engines : engine[e] \in EngineState /\ engine[e].face \in Nat
  BY PoolAssumption DEF PoolInv, EnginesOK, EngineState
<1>7. pool.engines \in Seq(Engines) /\ pool.key.face \in Nat
  BY PoolAssumption DEF PoolInv, PoolOK, PoolState, Key
<1>8. \A i \in 1..Len(pool.engines) : pool.engines[i] \in Engines
  BY <1>7
<1> QED BY <1>1, <1>2, <1>3, <1>4, <1>5, <1>6, <1>7, <1>8 DEF PoolMembers

LEMMA MembersStay ==
  ASSUME PoolInv, Drift, Evolve, NEW y \in Attempts,
         export'[y].members = export[y].members, export'[y].key = export[y].key,
         \A i \in 1..Len(export[y].members) : export[y].call[i] = Load =>
           export'[y].call[i] = Load \/ engine'[export[y].members[i]].face = face
  PROVE  MembersFit(y)'
<1> SUFFICES ASSUME NEW i \in 1..Len(export[y].members), NEW e, e = export[y].members[i]
             PROVE  /\ Begun(export'[e[1]])
                    /\ engine'[e].alive => engine'[e].book = export[y].key.book
                    /\ export'[y].call[i] # Load =>
                         (engine'[e].alive => engine'[e].book = export[y].key.book
                                              /\ engine'[e].face >= export[y].key.face)
  BY DEF MembersFit, Fit
<1>1. /\ e \in Engines /\ e[1] \in Attempts /\ engine[e].face \in Nat /\ face \in Nat
      /\ export[y].key.face \in Nat /\ export[y].key.face <= face
  BY PoolInvTypes
<1>2. /\ Begun(export[e[1]])
      /\ engine[e].alive => engine[e].book = export[y].key.book
      /\ export[y].call[i] # Load =>
           (engine[e].alive => engine[e].book = export[y].key.book /\ engine[e].face >= export[y].key.face)
  BY DEF PoolInv, MembersOK, MembersFit, Fit
<1>3. engine'[e].alive => /\ engine[e].alive /\ engine'[e].book = engine[e].book
                          /\ engine'[e].face \in {engine[e].face, face}
  BY <1>1, <1>2 DEF Drift
<1> QED BY <1>1, <1>2, <1>3 DEF Evolve

LEMMA PoolStay ==
  ASSUME PoolInv, Drift, Evolve, face' \in Nat, face <= face', pool' \in {pool, NoPool}
  PROVE  PoolOK'
<1>1. CASE pool' = NoPool
  <2>1. NoPool \in PoolState
    <3>1. << >> \in Seq(Engines)
      OBVIOUS
    <3> QED BY <3>1, PoolAssumption DEF NoPool, NoKey, PoolState, Key
  <2> QED BY <1>1, <2>1 DEF PoolOK, NoPool, NoKey
<1>2. CASE pool' = pool
  <2>1. pool \in PoolState /\ pool.key.face <= face /\ pool.key.face \in Nat /\ face \in Nat
    BY PoolInvTypes DEF PoolInv, PoolOK
  <2>2. ASSUME NEW i \in 1..Len(pool.engines), NEW e, e = pool.engines[i]
        PROVE  Begun(export'[e[1]]) /\ (engine'[e].alive =>
                 engine'[e].book = pool.key.book /\ engine'[e].face >= pool.key.face)
    <3>1. /\ Begun(export[e[1]])
          /\ engine[e].alive => engine[e].book = pool.key.book /\ engine[e].face >= pool.key.face
      BY <2>2 DEF PoolInv, PoolOK, Fit
    <3>2. e \in Engines /\ e[1] \in Attempts /\ engine[e].face \in Nat
      BY <2>2, PoolInvTypes
    <3> QED BY <2>1, <3>1, <3>2 DEF Drift, Evolve
  <2> QED BY <1>2, <2>1, <2>2 DEF PoolOK, Fit
<1> QED BY <1>1, <1>2

LEMMA SavedStay ==
  ASSUME PoolInv, face' \in Nat, face <= face', UNCHANGED saved,
         \A y \in Attempts : export[y].phase = "saved" => export'[y] = export[y]
  PROVE  SavedOK'
<1> SUFFICES ASSUME NEW y \in Attempts, saved[y] # NoFile PROVE FileOf(y)'
  BY DEF PoolInv, SavedOK
<1>1. FileOf(y)
  BY DEF PoolInv, SavedOK
<1>2. export'[y] = export[y]
  BY <1>1 DEF FileOf
<1>3. export[y].key.face \in Nat /\ face \in Nat
  BY PoolInvTypes
<1>4. Faces(export[y], face) \subseteq Faces(export[y], face')
  BY <1>3 DEF Faces
<1> QED BY <1>1, <1>2, <1>4 DEF FileOf

\* One attempt goes on: its local variables become q.
LEMMA OneAttempt ==
  ASSUME PoolInv, Drift, UNCHANGED <<face, saved>>, pool' \in {pool, NoPool},
         engine' \in [Engines -> EngineState],
         \A e \in Engines : engine'[e].face <= face /\ (engine'[e].alive => engine'[e].book \in Books),
         NEW x \in Attempts, NEW q \in ExportState, Sound(q, face),
         export' = [export EXCEPT ![x] = q],
         Begun(export[x]) => Begun(q), export[x].phase # "saved",
         \/ q.members = << >>
         \/ /\ q.members = export[x].members /\ q.key = export[x].key
            /\ \A i \in 1..Len(export[x].members) : export[x].call[i] = Load =>
                 q.call[i] = Load \/ engine'[export[x].members[i]].face = face
  PROVE  AttemptsOK' /\ EnginesOK' /\ MembersOK' /\ PoolOK' /\ SavedOK'
<1>1. \A y \in Attempts : export'[y] = IF y = x THEN q ELSE export[y]
  BY DEF PoolInv, AttemptsOK
<1>2. Evolve
  BY <1>1 DEF Evolve
<1>3. AttemptsOK'
  BY <1>1 DEF PoolInv, AttemptsOK
<1>4. EnginesOK'
  BY DEF EnginesOK
<1>5. ASSUME NEW y \in Attempts PROVE MembersFit(y)'
  <2>1. CASE y = x /\ q.members = << >>
    BY <1>1, <2>1 DEF MembersFit
  <2>2. CASE y # x \/ q.members # << >>
    BY <1>1, <1>2, <2>2, MembersStay
  <2> QED BY <2>1, <2>2
<1>6. MembersOK'
  BY <1>5 DEF MembersOK
<1>7. PoolOK' /\ SavedOK'
  <2>1. face \in Nat
    BY PoolInvTypes
  <2> QED BY <1>1, <1>2, <2>1, PoolStay, SavedStay
<1> QED BY <1>3, <1>4, <1>6, <1>7

LEMMA EndedCases ==
  ASSUME PoolInv, NEW F \in SUBSET Attempts, NEW hit \in SUBSET Attempts,
         NEW how \in {"saved", "failed"}, export' = Ended(F, how, hit)
  PROVE  /\ export' \in [Attempts -> ExportState]
         /\ \A y \in Attempts :
              /\ Sound(export'[y], face)
              /\ export'[y] = IF y \in F THEN Over(export[y], how)
                              ELSE IF y \in hit THEN Over(export[y], "failed") ELSE export[y]
<1> SUFFICES ASSUME NEW y \in Attempts
             PROVE  /\ export'[y] \in ExportState /\ Sound(export'[y], face)
                    /\ export'[y] = IF y \in F THEN Over(export[y], how)
                                    ELSE IF y \in hit THEN Over(export[y], "failed") ELSE export[y]
  BY DEF Ended
<1>1. export'[y] = IF y \in F THEN Over(export[y], how)
                   ELSE IF y \in hit THEN Over(export[y], "failed") ELSE export[y]
  BY DEF Ended
<1>2. export[y] \in ExportState /\ Sound(export[y], face) /\ face \in Nat
  BY PoolInvTypes
<1> QED BY <1>1, <1>2, OverSound

\* Terminating the pool and ending whoever waits for it: nobody keeps a member without its book.
LEMMA KillPoolInv ==
  ASSUME PoolInv, NEW D \in SUBSET Engines, NEW F \in SUBSET Attempts, NEW how \in {"saved", "failed"},
         KillPool(D, F, how), face' \in 0..MaxFace, face <= face'
  PROVE  /\ AttemptsOK' /\ EnginesOK' /\ MembersOK' /\ PoolOK' /\ exporting' \in BOOLEAN
         /\ \A y \in Attempts :
              /\ y \in F => export'[y] = Over(export[y], how)
              /\ y \notin F => \/ export'[y] = export[y]
                               \/ /\ export[y].phase \in {"encode", "assemble"}
                                  /\ export'[y] = Over(export[y], "failed")
<1> DEFINE gone == D \cup PoolMembers
           hit == Rejected(gone) \ F
<1>0. face' \in Nat /\ face \in Nat
  BY PoolInvTypes, PoolAssumption
<1>1. hit \in SUBSET Attempts /\ \A y \in hit : export[y].phase \in {"encode", "assemble"}
  BY DEF Rejected
<1>2. /\ engine' = [e \in Engines |-> IF e \in gone THEN NoEngine ELSE engine[e]]
      /\ pool' = NoPool /\ export' = Ended(F, how, hit) /\ exporting' \in BOOLEAN
  BY DEF KillPool, Terminate, Unlock
<1> HIDE DEF hit, gone
<1>3. /\ export' \in [Attempts -> ExportState]
      /\ \A y \in Attempts :
           /\ Sound(export'[y], face)
           /\ export'[y] = IF y \in F THEN Over(export[y], how)
                           ELSE IF y \in hit THEN Over(export[y], "failed") ELSE export[y]
  BY <1>1, <1>2, EndedCases
<1>4. AttemptsOK'
  BY <1>0, <1>3, SoundLater DEF AttemptsOK
<1>5. \A e \in Engines : engine'[e] = NoEngine \/ engine'[e] = engine[e]
  BY <1>2
<1>6. EnginesOK'
  <2>1. NoEngine \in EngineState /\ NoEngine.face = 0 /\ ~NoEngine.alive
    BY PoolAssumption DEF NoEngine, EngineState
  <2>2. engine' \in [Engines -> EngineState]
    BY <1>2, <2>1, PoolInvTypes
  <2>3. ASSUME NEW e \in Engines PROVE engine'[e].face <= face' /\ (engine'[e].alive => engine'[e].book \in Books)
    <3>1. engine[e].face \in Nat /\ engine[e].face <= face /\ (engine[e].alive => engine[e].book \in Books)
      BY PoolInvTypes DEF PoolInv, EnginesOK
    <3> QED BY <1>0, <1>5, <2>1, <3>1
  <2> QED BY <2>2, <2>3 DEF EnginesOK
<1>7. Drift
  BY <1>5 DEF Drift, NoEngine
<1>8. \A y \in Attempts : export'[y] = export[y] \/ (export'[y].members = << >> /\ Begun(export'[y]))
  <2> SUFFICES ASSUME NEW y \in Attempts, export'[y] # export[y]
               PROVE  export'[y].members = << >> /\ Begun(export'[y])
    OBVIOUS
  <2>1. export[y] \in ExportState /\ Sound(export[y], face)
    BY PoolInvTypes
  <2>2. PICK h \in {"saved", "failed"} : export'[y] = Over(export[y], h)
    BY <1>3
  <2> QED BY <1>0, <2>1, <2>2, OverSound DEF Begun
<1>9. Evolve
  BY <1>8 DEF Evolve
<1>10. MembersOK'
  <2> SUFFICES ASSUME NEW y \in Attempts PROVE MembersFit(y)'
    BY DEF MembersOK
  <2>1. CASE export'[y] = export[y]
    BY <1>7, <1>9, <2>1, MembersStay
  <2>2. CASE export'[y].members = << >>
    BY <2>2 DEF MembersFit
  <2> QED BY <1>8, <2>1, <2>2
<1>11. PoolOK'
  BY <1>0, <1>2, <1>7, <1>9, PoolStay
<1> QED BY <1>1, <1>2, <1>3, <1>4, <1>6, <1>10, <1>11

-----------------------------------------------------------------------------
(* What one step does to one attempt, as far as its promise is concerned. *)

Waiting(r) == r.phase \in {"idle", "ping", "prepare", "ended"}
SameWork(x) ==
  export'[x].key = export[x].key /\ export'[x].results = export[x].results /\ saved'[x] = saved[x]

Rests(x) == export'[x] = export[x] /\ saved'[x] = saved[x]
Waits(x) == Waiting(export[x]) /\ Waiting(export'[x]) /\ SameWork(x)
Begins(x) == /\ Waiting(export[x]) /\ Busy(export'[x]) /\ export'[x].key.book \in Books
             /\ export'[x].results = export[x].results /\ saved'[x] = saved[x]
Works(x) == Busy(export[x]) /\ Busy(export'[x]) /\ SameWork(x)
Stores(x) ==
  /\ Busy(export[x]) /\ Busy(export'[x]) /\ export'[x].key = export[x].key /\ saved'[x] = saved[x]
  /\ \E s \in Spines, v \in Result :
       /\ export[x].results[s] = NoResult /\ v # NoResult /\ s < SpineCount[export[x].key.book]
       /\ export'[x].results = [export[x].results EXCEPT ![s] = v]
Fails(x) == /\ Busy(export[x]) /\ export'[x] = Over(export[x], "failed") /\ saved'[x] = saved[x]
Saves(x) == AssembleReply(x) /\ export'[x] = Over(export[x], "saved")

StepKind(x) ==
  Rests(x) \/ Waits(x) \/ Begins(x) \/ Works(x) \/ Stores(x) \/ Fails(x) \/ Saves(x)
StepKinds == \A y \in Attempts : StepKind(y)

-----------------------------------------------------------------------------
(* Initially, and one lemma per stretch of the page. *)

LEMMA PoolInvInit == Init => PoolInv
<1> SUFFICES ASSUME Init PROVE PoolInv
  OBVIOUS
<1> DEFINE r0 == [phase |-> "idle", hook |-> FALSE, custom |-> FALSE, key |-> [NoKey EXCEPT !.book = 1],
                  members |-> << >>, call |-> << >>, next |-> 0, results |-> NoResults]
<1>1. PageOK /\ exporting \in BOOLEAN
  <2>1. opening \in BOOLEAN /\ exporting \in BOOLEAN
    BY DEF Init
  <2>2. book \in {0, bookEpoch} /\ bookEpoch \in Books /\ face \in 0..MaxFace
    BY PoolAssumption DEF Init
  <2>3. ~opening
    BY DEF Init
  <2> QED BY <2>1, <2>2, <2>3 DEF PageOK
<1>2. r0 \in ExportState
  <2>1. NoResults \in [Spines -> Result \cup {NoResult}]
    BY DEF NoResults
  <2>2. [NoKey EXCEPT !.book = 1] \in Key
    BY PoolAssumption DEF NoKey, Key
  <2>3. << >> \in Seq(Engines) /\ << >> \in Seq(CallState)
    OBVIOUS
  <2> QED BY <2>1, <2>2, <2>3 DEF ExportState
<1>3. Sound(r0, 0)
  <2>1. \A s \in Spines : r0.results[s] = NoResult
    BY DEF NoResults
  <2>2. r0.key.face = 0 /\ r0.phase = "idle" /\ r0.hook = FALSE
    BY DEF NoKey
  <2> QED BY <2>1, <2>2
          DEF Sound, OffDuty, Staffed, Building, Encoding, Assembling, ResultsTrue, Busy, Begun
<1>4. export = [x \in Attempts |-> r0] /\ face = 0
  BY DEF Init
<1>5. AttemptsOK
  BY <1>2, <1>3, <1>4 DEF AttemptsOK
<1>6. MembersOK
  BY <1>4 DEF MembersOK, MembersFit
<1>7. EnginesOK
  <2>1. NoEngine \in EngineState /\ NoEngine.face = 0 /\ ~NoEngine.alive
    BY PoolAssumption DEF NoEngine, EngineState
  <2> QED BY <1>4, <2>1 DEF Init, EnginesOK
<1>8. PoolOK
  <2>1. NoPool \in PoolState
    <3>1. << >> \in Seq(Engines)
      OBVIOUS
    <3> QED BY <3>1, PoolAssumption DEF NoPool, NoKey, PoolState, Key
  <2> QED BY <1>4, <2>1 DEF Init, PoolOK, NoPool, NoKey
<1>9. SavedOK
  <2>1. NoFile \in SavedState
    <3>1. << >> \in Seq(Result)
      OBVIOUS
    <3> QED BY <3>1 DEF NoFile, SavedState
  <2> QED BY <2>1 DEF Init, SavedOK
<1> QED BY <1>1, <1>5, <1>6, <1>7, <1>8, <1>9 DEF PoolInv

\* The engines of attempts that go on are the ones they were.
LEMMA EnginesStay ==
  ASSUME PoolInv, NEW D \in SUBSET Engines, engine' = Terminate(D) \/ engine' = engine, UNCHANGED face
  PROVE  /\ Drift /\ engine' \in [Engines -> EngineState]
         /\ \A e \in Engines : engine'[e].face <= face /\ (engine'[e].alive => engine'[e].book \in Books)
<1>1. \A e \in Engines : engine'[e] = NoEngine \/ engine'[e] = engine[e]
  BY DEF Terminate
<1>2. NoEngine \in EngineState /\ NoEngine.face = 0 /\ ~NoEngine.alive
  BY PoolAssumption DEF NoEngine, EngineState
<1>3. engine' \in [Engines -> EngineState]
  BY <1>2, PoolInvTypes DEF Terminate, PoolInv, EnginesOK
<1>4. Drift
  BY <1>1, <1>2 DEF Drift
<1> QED BY <1>1, <1>2, <1>3, <1>4, PoolInvTypes DEF PoolInv, EnginesOK

\* Before an attempt has engines, and when it turns out to need none.
LEMMA BeforeEnginesStep ==
  ASSUME PoolInv, NEW x \in Attempts,
         Click(x) \/ PingReply(x) \/ NoPoolNeeded(x) \/ SerialInstead(x)
  PROVE  PoolInv' /\ StepKinds
<1>1. PICK h \in {"ping", "prepare", "ended"} : export' = [export EXCEPT ![x].phase = h]
  BY DEF Click, PingReply, NoPoolNeeded, SerialInstead
<1>2. /\ ~Begun(export[x]) /\ exporting' \in BOOLEAN /\ PageOK'
      /\ UNCHANGED <<page, pool, engine, saved>>
  <2>1. ~Begun(export[x]) /\ exporting' \in BOOLEAN /\ UNCHANGED <<page, pool, engine, saved>>
    BY DEF Click, PingReply, NoPoolNeeded, SerialInstead, Begun, Unlock, PoolInv
  <2>2. PageOK'
    BY <2>1 DEF PoolInv, PageOK, page
  <2> QED BY <2>1, <2>2
<1> DEFINE q == [export[x] EXCEPT !.phase = h]
<1>3. export[x] \in ExportState /\ Sound(export[x], face)
  BY PoolInvTypes
<1>4. /\ q.phase = h /\ q.members = << >> /\ q.call = << >> /\ q.results = NoResults /\ ~q.hook
      /\ q.key = export[x].key
  BY <1>2, <1>3 DEF ExportState, Sound, OffDuty, Busy, Begun
<1>5. q \in ExportState /\ export' = [export EXCEPT ![x] = q]
  BY <1>1, <1>3 DEF ExportState
<1>6. Sound(q, face)
  <2>1. \A s \in Spines : q.results[s] = NoResult
    BY <1>4 DEF NoResults
  <2>2. q.key.face <= face
    BY <1>3, <1>4 DEF Sound
  <2> HIDE DEF q
  <2> QED BY <1>4, <2>1, <2>2
          DEF Sound, OffDuty, Staffed, Building, Encoding, Assembling, ResultsTrue, Busy, Begun
<1> HIDE DEF q
<1>7. /\ Drift /\ engine' \in [Engines -> EngineState]
      /\ \A e \in Engines : engine'[e].face <= face /\ (engine'[e].alive => engine'[e].book \in Books)
  BY <1>2, EnginesStay DEF page
<1>8. AttemptsOK' /\ EnginesOK' /\ MembersOK' /\ PoolOK' /\ SavedOK'
  BY <1>2, <1>4, <1>5, <1>6, <1>7, OneAttempt DEF Begun, page
<1>9. StepKinds
  <2>1. \A y \in Attempts : export'[y] = IF y = x THEN q ELSE export[y]
    BY <1>5 DEF PoolInv, AttemptsOK
  <2>2. Waits(x)
    BY <1>2, <1>3, <1>4, <2>1 DEF Waits, Waiting, SameWork, Begun, Sound, OffDuty, Busy, ExportState
  <2> QED BY <1>2, <2>1, <2>2 DEF StepKinds, StepKind, Rests
<1> QED BY <1>2, <1>8, <1>9 DEF PoolInv

\* What the page has now is what a pool is asked for.
LEMMA IdentityFacts ==
  ASSUME PoolInv, book # 0
  PROVE  /\ book \in Books /\ bookEpoch = book /\ PoolIdentity \in Key /\ PoolIdentity.book = book
         /\ PoolIdentity.face = face /\ PoolIdentity.size = Want
         /\ Want \in 1..SpineCount[book] /\ Want \in 1..PoolSize
<1>1. book \in Books /\ bookEpoch = book /\ face \in 0..MaxFace
  BY DEF PoolInv, PageOK
<1>2. SpineCount[book] \in Nat \ {0} /\ PoolSize \in Nat \ {0}
  BY <1>1, PoolAssumption
<1>3. Want \in 1..SpineCount[book] /\ Want \in 1..PoolSize
  BY <1>2 DEF Want
<1> QED BY <1>1, <1>2, <1>3 DEF PoolIdentity, Key

LEMMA CustomSpecType == CustomSpec \subseteq BOOLEAN
BY DEF CustomSpec

LEMMA ReusePoolStep ==
  ASSUME PoolInv, NEW x \in Attempts, export[x].phase \in {"idle", "prepare"}, book # 0,
         NEW hook \in BOOLEAN, ReusePool(x, hook), UNCHANGED <<page, saved>>
  PROVE  PoolInv' /\ StepKinds
<1> DEFINE r == [export[x] EXCEPT !.hook = hook, !.key = PoolIdentity, !.members = pool.engines]
<1>1. PICK custom \in CustomSpec : export' = [export EXCEPT ![x] = Dispatched(r, custom)]
  BY DEF ReusePool
<1>2. export[x] \in ExportState /\ Sound(export[x], face) /\ ~Begun(export[x]) /\ face \in Nat
  BY PoolInvTypes DEF Begun
<1>3. pool.key = PoolIdentity /\ Len(pool.engines) = Want /\ pool.engines \in Seq(Engines)
  BY DEF ReusePool, Fits, PoolInv, PoolOK, PoolState
<1>4. /\ r.key = PoolIdentity /\ r.members = pool.engines /\ r.results = NoResults
      /\ r \in ExportState
  BY <1>2, <1>3, IdentityFacts DEF ExportState, Sound, OffDuty, Busy, Begun
<1> DEFINE q == Dispatched(r, custom)
<1>5. /\ q \in ExportState /\ Sound(q, face) /\ q.phase = "encode" /\ q.members = pool.engines
      /\ q.key = PoolIdentity /\ q.results = export[x].results
  <2>1. /\ custom \in BOOLEAN /\ r.key.book \in Books /\ Len(r.members) \in 1..SpineCount[r.key.book]
        /\ r.key.face <= face
    BY <1>2, <1>3, <1>4, IdentityFacts, CustomSpecType
  <2>2. export[x].results = NoResults
    BY <1>2 DEF Sound, OffDuty, Busy, Begun
  <2> HIDE DEF r
  <2> QED BY <1>2, <1>4, <2>1, <2>2, DispatchedSound
<1> HIDE DEF q, r
<1>6. \A y \in Attempts : export'[y] = IF y = x THEN q ELSE export[y]
  BY <1>1 DEF PoolInv, AttemptsOK, q
<1>7. UNCHANGED <<face, engine, pool, exporting, saved, page>>
  BY DEF ReusePool, page
<1>8. Drift /\ Evolve
  BY <1>2, <1>5, <1>6, <1>7 DEF Drift, Evolve, Begun
<1>9. AttemptsOK'
  <2>1. export' \in [Attempts -> ExportState]
    BY <1>1, <1>5 DEF PoolInv, AttemptsOK, q
  <2> QED BY <1>5, <1>6, <1>7, <2>1 DEF PoolInv, AttemptsOK
<1>10. MembersOK'
  <2> SUFFICES ASSUME NEW y \in Attempts PROVE MembersFit(y)'
    BY DEF MembersOK
  <2>1. CASE y # x
    BY <1>6, <1>8, <2>1, MembersStay
  <2>2. CASE y = x
    <3> SUFFICES ASSUME NEW i \in 1..Len(pool.engines)
                 PROVE  /\ Begun(export'[pool.engines[i][1]])
                        /\ Fit(pool.engines[i], pool.key)
      BY <1>3, <1>5, <1>6, <1>7, <2>2 DEF MembersFit, Fit
    <3>1. Begun(export[pool.engines[i][1]]) /\ Fit(pool.engines[i], pool.key)
      BY DEF PoolInv, PoolOK
    <3> QED BY <1>8, <3>1, PoolInvTypes DEF Evolve
  <2> QED BY <2>1, <2>2
<1>11. PoolOK' /\ SavedOK'
  BY <1>2, <1>6, <1>7, <1>8, PoolStay, SavedStay DEF Begun
<1>12. EnginesOK' /\ PageOK' /\ exporting' \in BOOLEAN
  BY <1>7 DEF PoolInv, EnginesOK, PageOK, page
<1>13. StepKinds
  <2>1. Begins(x)
    BY <1>5, <1>6, <1>7, IdentityFacts DEF Begins, Waiting, Busy
  <2> QED BY <1>6, <1>7, <2>1 DEF StepKinds, StepKind, Rests
<1> QED BY <1>9, <1>10, <1>11, <1>12, <1>13 DEF PoolInv

LEMMA BuildPoolStep ==
  ASSUME PoolInv, NEW x \in Attempts, export[x].phase \in {"idle", "prepare"}, book # 0,
         NEW hook \in BOOLEAN, BuildPool(x, hook), UNCHANGED <<page, saved>>
  PROVE  PoolInv' /\ StepKinds
<1> DEFINE hit == Rejected(PoolMembers)
           fresh == [i \in 1..Want |-> <<x, i>>]
           calls == [i \in 1..Want |-> Load]
           q == [export[x] EXCEPT !.phase = "build", !.hook = hook, !.key = PoolIdentity,
                                  !.members = fresh, !.call = calls]
<1>1. export[x] \in ExportState /\ Sound(export[x], face) /\ ~Begun(export[x]) /\ face \in Nat
  BY PoolInvTypes DEF Begun
<1>2. hit \in SUBSET Attempts /\ (\A y \in hit : export[y].phase \in {"encode", "assemble"}) /\ x \notin hit
  BY DEF Rejected
<1>3. /\ pool' = NoPool /\ exporting' \in BOOLEAN /\ UNCHANGED <<page, face, saved>>
      /\ engine' = [e \in Engines |-> IF \E i \in 1..Want : e = fresh[i]
                                      THEN [alive |-> TRUE, book |-> book, face |-> 0]
                                      ELSE Terminate(PoolMembers)[e]]
      /\ export' = [Ended({}, "failed", hit) EXCEPT ![x] =
           [@ EXCEPT !.phase = "build", !.hook = hook, !.key = PoolIdentity, !.members = fresh,
                     !.call = calls]]
  BY DEF BuildPool, Unlock, page
<1>4. Want \in Nat /\ Want >= 1 /\ \A i \in 1..Want : <<x, i>> \in Engines
  BY IdentityFacts, PoolAssumption DEF Engines
<1>5. fresh \in Seq(Engines) /\ Len(fresh) = Want /\ \A i \in 1..Want : fresh[i] = <<x, i>>
  BY <1>4
<1>6. calls \in Seq(CallState) /\ Len(calls) = Want /\ \A i \in 1..Want : calls[i] = Load
  BY <1>4 DEF CallState
<1> HIDE DEF hit, fresh, calls
<1>7. /\ q.phase = "build" /\ q.key = PoolIdentity /\ q.members = fresh /\ q.call = calls
      /\ q.results = NoResults /\ q \in ExportState
  BY <1>1, <1>5, <1>6, IdentityFacts DEF ExportState, Sound, OffDuty, Busy, Begun
<1>8. \A y \in Attempts : export'[y] = IF y = x THEN q
                                       ELSE IF y \in hit THEN Over(export[y], "failed") ELSE export[y]
  BY <1>2, <1>3 DEF Ended
<1> HIDE DEF q
<1>9. Sound(q, face)
  <2>1. \A s \in Spines : q.results[s] = NoResult
    BY <1>7 DEF NoResults
  <2>2. q.key.book \in Books /\ q.key.face <= face /\ Len(q.members) \in 1..SpineCount[q.key.book]
    BY <1>1, <1>5, <1>7, IdentityFacts
  <2> QED BY <1>5, <1>6, <1>7, <2>1, <2>2
          DEF Sound, OffDuty, Staffed, Building, Encoding, Assembling, ResultsTrue, Busy, Begun
<1>10. \A y \in Attempts : y # x => \/ export'[y] = export[y]
                                    \/ export'[y].members = << >> /\ Begun(export'[y])
  BY <1>1, <1>8, OverSound, PoolInvTypes DEF Begun
<1>11. AttemptsOK'
  <2>1. export' \in [Attempts -> ExportState] /\ \A y \in Attempts : Sound(export'[y], face)
    <3>1. \A y \in Attempts : export'[y] \in ExportState /\ Sound(export'[y], face)
      BY <1>1, <1>7, <1>8, <1>9, OverSound, PoolInvTypes
    <3>2. export' = [y \in Attempts |-> export'[y]]
      BY <1>3 DEF Ended
    <3> QED BY <3>1, <3>2
  <2> QED BY <1>3, <2>1 DEF AttemptsOK
<1>12. \A e \in Engines : IF e[1] = x THEN \/ engine'[e] = [alive |-> TRUE, book |-> book, face |-> 0]
                                           \/ engine'[e] = NoEngine \/ engine'[e] = engine[e]
                                      ELSE engine'[e] = NoEngine \/ engine'[e] = engine[e]
  BY <1>3, <1>5 DEF Terminate, Engines
<1>13. Drift
  BY <1>1, <1>12 DEF Drift, NoEngine
<1>14. Evolve
  BY <1>7, <1>10 DEF Evolve, Begun
<1>15. EnginesOK'
  <2>1. NoEngine \in EngineState /\ NoEngine.face = 0 /\ ~NoEngine.alive
    BY PoolAssumption DEF NoEngine, EngineState
  <2>2. [alive |-> TRUE, book |-> book, face |-> 0] \in EngineState /\ book \in Books
    BY IdentityFacts, PoolAssumption DEF EngineState
  <2>3. engine' \in [Engines -> EngineState]
    BY <1>3, <1>12, <2>1, <2>2, PoolInvTypes
  <2>4. ASSUME NEW e \in Engines
        PROVE  engine'[e].face <= face' /\ (engine'[e].alive => engine'[e].book \in Books)
    <3>1. engine[e].face <= face /\ (engine[e].alive => engine[e].book \in Books)
      BY DEF PoolInv, EnginesOK
    <3>2. \/ engine'[e] = [alive |-> TRUE, book |-> book, face |-> 0]
          \/ engine'[e] = NoEngine \/ engine'[e] = engine[e]
      BY <1>12
    <3> QED BY <1>1, <1>3, <2>1, <2>2, <3>1, <3>2
  <2> QED BY <2>3, <2>4 DEF EnginesOK
<1>16. MembersOK'
  <2> SUFFICES ASSUME NEW y \in Attempts PROVE MembersFit(y)'
    BY DEF MembersOK
  <2>1. CASE y # x /\ export'[y] = export[y]
    BY <1>13, <1>14, <2>1, MembersStay
  <2>2. CASE y # x /\ export'[y].members = << >>
    BY <2>2 DEF MembersFit
  <2>3. CASE y = x
    <3>1. ASSUME NEW i \in 1..Want PROVE engine'[<<x, i>>] = [alive |-> TRUE, book |-> book, face |-> 0]
      BY <1>3, <1>4, <1>5, <3>1
    <3>2. export'[y] = q /\ Begun(q) /\ q.key.book = book /\ Len(q.members) = Want
      BY <1>5, <1>7, <1>8, <2>3, IdentityFacts DEF Begun
    <3>3. \A i \in 1..Want : q.members[i] = <<x, i>> /\ q.call[i] = Load
      BY <1>5, <1>6, <1>7
    <3> SUFFICES ASSUME NEW i \in 1..Want
                 PROVE  /\ Begun(export'[q.members[i][1]])
                        /\ engine'[q.members[i]].alive => engine'[q.members[i]].book = q.key.book
                        /\ q.call[i] = Load
      BY <2>3, <3>2 DEF MembersFit
    <3>4. q.members[i] = <<x, i>> /\ q.members[i][1] = x /\ q.call[i] = Load
      BY <3>3
    <3>5. Begun(export'[x])
      BY <2>3, <3>2
    <3> QED BY <3>1, <3>2, <3>4, <3>5
  <2> QED BY <1>10, <2>1, <2>2, <2>3
<1>17. PoolOK' /\ SavedOK'
  <2>1. \A y \in Attempts : export[y].phase = "saved" => export'[y] = export[y]
    BY <1>1, <1>2, <1>8 DEF Begun
  <2> QED BY <1>1, <1>3, <1>13, <1>14, <2>1, PoolStay, SavedStay
<1>18. StepKinds
  <2>1. Begins(x)
    <3>1. export[x].results = NoResults
      BY <1>1 DEF Sound, OffDuty, Busy, Begun
    <3> QED BY <1>3, <1>7, <1>8, <3>1, IdentityFacts DEF Begins, Waiting, Busy
  <2>2. ASSUME NEW y \in Attempts, y # x PROVE Rests(y) \/ Fails(y)
    BY <1>2, <1>3, <1>8, <2>2 DEF Rests, Fails, Busy
  <2> QED BY <2>1, <2>2 DEF StepKinds, StepKind
<1> QED BY <1>3, <1>11, <1>15, <1>16, <1>17, <1>18 DEF PoolInv, PageOK, page

\* A member goes on loading.
LEMMA LoadStep ==
  ASSUME PoolInv, NEW x \in Attempts, NEW i \in 1..PoolSize, LoadReply(x, i) \/ LoadFontReply(x, i)
  PROVE  PoolInv' /\ StepKinds
<1> DEFINE r == export[x]
           e == r.members[i]
<1>1. PICK c \in {LoadFont, Stats} : export' = [export EXCEPT ![x].call[i] = c]
  BY DEF LoadReply, LoadFontReply
<1>2. /\ r \in ExportState /\ i \in 1..Len(r.call) /\ Len(r.call) = Len(r.members)
      /\ Len(r.call) \in Nat /\ e \in Engines /\ r.phase = "build" /\ r.call \in Seq(CallState)
  BY CallPhase DEF LoadReply, LoadFontReply, ExportState
<1>3. engine[e].alive /\ UNCHANGED <<page, exporting, pool, saved>>
  BY DEF LoadReply, LoadFontReply, Answers
<1>4. \/ engine' = [engine EXCEPT ![e].face = face]
      \/ engine' = engine /\ r.call[i].cmd = "loadFont"
  BY DEF LoadReply, LoadFontReply, Calls
<1> DEFINE q == [r EXCEPT !.call[i] = c]
<1>5. Sound(r, face)
  BY PoolInvTypes
<1>6. /\ q.phase = "build" /\ q.members = r.members /\ q.key = r.key /\ q.results = r.results
      /\ q.call = [r.call EXCEPT ![i] = c] /\ q.hook = r.hook /\ q.custom = r.custom
  BY <1>2 DEF ExportState
<1>7. /\ q.call \in Seq(CallState) /\ Len(q.call) = Len(r.call)
      /\ \A j \in 1..Len(r.call) : q.call[j] = IF j = i THEN c ELSE r.call[j]
  <2>1. c \in CallState
    BY DEF CallState
  <2> QED BY <1>2, <1>6, <2>1, SeqUpdate
<1>8. q \in ExportState
  BY <1>2, <1>6, <1>7 DEF ExportState
<1>9. export' = [export EXCEPT ![x] = q]
  BY <1>1, <1>2 DEF PoolInv, AttemptsOK
<1> HIDE DEF q
<1>10. Sound(q, face)
  <2>1. Building(q)
    BY <1>2, <1>5, <1>6, <1>7 DEF Sound, Building
  <2> QED BY <1>2, <1>5, <1>6, <1>7, <2>1
          DEF Sound, OffDuty, Staffed, Encoding, Assembling, ResultsTrue, Faces, Busy, Begun
<1>11. \A d \in Engines : IF d = e THEN /\ engine'[d].alive /\ engine'[d].book = engine[d].book
                                        /\ engine'[d].face \in {engine[d].face, face}
                                   ELSE engine'[d] = engine[d]
  BY <1>2, <1>3, <1>4, PoolInvTypes DEF PoolInv, EnginesOK, EngineState
<1>12. Drift
  BY <1>3, <1>11 DEF Drift
<1>13. /\ engine' \in [Engines -> EngineState]
       /\ \A d \in Engines : engine'[d].face <= face /\ (engine'[d].alive => engine'[d].book \in Books)
  <2>1. face \in 0..MaxFace
    BY DEF PoolInv, PageOK
  <2>2. engine' \in [Engines -> EngineState]
    BY <1>2, <1>4, <2>1 DEF PoolInv, EnginesOK, EngineState
  <2>3. ASSUME NEW d \in Engines
        PROVE  engine'[d].face <= face /\ (engine'[d].alive => engine'[d].book \in Books)
    <3>1. engine[d].face <= face /\ (engine[d].alive => engine[d].book \in Books)
      BY DEF PoolInv, EnginesOK
    <3>2. engine'[d] = engine[d] \/ (d = e /\ engine'[d].book = engine[d].book /\ engine'[d].face \in {engine[d].face, face})
      BY <1>11
    <3> QED BY <1>3, <2>1, <3>1, <3>2, PoolInvTypes
  <2> QED BY <2>2, <2>3
<1>14. \A j \in 1..Len(r.members) : r.call[j] = Load => q.call[j] = Load \/ engine'[r.members[j]].face = face
  <2> SUFFICES ASSUME r.call[i] = Load PROVE engine'[e].face = face
    BY <1>2, <1>7
  <2>1. engine' = [engine EXCEPT ![e].face = face]
    BY <1>4 DEF Load
  <2> QED BY <1>2, <2>1 DEF PoolInv, EnginesOK, EngineState
<1>15. AttemptsOK' /\ EnginesOK' /\ MembersOK' /\ PoolOK' /\ SavedOK'
  BY <1>2, <1>3, <1>6, <1>8, <1>9, <1>10, <1>12, <1>13, <1>14, OneAttempt DEF page, Begun
<1>16. StepKinds
  <2>1. \A y \in Attempts : export'[y] = IF y = x THEN q ELSE export[y]
    BY <1>9 DEF PoolInv, AttemptsOK
  <2>2. Works(x)
    BY <1>2, <1>3, <1>6, <2>1 DEF Works, SameWork, Busy
  <2> QED BY <1>3, <2>1, <2>2 DEF StepKinds, StepKind, Rests
<1> QED BY <1>3, <1>15, <1>16 DEF PoolInv, PageOK, page

\* The last member to load completes the pool: each one has the book and a face not older than the
\* one the pool is known by.
LEMMA StatsStep ==
  ASSUME PoolInv, NEW x \in Attempts, NEW i \in 1..PoolSize, StatsReply(x, i) \/ StatsLost(x, i)
  PROVE  PoolInv' /\ StepKinds
<1> DEFINE r == export[x]
           l == [r EXCEPT !.call[i] = NoCall]
<1>1. /\ r \in ExportState /\ i \in 1..Len(r.call) /\ Len(r.call) = Len(r.members)
      /\ Len(r.call) \in Nat /\ r.members[i] \in Engines /\ r.phase = "build" /\ r.call \in Seq(CallState)
      /\ r.call[i] = Stats /\ UNCHANGED <<page, exporting, saved>> /\ MemberLoaded(x, i)
  <2>1. Calls(x, i, "stats") /\ UNCHANGED <<page, exporting, saved>> /\ MemberLoaded(x, i)
    BY DEF StatsReply, StatsLost
  <2> QED BY <2>1, CallPhase, CallFacts DEF Calls, ExportState
<1>2. PICK D \in SUBSET Engines : engine' = Terminate(D) \/ engine' = engine
  <2>1. {r.members[i]} \in SUBSET Engines
    BY <1>1
  <2> QED BY <2>1 DEF StatsReply, StatsLost
<1>3. /\ Drift /\ engine' \in [Engines -> EngineState]
      /\ \A e \in Engines : engine'[e].face <= face /\ (engine'[e].alive => engine'[e].book \in Books)
  BY <1>1, <1>2, EnginesStay DEF page
<1>4. Sound(r, face) /\ face \in Nat
  BY PoolInvTypes
<1>5. /\ l.phase = "build" /\ l.members = r.members /\ l.key = r.key /\ l.results = r.results
      /\ l.call = [r.call EXCEPT ![i] = NoCall] /\ l.hook = r.hook /\ l.custom = r.custom
  BY <1>1 DEF ExportState
<1>6. /\ l.call \in Seq(CallState) /\ Len(l.call) = Len(r.call)
      /\ \A j \in 1..Len(r.call) : l.call[j] = IF j = i THEN NoCall ELSE r.call[j]
  <2>1. NoCall \in CallState
    BY DEF CallState
  <2> QED BY <1>1, <1>5, <2>1, SeqUpdate
<1>7. l \in ExportState
  BY <1>1, <1>5, <1>6 DEF ExportState
<1>8. CASE \E j \in 1..Len(l.call) : l.call[j] # NoCall
  <2>1. export' = [export EXCEPT ![x] = l] /\ pool' = pool
    BY <1>1, <1>8 DEF MemberLoaded
  <2> HIDE DEF l
  <2>2. Sound(l, face)
    <3>1. Building(l)
      BY <1>1, <1>4, <1>5, <1>6 DEF Sound, Building
    <3> QED BY <1>1, <1>4, <1>5, <1>6, <3>1
            DEF Sound, OffDuty, Staffed, Encoding, Assembling, ResultsTrue, Faces, Busy, Begun
  <2>3. \A j \in 1..Len(r.members) : r.call[j] = Load => l.call[j] = Load
    BY <1>1, <1>6, CallsDiffer
  <2>4. AttemptsOK' /\ EnginesOK' /\ MembersOK' /\ PoolOK' /\ SavedOK'
    BY <1>1, <1>3, <1>5, <1>7, <2>1, <2>2, <2>3, OneAttempt DEF page, Begun
  <2>5. StepKinds
    <3>1. \A y \in Attempts : export'[y] = IF y = x THEN l ELSE export[y]
      BY <2>1 DEF PoolInv, AttemptsOK
    <3>2. Works(x)
      BY <1>1, <1>5, <3>1 DEF Works, SameWork, Busy
    <3> QED BY <1>1, <3>1, <3>2 DEF StepKinds, StepKind, Rests
  <2> QED BY <1>1, <2>4, <2>5 DEF PoolInv, PageOK, page
<1>9. CASE ~ \E j \in 1..Len(l.call) : l.call[j] # NoCall
  <2>1. PICK custom \in CustomSpec :
          export' = [export EXCEPT ![x] = Dispatched(l, custom)] /\ pool' = [engines |-> r.members, key |-> r.key]
    BY <1>1, <1>5, <1>9 DEF MemberLoaded
  <2> DEFINE q == Dispatched(l, custom)
  <2>2. /\ q \in ExportState /\ Sound(q, face) /\ q.phase = "encode" /\ q.members = r.members
        /\ q.key = r.key /\ q.results = r.results
    <3>1. /\ custom \in BOOLEAN /\ l.key.book \in Books /\ Len(l.members) \in 1..SpineCount[l.key.book]
          /\ l.key.face <= face /\ l.results = NoResults
      BY <1>1, <1>4, <1>5, CustomSpecType DEF Sound, Staffed, Building, Busy
    <3> HIDE DEF l
    <3> QED BY <1>4, <1>5, <1>7, <3>1, DispatchedSound
  <2> HIDE DEF q
  <2>3. \A j \in 1..Len(r.call) : r.call[j] # Load
    BY <1>6, <1>9, <1>1, CallsDiffer
  <2> HIDE DEF l
  <2>4. export' = [export EXCEPT ![x] = q] /\ UNCHANGED <<face, saved>>
    BY <1>1, <2>1 DEF q, page
  <2>5. \A y \in Attempts : export'[y] = IF y = x THEN q ELSE export[y]
    BY <2>4 DEF PoolInv, AttemptsOK
  <2>6. Evolve
    BY <2>2, <2>5 DEF Evolve, Begun
  <2>7. AttemptsOK'
    BY <2>2, <2>4, <2>5 DEF PoolInv, AttemptsOK
  <2>8. MembersOK'
    <3> SUFFICES ASSUME NEW y \in Attempts PROVE MembersFit(y)'
      BY DEF MembersOK
    <3>1. CASE y # x
      BY <1>3, <2>5, <2>6, <3>1, MembersStay
    <3>2. CASE y = x
      BY <1>1, <1>3, <2>2, <2>3, <2>5, <2>6, <3>2, MembersStay
    <3> QED BY <3>1, <3>2
  <2>9. PoolOK'
    <3>1. pool'.engines = r.members /\ pool'.key = r.key
      BY <2>1
    <3>2. pool' \in PoolState
      BY <1>1, <2>1 DEF PoolState, ExportState
    <3>3. r.key.face <= face'
      BY <2>4, PoolInvTypes
    <3>4. MembersFit(x)' /\ export'[x].members = r.members /\ export'[x].key = r.key
      BY <2>2, <2>5, <2>8 DEF MembersOK
    <3>5. \A j \in 1..Len(r.members) : q.call[j] # Load
      <4>1. /\ q.phase = "encode" /\ Len(q.call) = Len(r.members)
            /\ \A j \in 1..Len(q.call) : q.call[j] = NoCall \/ \E s \in Spines : q.call[j] = EncodeSpine(s)
        BY <2>2 DEF Sound, Encoding
      <4> QED BY <4>1, CallsDiffer
    <3>6. ASSUME NEW j \in 1..Len(r.members)
          PROVE  /\ Begun(export'[r.members[j][1]])
                 /\ engine'[r.members[j]].alive => /\ engine'[r.members[j]].book = r.key.book
                                                  /\ engine'[r.members[j]].face >= r.key.face
      BY <2>5, <3>4, <3>5 DEF MembersFit, Fit
    <3> QED BY <3>1, <3>2, <3>3, <3>6 DEF PoolOK, Fit
  <2>10. EnginesOK' /\ SavedOK'
    <3>1. face' \in Nat /\ face <= face'
      BY <1>4, <2>4
    <3>2. \A y \in Attempts : export[y].phase = "saved" => export'[y] = export[y]
      BY <1>1, <2>5
    <3> QED BY <1>3, <2>4, <3>1, <3>2, SavedStay DEF EnginesOK
  <2>11. StepKinds
    <3>1. Works(x)
      BY <1>1, <2>2, <2>5 DEF Works, SameWork, Busy
    <3> QED BY <1>1, <2>5, <3>1 DEF StepKinds, StepKind, Rests
  <2> QED BY <1>1, <2>7, <2>8, <2>9, <2>10, <2>11 DEF PoolInv, PageOK, page
<1> QED BY <1>8, <1>9

\* A reply stores a spine laid out from the attempt's book, with a face it may use.
LEMMA EncodeReplyStep ==
  ASSUME PoolInv, NEW x \in Attempts, NEW i \in 1..PoolSize, EncodeReply(x, i)
  PROVE  PoolInv' /\ StepKinds
<1> DEFINE r == export[x]
           e == r.members[i]
           s == r.call[i].spine
           v == Encoded(r, s, e)
           q == AssembleWhenDone(Pull([r EXCEPT !.results[s] = v], i))
<1>1. /\ r \in ExportState /\ i \in 1..Len(r.call) /\ Len(r.call) = Len(r.members)
      /\ Len(r.call) \in Nat /\ e \in Engines /\ r.phase = "encode"
      /\ s \in Spines /\ r.call[i] = EncodeSpine(s)
  BY CallPhase, CallFacts DEF EncodeReply, Calls
<1>2. /\ engine[e].alive /\ (r.custom => engine[e].face > 0)
      /\ export' = [export EXCEPT ![x] = q] /\ UNCHANGED <<page, exporting, pool, engine, saved>>
  BY DEF EncodeReply, Answers, Store
<1>3. Sound(r, face) /\ face \in Nat /\ face \in 0..MaxFace /\ r.key.face \in Nat
  BY PoolInvTypes DEF PoolInv, PageOK
<1>4. /\ engine[e].book = r.key.book /\ engine[e].face >= r.key.face
      /\ engine[e].face <= face /\ engine[e].book \in Books /\ engine[e].face \in Nat
  <2>1. r.call[i] # Load
    BY <1>1, CallsDiffer
  <2> QED BY <1>1, <1>2, <2>1, PoolInvTypes DEF PoolInv, MembersOK, MembersFit, Fit, EnginesOK
<1>5. v \in Result /\ v.spine = s /\ v.book = r.key.book /\ v.face \in Faces(r, face)
  <2>1. v.face = IF r.custom THEN engine[e].face ELSE 0
    BY DEF Encoded
  <2>2. v.face \in Faces(r, face) /\ v.face \in 0..MaxFace
    <3>1. CASE r.custom
      <4>1. v.face = engine[e].face
        BY <2>1, <3>1
      <4>2. Faces(r, face) = r.key.face .. face
        BY <3>1 DEF Faces
      <4>3. engine[e].face \in r.key.face .. face /\ engine[e].face \in 0..MaxFace
        BY <1>3, <1>4, PoolAssumption
      <4> QED BY <4>1, <4>2, <4>3
    <3>2. CASE ~r.custom
      BY <1>3, <2>1, <3>2, PoolAssumption DEF Faces
    <3> QED BY <3>1, <3>2
  <2> QED BY <1>1, <1>4, <2>1, <2>2 DEF Encoded, Result
<1>6. /\ q \in ExportState /\ Sound(q, face) /\ q.members = r.members /\ q.key = r.key
      /\ q.phase \in {"encode", "assemble"}
      /\ r.results[s] = NoResult /\ q.results = [r.results EXCEPT ![s] = v] /\ v # NoResult
  <2> HIDE DEF v, s
  <2> QED BY <1>1, <1>3, <1>5, EncodedSound
<1>7. s < SpineCount[r.key.book]
  <2>1. /\ r.next \in Nat /\ r.next <= SpineCount[r.key.book] /\ SpineCount[r.key.book] \in Nat
        /\ r.call[i] = NoCall \/ \E t \in Spines : t < r.next /\ r.call[i] = EncodeSpine(t)
    BY <1>1, <1>3, SpinesFacts DEF Sound, Encoding, Staffed, Busy, ExportState
  <2>2. s < r.next /\ s \in Nat
    BY <1>1, <2>1, CallsDiffer, SpinesFacts
  <2> QED BY <2>1, <2>2
<1> HIDE DEF q, s, v
<1>8. \A j \in 1..Len(r.members) : r.call[j] # Load
  BY <1>1, <1>3, CallsDiffer DEF Sound, Encoding
<1>9. /\ Drift /\ engine' \in [Engines -> EngineState]
      /\ \A d \in Engines : engine'[d].face <= face /\ (engine'[d].alive => engine'[d].book \in Books)
  BY <1>2, EnginesStay DEF page
<1>10. AttemptsOK' /\ EnginesOK' /\ MembersOK' /\ PoolOK' /\ SavedOK'
  BY <1>1, <1>2, <1>6, <1>8, <1>9, OneAttempt DEF page, Begun
<1>11. PoolInv'
  BY <1>2, <1>10 DEF PoolInv, PageOK, page
<1>12. \A y \in Attempts : export'[y] = IF y = x THEN q ELSE export[y]
  BY <1>2 DEF PoolInv, AttemptsOK
<1>13. Stores(x)
  BY <1>1, <1>2, <1>5, <1>6, <1>7, <1>12 DEF Stores, Busy
<1> QED BY <1>2, <1>11, <1>12, <1>13 DEF StepKinds, StepKind, Rests

\* An attempt fails, with or without its engines.
LEMMA FailStep ==
  ASSUME PoolInv, NEW x \in Attempts, NEW i \in 1..PoolSize, NEW lost \in BOOLEAN,
         BuildFails(x, i) \/ EncodeFails(x, i, lost) \/ AssembleFails(x, lost)
  PROVE  PoolInv' /\ StepKinds
<1>1. /\ Busy(export[x]) /\ export[x] \in ExportState
      /\ Members(x) \in SUBSET Engines /\ UNCHANGED <<page, saved>>
      /\ BuildFails(x, i) \/ EncodeFails(x, i, lost) => export[x].members[i] \in Engines
      /\ AssembleFails(x, lost) => export[x].members[1] \in Engines
  BY CallPhase, PoolInvTypes DEF BuildFails, EncodeFails, AssembleFails, Busy, Members
<1>2. face' \in 0..MaxFace /\ face <= face' /\ face' = face /\ face' \in Nat
  BY <1>1, PoolInvTypes DEF page, PoolInv, PageOK
<1>3. PageOK'
  BY <1>1 DEF PoolInv, PageOK, page
<1>4. ASSUME NEW D \in SUBSET Engines, KillPool(D, {x}, "failed") PROVE PoolInv' /\ StepKinds
  <2>1. /\ AttemptsOK' /\ EnginesOK' /\ MembersOK' /\ PoolOK' /\ exporting' \in BOOLEAN
        /\ export'[x] = Over(export[x], "failed")
        /\ \A y \in Attempts : y # x => \/ export'[y] = export[y]
                                        \/ /\ export[y].phase \in {"encode", "assemble"}
                                           /\ export'[y] = Over(export[y], "failed")
    <3>1. {x} \in SUBSET Attempts
      OBVIOUS
    <3> QED BY <1>2, <1>4, <3>1, KillPoolInv
  <2>2. SavedOK'
    BY <1>1, <1>2, <2>1, SavedStay DEF Busy
  <2>3. StepKinds
    BY <1>1, <2>1 DEF StepKinds, StepKind, Rests, Fails, Busy
  <2> QED BY <1>3, <2>1, <2>2, <2>3 DEF PoolInv
<1>5. CASE BuildFails(x, i)
  BY <1>1, <1>4, <1>5 DEF BuildFails
<1>6. CASE EncodeFails(x, i, lost)
  <2>1. (IF lost THEN {export[x].members[i]} ELSE {}) \in SUBSET Engines
    BY <1>1, <1>6
  <2> QED BY <1>4, <1>6, <2>1 DEF EncodeFails
<1>7. CASE AssembleFails(x, lost)
  <2> DEFINE D == IF lost THEN {export[x].members[1]} ELSE {}
  <2>1. D \in SUBSET Engines
    BY <1>1, <1>7
  <2>2. CASE KillPool(D, {x}, "failed")
    BY <1>4, <2>1, <2>2
  <2>3. CASE engine' = Terminate(D) /\ export' = Ended({x}, "failed", {}) /\ UNCHANGED <<exporting, pool>>
    <3> HIDE DEF D
    <3>1. export' = [export EXCEPT ![x] = Over(export[x], "failed")]
      BY <2>3 DEF Ended, PoolInv, AttemptsOK
    <3>2. /\ Drift /\ engine' \in [Engines -> EngineState]
          /\ \A e \in Engines : engine'[e].face <= face /\ (engine'[e].alive => engine'[e].book \in Books)
      BY <1>2, <2>1, <2>3, EnginesStay
    <3>3. /\ Over(export[x], "failed") \in ExportState /\ Sound(Over(export[x], "failed"), face)
          /\ Over(export[x], "failed").members = << >> /\ Begun(Over(export[x], "failed"))
      BY <1>1, OverSound, PoolInvTypes DEF Begun
    <3>4. AttemptsOK' /\ EnginesOK' /\ MembersOK' /\ PoolOK' /\ SavedOK'
      BY <1>1, <1>2, <2>3, <3>1, <3>2, <3>3, OneAttempt DEF Busy
    <3>5. StepKinds
      <4>1. \A y \in Attempts : export'[y] = IF y = x THEN Over(export[x], "failed") ELSE export[y]
        BY <3>1 DEF PoolInv, AttemptsOK
      <4> QED BY <1>1, <4>1 DEF StepKinds, StepKind, Rests, Fails
    <3> QED BY <1>3, <2>3, <3>4, <3>5 DEF PoolInv
  <2> QED BY <1>7, <2>2, <2>3 DEF AssembleFails
<1> QED BY <1>5, <1>6, <1>7

\* The download holds the results in spine order; every one is there.
LEMMA SavedParts ==
  ASSUME PoolInv, NEW x \in Attempts, AssembleReply(x)
  PROVE  LET r == export[x]
             n == SpineCount[r.key.book]
         IN  /\ r.phase = "assemble" /\ r \in ExportState /\ r.key.book \in Books /\ n \in Nat \ {0}
             /\ InSpineOrder(r) \in Seq(Result) /\ Len(InSpineOrder(r)) = n
             /\ \A i \in 1..n : /\ InSpineOrder(r)[i].spine = i - 1
                                /\ InSpineOrder(r)[i].book = r.key.book
                                /\ InSpineOrder(r)[i].face \in Faces(r, face)
             /\ {s \in Spines : r.results[s] # NoResult} = 0 .. n - 1
<1> DEFINE r == export[x]
           n == SpineCount[r.key.book]
           f == InSpineOrder(r)
<1>1. r.phase = "assemble" /\ r \in ExportState /\ Sound(r, face)
  BY CallPhase, PoolInvTypes DEF AssembleReply
<1>2. r.key.book \in Books /\ n \in Nat \ {0} /\ 0 .. n - 1 \subseteq Spines
  BY <1>1, SpinesFacts DEF Sound, Staffed, Busy
<1>3. \A s \in Spines : r.results[s] = NoResult <=> s >= n
  BY <1>1 DEF Sound, Assembling
<1>4. f = [i \in 1..n |-> r.results[i-1]]
  BY DEF InSpineOrder
<1> HIDE DEF n, f
<1>5. ASSUME NEW i \in 1..n
      PROVE  /\ r.results[i-1] \in Result /\ r.results[i-1].spine = i - 1
             /\ r.results[i-1].book = r.key.book /\ r.results[i-1].face \in Faces(r, face)
  <2>1. i - 1 \in Spines /\ r.results[i-1] # NoResult
    BY <1>2, <1>3
  <2> QED BY <1>1, <2>1 DEF Sound, ResultsTrue, ExportState
<1>6. f \in Seq(Result) /\ Len(f) = n
  BY <1>2, <1>4, <1>5
<1>7. {s \in Spines : r.results[s] # NoResult} = 0 .. n - 1
  <2>1. \A s : s \in Spines /\ r.results[s] # NoResult <=> s \in 0 .. n - 1
    <3>1. ASSUME NEW s \in Spines PROVE r.results[s] # NoResult <=> s \in 0 .. n - 1
      BY <1>2, <1>3, SpinesFacts
    <3> QED BY <1>2, <3>1
  <2> QED BY <2>1
<1> QED BY <1>1, <1>2, <1>4, <1>5, <1>6, <1>7 DEF n, f

LEMMA AssembleReplyStep ==
  ASSUME PoolInv, NEW x \in Attempts, AssembleReply(x)
  PROVE  PoolInv' /\ StepKinds
<1> DEFINE r == export[x]
           n == SpineCount[r.key.book]
           f == InSpineOrder(r)
<1>1. /\ r.phase = "assemble" /\ r \in ExportState /\ r.key.book \in Books /\ n \in Nat \ {0}
      /\ f \in Seq(Result) /\ Len(f) = n
      /\ \A i \in 1..n : f[i].spine = i - 1 /\ f[i].book = r.key.book /\ f[i].face \in Faces(r, face)
  BY SavedParts
<1>2. /\ saved' = [saved EXCEPT ![x] = [parts |-> f, title |-> book]] /\ UNCHANGED page
      /\ \/ export' = Ended({x}, "saved", {}) /\ UNCHANGED <<exporting, pool, engine>>
         \/ KillPool({}, {x}, "saved")
  BY DEF AssembleReply
<1>3. /\ face' \in 0..MaxFace /\ face <= face' /\ face' = face /\ face \in Nat
      /\ PageOK' /\ book \in Books \cup {0}
  BY <1>2, PoolInvTypes DEF PoolInv, PageOK, page
<1> HIDE DEF f
<1>4. /\ AttemptsOK' /\ EnginesOK' /\ MembersOK' /\ PoolOK' /\ exporting' \in BOOLEAN
      /\ export'[x] = Over(r, "saved")
      /\ \A y \in Attempts : y # x => \/ export'[y] = export[y]
                                      \/ /\ export[y].phase \in {"encode", "assemble"}
                                         /\ export'[y] = Over(export[y], "failed")
  <2>1. CASE KillPool({}, {x}, "saved")
    <3>1. {} \in SUBSET Engines /\ {x} \in SUBSET Attempts
      OBVIOUS
    <3> QED BY <1>3, <2>1, <3>1, KillPoolInv
  <2>2. CASE export' = Ended({x}, "saved", {}) /\ UNCHANGED <<exporting, pool, engine>>
    <3>1. /\ export' \in [Attempts -> ExportState]
          /\ \A y \in Attempts : /\ Sound(export'[y], face)
                                 /\ export'[y] = IF y = x THEN Over(export[y], "saved") ELSE export[y]
      <4>1. export' = [export EXCEPT ![x] = Over(r, "saved")]
        BY <2>2 DEF Ended, PoolInv, AttemptsOK
      <4>2. Over(r, "saved") \in ExportState /\ Sound(Over(r, "saved"), face)
        BY <1>1, <1>3, OverSound, PoolInvTypes
      <4> QED BY <4>1, <4>2 DEF PoolInv, AttemptsOK
    <3>2. Drift /\ Evolve
      <4>1. Begun(export'[x]) /\ export'[x].members = << >>
        BY <1>1, <1>3, <3>1, OverSound, PoolInvTypes DEF Begun
      <4> QED BY <2>2, <3>1, <4>1 DEF Drift, Evolve
    <3>3. MembersOK'
      <4> SUFFICES ASSUME NEW y \in Attempts PROVE MembersFit(y)'
        BY DEF MembersOK
      <4>1. CASE y = x
        <5>1. export'[x].members = << >>
          BY <1>1, <1>3, <3>1, OverSound, PoolInvTypes
        <5> QED BY <4>1, <5>1 DEF MembersFit
      <4>2. CASE y # x
        BY <3>1, <3>2, <4>2, MembersStay
      <4> QED BY <4>1, <4>2
    <3>4. PoolOK'
      BY <1>3, <2>2, <3>2, PoolStay
    <3> QED BY <1>3, <2>2, <3>1, <3>3, <3>4 DEF PoolInv, AttemptsOK, EnginesOK
  <2> QED BY <1>2, <2>1, <2>2
<1>5. SavedOK'
  <2>1. [parts |-> f, title |-> book] \in SavedState
    BY <1>1, <1>3 DEF SavedState
  <2>2. saved' \in [Attempts -> SavedState]
    BY <1>2, <2>1 DEF PoolInv, SavedOK
  <2>3. /\ export'[x].phase = "saved" /\ export'[x].key = r.key /\ export'[x].custom = r.custom
    BY <1>1, <1>3, <1>4, OverSound, PoolInvTypes
  <2>4. Faces(export'[x], face') = Faces(r, face)
    BY <1>3, <2>3 DEF Faces
  <2>5. saved'[x].parts = f
    BY <1>2 DEF PoolInv, SavedOK
  <2>6. FileOf(x)'
    BY <1>1, <2>3, <2>4, <2>5 DEF FileOf
  <2>7. ASSUME NEW y \in Attempts, y # x, saved'[y] # NoFile PROVE FileOf(y)'
    <3>1. saved'[y] = saved[y]
      BY <1>2, <2>7 DEF PoolInv, SavedOK
    <3>2. FileOf(y)
      BY <2>7, <3>1 DEF PoolInv, SavedOK
    <3>3. export'[y] = export[y]
      BY <1>4, <2>7, <3>2 DEF FileOf
    <3> QED BY <1>3, <3>1, <3>2, <3>3 DEF FileOf
  <2> QED BY <2>2, <2>6, <2>7 DEF SavedOK
<1>6. StepKinds
  <2>1. Saves(x)
    BY <1>4 DEF Saves
  <2>2. ASSUME NEW y \in Attempts, y # x PROVE Rests(y) \/ Fails(y)
    <3>1. saved'[y] = saved[y]
      BY <1>2, <2>2 DEF PoolInv, SavedOK
    <3> QED BY <1>4, <2>2, <3>1 DEF Rests, Fails, Busy
  <2> QED BY <2>1, <2>2 DEF StepKinds, StepKind
<1> QED BY <1>3, <1>4, <1>5, <1>6 DEF PoolInv

\* Fonts, books and workers.
LEMMA PageStep ==
  ASSUME PoolInv,
         FontCommit \/ OpenBook \/ OpenCommits \/ OpenFails \/ \E e \in Engines : WorkerError(e)
  PROVE  PoolInv' /\ StepKinds
<1>0. face \in Nat /\ face \in 0..MaxFace /\ MaxFace \in Nat
  BY PoolInvTypes DEF PoolInv, PageOK
<1>1. ASSUME KillPool({}, {}, "failed"), UNCHANGED saved, face' \in 0..MaxFace, face <= face', PageOK'
      PROVE  PoolInv' /\ StepKinds
  <2>1. {} \in SUBSET Engines /\ {} \in SUBSET Attempts
    OBVIOUS
  <2>2. /\ AttemptsOK' /\ EnginesOK' /\ MembersOK' /\ PoolOK' /\ exporting' \in BOOLEAN
        /\ \A y \in Attempts : \/ export'[y] = export[y]
                               \/ /\ export[y].phase \in {"encode", "assemble"}
                                  /\ export'[y] = Over(export[y], "failed")
    BY <1>1, <2>1, KillPoolInv
  <2>3. SavedOK'
    BY <1>0, <1>1, <2>2, SavedStay
  <2>4. StepKinds
    BY <1>1, <2>2 DEF StepKinds, StepKind, Rests, Fails, Busy
  <2> QED BY <1>1, <2>2, <2>3, <2>4 DEF PoolInv
<1>2. CASE FontCommit
  BY <1>0, <1>1, <1>2 DEF FontCommit, PoolInv, PageOK
<1>3. CASE OpenBook
  BY <1>0, <1>1, <1>3 DEF OpenBook, PoolInv, PageOK
<1>4. CASE OpenFails
  <2>1. ~opening' /\ opening' \in BOOLEAN
    BY <1>4 DEF OpenFails
  <2>2. PageOK'
    BY <1>4, <2>1 DEF OpenFails, PoolInv, PageOK
  <2> QED BY <1>0, <1>1, <1>4, <2>2 DEF OpenFails
<1>5. ASSUME UNCHANGED <<face, exporting, pool, export, saved>>, PageOK',
             NEW D \in SUBSET Engines, engine' = engine \/ engine' = Terminate(D)
      PROVE  PoolInv' /\ StepKinds
  <2>1. /\ Drift /\ engine' \in [Engines -> EngineState]
        /\ \A e \in Engines : engine'[e].face <= face /\ (engine'[e].alive => engine'[e].book \in Books)
    BY <1>5, EnginesStay
  <2>2. Evolve
    BY <1>5 DEF Evolve
  <2>3. MembersOK'
    BY <1>5, <2>1, <2>2, MembersStay DEF MembersOK
  <2>4. PoolOK' /\ SavedOK'
    BY <1>0, <1>5, <2>1, <2>2, PoolStay, SavedStay
  <2>5. StepKinds
    BY <1>5 DEF StepKinds, StepKind, Rests
  <2> QED BY <1>5, <2>1, <2>3, <2>4, <2>5 DEF PoolInv, AttemptsOK, EnginesOK
<1>6. CASE OpenCommits
  <2>1. UNCHANGED <<face, exporting, pool, engine, export, saved>>
    BY <1>6 DEF OpenCommits
  <2>2. PageOK'
    <3>1. ~opening' /\ opening' \in BOOLEAN
      BY <1>6 DEF OpenCommits
    <3> QED BY <1>6, <3>1 DEF OpenCommits, PoolInv, PageOK
  <2> QED BY <1>5, <2>1, <2>2
<1>7. ASSUME NEW e \in Engines, WorkerError(e) PROVE PoolInv' /\ StepKinds
  <2>1. PageOK' /\ UNCHANGED face
    BY <1>7 DEF WorkerError, page, PoolInv, PageOK
  <2> QED BY <1>5, <1>7, <2>1 DEF WorkerError
<1> QED BY <1>2, <1>3, <1>4, <1>6, <1>7

LEMMA PoolStep == PoolInv /\ [Next]_vars => PoolInv' /\ StepKinds
<1> SUFFICES ASSUME PoolInv, [Next]_vars PROVE PoolInv' /\ StepKinds
  OBVIOUS
<1>1. CASE UNCHANGED vars
  <2>1. /\ UNCHANGED <<book, bookEpoch, opening, face, exporting, pool, engine, export, saved>>
    BY <1>1 DEF vars, page
  <2>2. PageOK' /\ EnginesOK' /\ exporting' \in BOOLEAN
    BY <2>1 DEF PoolInv, PageOK, EnginesOK
  <2>3. AttemptsOK' /\ SavedOK'
    BY <2>1 DEF PoolInv, AttemptsOK, SavedOK, FileOf, Faces
  <2>4. MembersOK' /\ PoolOK'
    BY <2>1 DEF PoolInv, MembersOK, MembersFit, PoolOK, Fit
  <2>5. StepKinds
    BY <2>1 DEF StepKinds, StepKind, Rests
  <2> QED BY <2>2, <2>3, <2>4, <2>5 DEF PoolInv
<1>2. ASSUME NEW x \in Attempts, Continues(x) PROVE PoolInv' /\ StepKinds
  <2>1. CASE Start(x)
    <3>1. export[x].phase = "prepare" /\ book # 0 /\ UNCHANGED <<page, saved>>
      BY <2>1 DEF Start, WorthPool
    <3> QED BY <2>1, <3>1, ReusePoolStep, BuildPoolStep DEF Start
  <2> QED BY <1>2, <2>1, BeforeEnginesStep DEF Continues
<1>3. ASSUME NEW x \in Attempts, HookRun(x) PROVE PoolInv' /\ StepKinds
  <2>1. export[x].phase = "idle" /\ book # 0 /\ UNCHANGED <<page, saved>>
    BY <1>3 DEF HookRun
  <2> QED BY <1>3, <2>1, ReusePoolStep, BuildPoolStep DEF HookRun
<1>4. ASSUME NEW x \in Attempts, NEW i \in 1..PoolSize, CallEnds(x, i) PROVE PoolInv' /\ StepKinds
  BY <1>4, LoadStep, StatsStep, EncodeReplyStep, FailStep, AssembleReplyStep DEF CallEnds
<1>5. ASSUME NEW x \in Attempts, Click(x) PROVE PoolInv' /\ StepKinds
  BY <1>5, BeforeEnginesStep
<1> QED BY <1>1, <1>2, <1>3, <1>4, <1>5, PageStep DEF Next

LEMMA PoolInvCorrect == Spec => []PoolInv
BY PoolInvInit, PoolStep, PTL DEF Spec

-----------------------------------------------------------------------------
(* Theorems. *)

\* The page's export state keeps its shape, and every member has one pending call at most, through
\* dropped books, committed faces and dying workers (app.js, ensurePool and pooledExportBook).
THEOREM PoolTypeCorrect == Spec => []TypeOK
BY PoolInvCorrect, TypeFollows, PTL

\* "Pull indices dynamically, then transfer the results in spine order": the download of app.js
\* assembles every spine of one book once and in order, whoever encoded it and whenever.
THEOREM SavedFilesAreOrdered == Spec => []SavedInSpineOrder
<1>1. PoolInv => SavedInSpineOrder
  BY DEF PoolInv, SavedOK, FileOf, SavedInSpineOrder
<1> QED BY <1>1, PoolInvCorrect, PTL

\* poolIdentity ties a pool to the face it was built with: a file saved before another face is
\* committed has no spine with an older one.
THEOREM PoolsKeepTheFace == Spec => []CurrentFace
<1>1. PoolInv => CurrentFace
  <2> SUFFICES ASSUME PoolInv, NEW x \in Attempts, NEW i \in 1..Len(saved[x].parts),
                      export[x].key.face = face
               PROVE  saved[x].parts[i].face = IF export[x].custom THEN face ELSE 0
    BY DEF CurrentFace
  <2>1. saved[x] # NoFile
    BY DEF NoFile
  <2>2. saved[x].parts[i].face \in Faces(export[x], face)
    BY <2>1 DEF PoolInv, SavedOK, FileOf
  <2>3. face \in Nat
    BY PoolInvTypes
  <2> QED BY <2>2, <2>3 DEF Faces
<1> QED BY <1>1, PoolInvCorrect, PTL

-----------------------------------------------------------------------------
(* Each attempt implements SpineExport. *)

LEMMA PhaseFacts ==
  ASSUME NEW r
  PROVE  /\ Waiting(r) => ~Busy(r)
         /\ Busy(r) <=> r.phase \in {"build", "encode", "assemble"}
         /\ Waiting(r) <=> r.phase \in {"idle", "ping", "prepare", "ended"}
BY DEF Busy, Waiting

LEMMA NoResultsLeft == {s \in Spines : NoResults[s] # NoResult} = {}
BY DEF NoResults

LEMMA PromiseInit == ASSUME Init, NEW x \in Attempts PROVE Promise(x)!Init
<1>1. /\ export[x].phase = "idle" /\ export[x].key.book = 1 /\ export[x].results = NoResults
      /\ saved[x] = NoFile
  BY DEF Init, NoKey
<1>2. (CASE export[x].phase \in {"idle", "ping", "prepare", "ended"} -> "idle"
         [] export[x].phase \in {"build", "encode", "assemble"} -> "running"
         [] OTHER -> export[x].phase) = "idle"
  BY <1>1
<1>3. [i \in 1..Len(saved[x].parts) |->
         [book |-> saved[x].parts[i].book, spine |-> saved[x].parts[i].spine]] = << >>
  BY <1>1 DEF NoFile
<1> QED BY <1>1, <1>2, <1>3, NoResultsLeft, PoolAssumption DEF Promise!Init

LEMMA PromiseStep ==
  ASSUME PoolInv, PoolInv', NEW x \in Attempts, StepKind(x)
  PROVE  [Promise(x)!Next]_(Promise(x)!avars)
<1>1. CASE Rests(x)
  BY <1>1 DEF Rests, Promise!avars
<1>2. CASE Waits(x)
  BY <1>2 DEF Waits, Waiting, SameWork, Promise!avars
<1>3. CASE Begins(x)
  <2>1. Promise(x)!Begin(export'[x].key.book)
    BY <1>3 DEF Begins, Waiting, Busy, Promise!Begin
  <2> QED BY <1>3, <2>1 DEF Begins, Promise!Next
<1>4. CASE Works(x)
  BY <1>4 DEF Works, Busy, SameWork, Promise!avars
<1>5. CASE Stores(x)
  <2>1. PICK s \in Spines, v \in Result :
          /\ export[x].results[s] = NoResult /\ v # NoResult /\ s < SpineCount[export[x].key.book]
          /\ export'[x].results = [export[x].results EXCEPT ![s] = v]
    BY <1>5 DEF Stores
  <2>2. export[x].results \in [Spines -> Result \cup {NoResult}]
    BY PoolInvTypes DEF ExportState
  <2>3. {t \in Spines : export'[x].results[t] # NoResult} =
          {t \in Spines : export[x].results[t] # NoResult} \cup {s}
    BY <2>1, <2>2
  <2>4. Promise(x)!Encode(s)
    BY <1>5, <2>1, <2>3 DEF Stores, Busy, Promise!Encode
  <2>5. s \in 0 .. SpineCount[export[x].key.book] - 1
    <3>1. export[x].key.book \in Books
      BY <1>5, PoolInvTypes DEF Stores, Sound, Staffed
    <3> QED BY <2>1, <3>1, SpinesFacts
  <2> QED BY <2>4, <2>5 DEF Promise!Next
<1>6. CASE Fails(x)
  <2>1. /\ export'[x].phase = "failed" /\ export'[x].key = export[x].key
        /\ export'[x].results = NoResults
    BY <1>6, OverSound, PoolInvTypes DEF Fails
  <2>2. Promise(x)!Fail
    BY <1>6, <2>1, NoResultsLeft DEF Fails, Busy, Promise!Fail
  <2> QED BY <2>2 DEF Promise!Next
<1>7. CASE Saves(x)
  <2> DEFINE r == export[x]
             n == SpineCount[r.key.book]
             f == InSpineOrder(r)
  <2>1. /\ r.phase = "assemble" /\ n \in Nat \ {0} /\ Len(f) = n
        /\ \A i \in 1..n : f[i].spine = i - 1 /\ f[i].book = r.key.book
        /\ {s \in Spines : r.results[s] # NoResult} = 0 .. n - 1
    BY <1>7, SavedParts DEF Saves
  <2>2. /\ export'[x].phase = "saved" /\ export'[x].key = r.key
        /\ export'[x].results = NoResults
    BY <1>7, OverSound, PoolInvTypes DEF Saves
  <2>3. saved'[x].parts = f
    BY <1>7 DEF Saves, AssembleReply, PoolInv, SavedOK
  <2> HIDE DEF f
  <2>4. [i \in 1..Len(saved'[x].parts) |->
           [book |-> saved'[x].parts[i].book, spine |-> saved'[x].parts[i].spine]]
          = [i \in 1..n |-> [book |-> r.key.book, spine |-> i - 1]]
    BY <2>1, <2>3
  <2>5. Promise(x)!Save
    BY <2>1, <2>2, <2>4, NoResultsLeft DEF Promise!Save
  <2> QED BY <2>5 DEF Promise!Next
<1> QED BY <1>1, <1>2, <1>3, <1>4, <1>5, <1>6, <1>7 DEF StepKind

\* What the comment on the export pool promises (app.js): whatever the attempts, engines and the page
\* do, each attempt encodes each spine of its book once and saves all of them in order, or nothing.
THEOREM PoolImplementsExport == Spec => EachExportIsInOrder
<1>1. Init => \A x \in Attempts : Promise(x)!Init
  BY PromiseInit
<1>2. PoolInv /\ [Next]_vars => [\A x \in Attempts : [Promise(x)!Next]_(Promise(x)!avars)]_vars
  BY PoolStep, PromiseStep DEF StepKinds
<1> QED BY <1>1, <1>2, PoolInvCorrect, PTL DEF Spec, EachExportIsInOrder

-----------------------------------------------------------------------------
(* The lock and the engines, when attempts do not overlap.  The attempt    *)
(* under way is then the only user of the pool, so ending it, or           *)
(* terminating the pool under it, leaves no engine behind.                 *)

Alone ==
  /\ \A x, y \in Attempts : UnderWay(x) /\ UnderWay(y) => x = y
  /\ \A x \in Attempts : export[x].phase \in {"encode", "assemble"} => pool.engines = export[x].members
  /\ \A x \in Attempts : export[x].phase = "build" => pool.engines = << >>
  /\ NoOrphanEngine
  /\ LockedWhileExporting

\* The attempt that becomes r owns what is its own: the pool it works with, its engines, the lock.
Owns(r) ==
  /\ r.phase \in {"encode", "assemble"} => pool'.engines = r.members
  /\ r.phase = "build" => pool'.engines = << >>
  /\ \A e \in Engines : engine'[e].alive =>
       \/ \E i \in 1..Len(pool'.engines) : e = pool'.engines[i]
       \/ /\ r.phase \in {"ping", "prepare", "build", "encode", "assemble"}
          /\ \E i \in 1..Len(r.members) : e = r.members[i]
  /\ exporting' <=> r.phase \in {"prepare", "build", "encode", "assemble"} /\ ~r.hook

\* One attempt goes on under way, as r, and keeps or takes what it needs.
LEMMA AloneContinues ==
  ASSUME PoolInv, Alone, NEW x \in Attempts, NEW r, export' = [export EXCEPT ![x] = r],
         \A y \in Attempts : UnderWay(y) => y = x, Owns(r)
  PROVE  Alone'
<1>1. \A y \in Attempts : export'[y] = IF y = x THEN r ELSE export[y]
  BY DEF PoolInv, AttemptsOK
<1>2. \A y \in Attempts : y # x => ~UnderWay(y) /\ ~UnderWay(y)'
  BY <1>1 DEF UnderWay
<1>3. \A y, z \in Attempts : UnderWay(y)' /\ UnderWay(z)' => y = z
  BY <1>2
<1>4. \A y \in Attempts : export'[y].phase \in {"encode", "assemble"} => pool'.engines = export'[y].members
  BY <1>1, <1>2 DEF UnderWay, Owns
<1>5. \A y \in Attempts : export'[y].phase = "build" => pool'.engines = << >>
  BY <1>1, <1>2 DEF UnderWay, Owns
<1>6. NoOrphanEngine'
  BY <1>1 DEF NoOrphanEngine, PoolMembers, UnderWay, Members, Owns
<1>7. LockedWhileExporting'
  BY <1>1, <1>2 DEF LockedWhileExporting, UnderWay, Owns
<1> QED BY <1>3, <1>4, <1>5, <1>6, <1>7 DEF Alone

\* The attempts F end and the pool is terminated with the engines D.
LEMMA AloneKilled ==
  ASSUME PoolInv, Alone, NEW D \in SUBSET Engines, NEW F \in SUBSET Attempts,
         NEW how \in {"saved", "failed"}, KillPool(D, F, how),
         \A x \in F : Busy(export[x]) /\ (export[x].phase = "build" => Members(x) \subseteq D)
  PROVE  Alone'
<1> DEFINE gone == D \cup PoolMembers
           hit == Rejected(gone) \ F
<1>1. /\ engine' = [e \in Engines |-> IF e \in gone THEN NoEngine ELSE engine[e]]
      /\ pool' = NoPool /\ export' = Ended(F, how, hit)
      /\ exporting' = (exporting /\ \A x \in F \cup hit : export[x].hook)
  BY DEF KillPool, Terminate, Unlock
<1>2. \A y \in hit : y \in Attempts /\ export[y].phase \in {"encode", "assemble"}
  BY DEF Rejected
<1>3. \A y \in Attempts : export[y].phase \in {"encode", "assemble"} => y \in F \cup hit
  <2> SUFFICES ASSUME NEW y \in Attempts, export[y].phase \in {"encode", "assemble"}
               PROVE  \E e \in gone : Awaits(y, e)
    BY DEF Rejected
  <2>1. /\ Sound(export[y], face) /\ export[y] \in ExportState /\ pool.engines = export[y].members
    BY PoolInvTypes DEF Alone
  <2>2. /\ Len(export[y].call) = Len(export[y].members) /\ Len(export[y].members) \in Nat
        /\ Len(export[y].members) >= 1
    BY <2>1, SpinesFacts DEF Sound, Staffed, Busy, ExportState
  <2>3. \E i \in 1..Len(export[y].members) : export[y].call[i] # NoCall
    <3>1. CASE export[y].phase = "encode"
      BY <2>1, <2>2, <3>1 DEF Sound, Encoding
    <3>2. CASE export[y].phase = "assemble"
      <4>1. export[y].call[1] # NoCall
        BY <2>1, <3>2, CallsDiffer DEF Sound, Assembling
      <4> QED BY <2>2, <4>1
    <3> QED BY <3>1, <3>2
  <2>4. \A i \in 1..Len(export[y].members) : export[y].members[i] \in gone
    BY <2>1 DEF PoolMembers
  <2> QED BY <2>3, <2>4 DEF Awaits
<1> HIDE DEF hit
<1>4. \A y \in Attempts : y \notin F \cup hit => export'[y] = export[y]
  BY <1>1 DEF Ended
<1>5. \A y \in F \cup hit : y \in Attempts /\ UnderWay(y) /\ ~UnderWay(y)'
  <2> SUFFICES ASSUME NEW y \in F \cup hit PROVE y \in Attempts /\ UnderWay(y) /\ ~UnderWay(y)'
    OBVIOUS
  <2>1. y \in Attempts /\ UnderWay(y)
    BY <1>2 DEF UnderWay, Busy
  <2>2. PICK h \in {"saved", "failed"} : export'[y] = Over(export[y], h)
    BY <1>1, <2>1 DEF Ended
  <2>3. export'[y].phase = h
    BY <2>1, <2>2, OverSound, PoolInvTypes
  <2> QED BY <2>1, <2>3 DEF UnderWay
<1>6. \A y \in Attempts : UnderWay(y)' => UnderWay(y) /\ export'[y] = export[y] /\ y \notin F \cup hit
  BY <1>4, <1>5 DEF UnderWay
<1>7. \A y, z \in Attempts : UnderWay(y)' /\ UnderWay(z)' => y = z
  BY <1>6 DEF Alone
<1>8. \A y \in Attempts : export'[y].phase \notin {"encode", "assemble"}
  BY <1>3, <1>6 DEF UnderWay
<1>9. pool'.engines = << >>
  BY <1>1 DEF NoPool
<1>10. NoOrphanEngine'
  <2> SUFFICES ASSUME NEW e \in Engines, engine'[e].alive
               PROVE  \E y \in Attempts : UnderWay(y)' /\ e \in Members(y)'
    BY DEF NoOrphanEngine
  <2>1. e \notin D /\ e \notin PoolMembers /\ engine[e].alive
    BY <1>1 DEF NoEngine
  <2>2. PICK y \in Attempts : UnderWay(y) /\ e \in Members(y)
    BY <2>1 DEF Alone, NoOrphanEngine
  <2>3. export[y].phase \notin {"encode", "assemble"}
    BY <2>1, <2>2 DEF Alone, Members, PoolMembers
  <2>4. y \notin F
    BY <2>1, <2>2, <2>3 DEF Busy
  <2>5. y \notin hit
    BY <1>2, <2>3
  <2> QED BY <1>4, <2>2, <2>4, <2>5 DEF UnderWay, Members
<1>11. LockedWhileExporting'
  <2>1. ASSUME NEW y \in Attempts, UnderWay(y)', export'[y].phase # "ping", ~export'[y].hook PROVE exporting'
    <3>1. UnderWay(y) /\ export'[y] = export[y] /\ y \notin F \cup hit
      BY <1>6, <2>1
    <3>2. exporting
      BY <2>1, <3>1 DEF Alone, LockedWhileExporting
    <3>3. F \cup hit = {}
      BY <1>5, <3>1 DEF Alone
    <3> QED BY <1>1, <3>2, <3>3
  <2>2. ASSUME exporting'
        PROVE  \E y \in Attempts : UnderWay(y)' /\ export'[y].phase # "ping" /\ ~export'[y].hook
    <3>1. exporting /\ \A z \in F \cup hit : export[z].hook
      BY <1>1, <2>2
    <3>2. PICK y \in Attempts : UnderWay(y) /\ export[y].phase # "ping" /\ ~export[y].hook
      BY <3>1 DEF Alone, LockedWhileExporting
    <3> QED BY <1>4, <3>1, <3>2 DEF UnderWay
  <2> QED BY <2>1, <2>2 DEF LockedWhileExporting
<1> QED BY <1>7, <1>8, <1>9, <1>10, <1>11 DEF Alone

\* What the state says of the attempt under way, and when there is none.
LEMMA AloneFacts ==
  ASSUME PoolInv, Alone
  PROVE  /\ \A x \in Attempts : UnderWay(x) =>
              /\ \A y \in Attempts : UnderWay(y) => y = x
              /\ exporting <=> export[x].phase # "ping" /\ ~export[x].hook
              /\ \A e \in Engines : engine[e].alive => e \in PoolMembers \/ e \in Members(x)
         /\ (\A x \in Attempts : ~UnderWay(x)) =>
              ~exporting /\ \A e \in Engines : engine[e].alive => e \in PoolMembers
BY DEF Alone, NoOrphanEngine, LockedWhileExporting

LEMMA AloneInit == Init => Alone
<1> SUFFICES ASSUME Init PROVE Alone
  OBVIOUS
<1>1. \A x \in Attempts : export[x].phase = "idle"
  BY DEF Init
<1>2. ~exporting /\ \A e \in Engines : ~engine[e].alive
  BY DEF Init, NoEngine
<1> QED BY <1>1, <1>2 DEF Alone, NoOrphanEngine, LockedWhileExporting, UnderWay

\* A click, its ping, and the ends that need no pool.
LEMMA AloneBefore ==
  ASSUME ~Overlapping, PoolInv, Alone, NEW x \in Attempts,
         Click(x) \/ PingReply(x) \/ NoPoolNeeded(x) \/ SerialInstead(x)
  PROVE  Alone'
<1>1. PICK how \in {"ping", "prepare", "ended"} :
        /\ export' = [export EXCEPT ![x].phase = how]
        /\ how = "ping" => Click(x)
        /\ how = "prepare" => PingReply(x)
        /\ how = "ended" => NoPoolNeeded(x) \/ SerialInstead(x)
  BY DEF Click, PingReply, NoPoolNeeded, SerialInstead
<1> DEFINE r == [export[x] EXCEPT !.phase = how]
<1>2. /\ export[x] \in ExportState /\ ~Begun(export[x]) /\ ~export[x].hook
      /\ export[x].members = << >>
  <2>1. export[x] \in ExportState /\ Sound(export[x], face) /\ ~Begun(export[x])
    BY PoolInvTypes DEF Click, PingReply, NoPoolNeeded, SerialInstead, Begun
  <2> QED BY <2>1 DEF Sound, OffDuty, Begun, Busy
<1>3. r.phase = how /\ r.hook = export[x].hook /\ r.members = << >>
  BY <1>2 DEF ExportState
<1>4. export' = [export EXCEPT ![x] = r]
  BY <1>1
<1> HIDE DEF r
<1>5. UNCHANGED <<pool, engine>>
  BY DEF Click, PingReply, NoPoolNeeded, SerialInstead
<1>6. \A y \in Attempts : UnderWay(y) => y = x
  BY AloneFacts DEF Click, PingReply, NoPoolNeeded, SerialInstead, UnderWay
<1>7. Members(x) = {}
  BY <1>2 DEF Members
<1>8. \A e \in Engines : engine'[e].alive => (\E j \in 1..Len(pool'.engines) : e = pool'.engines[j])
  BY <1>5, <1>6, <1>7, AloneFacts DEF PoolMembers
<1>9. exporting' <=> how = "prepare"
  <2>1. CASE how = "prepare"
    BY <1>1, <2>1 DEF PingReply
  <2>2. CASE how = "ping"
    <3>1. ~exporting /\ exporting' = exporting
      BY <1>1, <2>2 DEF Click
    <3> QED BY <2>2, <3>1
  <2>3. CASE how = "ended" /\ NoPoolNeeded(x)
    <3>1. export[x].phase = "ping" /\ exporting' = exporting
      BY <2>3 DEF NoPoolNeeded
    <3>2. ~exporting
      BY <3>1, AloneFacts DEF UnderWay
    <3> QED BY <2>3, <3>1, <3>2
  <2>4. CASE how = "ended" /\ SerialInstead(x)
    <3>1. ~exporting'
      BY <1>2, <2>4 DEF SerialInstead, Unlock
    <3> QED BY <2>4, <3>1
  <2> QED BY <1>1, <2>1, <2>2, <2>3, <2>4
<1>10. Owns(r)
  BY <1>2, <1>3, <1>8, <1>9 DEF Owns
<1> QED BY <1>4, <1>6, <1>10, AloneContinues

\* An export or the hook takes a pool or builds one.
LEMMA AloneStarts ==
  ASSUME ~Overlapping, PoolInv, Alone, NEW x \in Attempts, book # 0, NEW hook \in BOOLEAN,
         export[x].phase \in {"idle", "prepare"}, \A y \in Attempts : UnderWay(y) => y = x,
         exporting <=> ~hook, UNCHANGED <<page, saved>>, ReusePool(x, hook) \/ BuildPool(x, hook)
  PROVE  Alone'
<1>1. /\ export[x] \in ExportState /\ Sound(export[x], face) /\ export[x].members = << >>
      /\ export[x].results = NoResults /\ Members(x) = {} /\ face \in Nat
  <2>1. export[x] \in ExportState /\ Sound(export[x], face)
    BY PoolInvTypes
  <2>2. export[x].members = << >> /\ export[x].results = NoResults
    BY <2>1 DEF Sound, OffDuty, Busy
  <2> QED BY <2>1, <2>2, PoolInvTypes DEF Members
<1>2. \A e \in Engines : engine[e].alive => e \in PoolMembers
  BY <1>1, AloneFacts
<1>3. \A y \in Attempts : export[y].phase \notin {"encode", "assemble"}
  BY DEF UnderWay
<1>4. CASE ReusePool(x, hook)
  <2> DEFINE b == [export[x] EXCEPT !.hook = hook, !.key = PoolIdentity, !.members = pool.engines]
  <2>1. PICK custom \in CustomSpec : export' = [export EXCEPT ![x] = Dispatched(b, custom)]
    BY <1>4 DEF ReusePool
  <2>2. Fits /\ UNCHANGED <<exporting, pool, engine>>
    BY <1>4 DEF ReusePool
  <2>3. /\ b \in ExportState /\ b.members = pool.engines /\ b.key = PoolIdentity /\ b.hook = hook
        /\ b.results = NoResults
    <3>1. pool.engines \in Seq(Engines) /\ PoolIdentity \in Key
      BY IdentityFacts DEF PoolInv, PoolOK, PoolState
    <3> QED BY <1>1, <3>1 DEF ExportState
  <2>4. /\ b.key.book \in Books /\ Len(b.members) \in 1..SpineCount[b.key.book]
        /\ b.key.face <= face /\ custom \in BOOLEAN
    BY <1>1, <2>2, <2>3, IdentityFacts, CustomSpecType DEF Fits
  <2> HIDE DEF b
  <2> DEFINE d == Dispatched(b, custom)
  <2>5. d.phase = "encode" /\ d.members = pool.engines /\ d.hook = hook
    BY <1>1, <2>3, <2>4, DispatchedSound
  <2> HIDE DEF d
  <2>6. export' = [export EXCEPT ![x] = d]
    BY <2>1 DEF d
  <2>7. \A e \in Engines : engine'[e].alive => (\E j \in 1..Len(pool'.engines) : e = pool'.engines[j])
    BY <1>2, <2>2 DEF PoolMembers
  <2>8. pool'.engines = d.members /\ d.phase # "build" /\ (exporting' <=> ~d.hook)
    BY <2>2, <2>5
  <2>9. Owns(d)
    BY <2>5, <2>7, <2>8 DEF Owns
  <2> QED BY <2>6, <2>9, AloneContinues
<1>5. CASE BuildPool(x, hook)
  <2> DEFINE fresh == [i \in 1..Want |-> <<x, i>>]
             calls == [i \in 1..Want |-> Load]
             q == [export[x] EXCEPT !.phase = "build", !.hook = hook, !.key = PoolIdentity,
                                    !.members = fresh, !.call = calls]
  <2>1. Rejected(PoolMembers) = {}
    BY <1>3 DEF Rejected
  <2>2. /\ pool' = NoPool /\ exporting' = exporting
        /\ engine' = [e \in Engines |-> IF \E i \in 1..Want : e = fresh[i]
                                        THEN [alive |-> TRUE, book |-> book, face |-> 0]
                                        ELSE Terminate(PoolMembers)[e]]
        /\ export' = [Ended({}, "failed", {}) EXCEPT ![x] =
             [@ EXCEPT !.phase = "build", !.hook = hook, !.key = PoolIdentity, !.members = fresh,
                       !.call = calls]]
    <3>1. exporting' = (exporting /\ \A y \in Rejected(PoolMembers) : export[y].hook) /\ exporting \in BOOLEAN
      BY <1>5 DEF BuildPool, Unlock, PoolInv
    <3>2. exporting' = exporting
      BY <2>1, <3>1
    <3> QED BY <1>5, <2>1, <3>2 DEF BuildPool
  <2>3. Want \in Nat
    BY IdentityFacts, PoolAssumption
  <2>4. Len(fresh) = Want
    BY <2>3
  <2>5. export' = [export EXCEPT ![x] = q]
    <3>1. Ended({}, "failed", {}) = export
      BY DEF Ended, PoolInv, AttemptsOK
    <3> HIDE DEF fresh, calls
    <3> QED BY <2>2, <3>1
  <2> HIDE DEF fresh, calls
  <2>6. q.phase = "build" /\ q.hook = hook /\ q.members = fresh
    BY <1>1 DEF ExportState
  <2> HIDE DEF q
  <2>7. ASSUME NEW e \in Engines, engine'[e].alive PROVE (\E j \in 1..Len(q.members) : e = q.members[j])
    <3>1. CASE \E i \in 1..Want : e = fresh[i]
      BY <2>4, <2>6, <3>1
    <3>2. CASE ~ \E i \in 1..Want : e = fresh[i]
      <4>1. engine'[e] = IF e \in PoolMembers THEN NoEngine ELSE engine[e]
        BY <2>2, <3>2 DEF Terminate
      <4> QED BY <1>2, <2>7, <4>1 DEF NoEngine
    <3> QED BY <3>1, <3>2
  <2>8. pool'.engines = << >> /\ (exporting' <=> ~q.hook)
    BY <2>2, <2>6 DEF NoPool
  <2>9. Owns(q)
    BY <2>6, <2>7, <2>8 DEF Owns
  <2> QED BY <2>5, <2>9, AloneContinues
<1> QED BY <1>4, <1>5

\* A reply leaves its attempt the members it has.
LEMMA EncodedKeeps ==
  ASSUME NEW r \in ExportState, NEW i \in 1..Len(r.call), NEW s \in Spines, NEW e,
         NEW q, q = AssembleWhenDone(Pull(Store(r, s, e), i))
  PROVE  q.members = r.members /\ q.hook = r.hook /\ q.phase \in {r.phase, "assemble"}
<1> DEFINE v == Encoded(r, s, e)
           p == Pull(Store(r, s, e), i)
<1>1. p \in {[r EXCEPT !.results[s] = v, !.call[i] = EncodeSpine(r.next), !.next = @ + 1],
             [r EXCEPT !.results[s] = v, !.call[i] = NoCall]}
  BY DEF Pull, Store, ExportState
<1> HIDE DEF v
<1>2. p.members = r.members /\ p.hook = r.hook /\ p.phase = r.phase
  BY <1>1 DEF ExportState
<1>3. q = p \/ q = [p EXCEPT !.phase = "assemble", !.call[1] = Assemble]
  BY DEF AssembleWhenDone
<1>4. CASE q = p
  BY <1>2, <1>4
<1>5. CASE q = [p EXCEPT !.phase = "assemble", !.call[1] = Assemble]
  <2>1. CASE p = [r EXCEPT !.results[s] = v, !.call[i] = EncodeSpine(r.next), !.next = @ + 1]
    BY <1>5, <2>1 DEF ExportState
  <2>2. CASE p = [r EXCEPT !.results[s] = v, !.call[i] = NoCall]
    BY <1>5, <2>2 DEF ExportState
  <2> QED BY <1>1, <2>1, <2>2
<1> QED BY <1>3, <1>4, <1>5

\* A member goes on loading, or an encoded spine is stored.
LEMMA AloneWorks ==
  ASSUME PoolInv, Alone, NEW x \in Attempts, NEW i \in 1..PoolSize,
         LoadReply(x, i) \/ LoadFontReply(x, i) \/ EncodeReply(x, i)
  PROVE  Alone'
<1> DEFINE r == export[x]
<1>1. r \in ExportState /\ UnderWay(x)
  BY PoolInvTypes DEF LoadReply, LoadFontReply, EncodeReply, Calls
<1>2. PICK q : /\ export' = [export EXCEPT ![x] = q] /\ q.members = r.members /\ q.hook = r.hook
               /\ \/ r.phase = "build" /\ q.phase = "build"
                  \/ r.phase = "encode" /\ q.phase \in {"encode", "assemble"}
  <2>1. CASE LoadReply(x, i) \/ LoadFontReply(x, i)
    <3>1. PICK c : export' = [export EXCEPT ![x].call[i] = c]
      BY <2>1 DEF LoadReply, LoadFontReply
    <3>2. r.phase = "build"
      BY <2>1, CallPhase DEF LoadReply, LoadFontReply
    <3> DEFINE q == [r EXCEPT !.call[i] = c]
    <3>3. q.members = r.members /\ q.hook = r.hook /\ q.phase = r.phase
      BY <1>1 DEF ExportState
    <3>4. export' = [export EXCEPT ![x] = q]
      BY <3>1 DEF PoolInv, AttemptsOK
    <3> HIDE DEF q
    <3> QED BY <3>2, <3>3, <3>4
  <2>2. CASE EncodeReply(x, i)
    <3> DEFINE q == AssembleWhenDone(Pull(Store(r, r.call[i].spine, r.members[i]), i))
    <3>1. export' = [export EXCEPT ![x] = q]
      BY <2>2 DEF EncodeReply
    <3>2. r.phase = "encode" /\ i \in 1..Len(r.call) /\ r.call[i].spine \in Spines
      BY <2>2, CallPhase, CallFacts DEF EncodeReply, Calls
    <3>3. q.members = r.members /\ q.hook = r.hook /\ q.phase \in {r.phase, "assemble"}
      BY <1>1, <3>2, EncodedKeeps
    <3> HIDE DEF q
    <3> QED BY <3>1, <3>2, <3>3
  <2> QED BY <2>1, <2>2
<1>3. pool' = pool /\ exporting' = exporting
  BY DEF LoadReply, LoadFontReply, EncodeReply
<1>4. \A e \in Engines : engine'[e].alive => engine[e].alive
  <2>1. CASE UNCHANGED engine
    BY <2>1
  <2>2. CASE engine' = [engine EXCEPT ![r.members[i]].face = face]
    BY <2>2 DEF PoolInv, EnginesOK, EngineState
  <2> QED BY <2>1, <2>2 DEF LoadReply, LoadFontReply, EncodeReply
<1>5. \A e \in Engines : engine'[e].alive =>
        \/ (\E j \in 1..Len(pool'.engines) : e = pool'.engines[j])
        \/ /\ q.phase \in {"ping", "prepare", "build", "encode", "assemble"}
           /\ (\E j \in 1..Len(q.members) : e = q.members[j])
  BY <1>1, <1>2, <1>3, <1>4, AloneFacts DEF PoolMembers, Members
<1>6. exporting' <=> q.phase \in {"prepare", "build", "encode", "assemble"} /\ ~q.hook
  <2>1. exporting' <=> ~q.hook
    BY <1>1, <1>2, <1>3, AloneFacts
  <2> QED BY <1>2, <2>1
<1>7. /\ q.phase \in {"encode", "assemble"} => pool'.engines = q.members
      /\ q.phase = "build" => pool'.engines = << >>
  BY <1>2, <1>3 DEF Alone
<1>8. \A y \in Attempts : UnderWay(y) => y = x
  BY <1>1, AloneFacts
<1>9. export' = [export EXCEPT ![x] = q]
  BY <1>2
<1>10. Owns(q)
  BY <1>5, <1>6, <1>7 DEF Owns
<1> QED BY <1>8, <1>9, <1>10, AloneContinues

\* The last member to load publishes the pool: its engines are never without an owner.
LEMMA AloneStats ==
  ASSUME PoolInv, Alone, NEW x \in Attempts, NEW i \in 1..PoolSize, StatsReply(x, i) \/ StatsLost(x, i)
  PROVE  Alone'
<1> DEFINE r == export[x]
           l == [r EXCEPT !.call[i] = NoCall]
<1>1. /\ r \in ExportState /\ UnderWay(x) /\ r.phase = "build" /\ MemberLoaded(x, i)
      /\ i \in 1..Len(r.call) /\ exporting' = exporting
  <2>1. Calls(x, i, "stats") /\ MemberLoaded(x, i) /\ exporting' = exporting
    BY DEF StatsReply, StatsLost
  <2> QED BY <2>1, CallPhase DEF Calls
<1>2. l.members = r.members /\ l.hook = r.hook /\ l.phase = "build" /\ l.key = r.key
  BY <1>1 DEF ExportState
<1>3. PICK q : /\ export' = [export EXCEPT ![x] = q] /\ q.members = r.members /\ q.hook = r.hook
               /\ \/ q.phase = "build" /\ pool' = pool
                  \/ q.phase = "encode" /\ pool'.engines = r.members
  <2>1. CASE \A j \in 1..Len(l.call) : l.call[j] = NoCall
    <3>1. PICK custom \in CustomSpec :
            export' = [export EXCEPT ![x] = Dispatched(l, custom)] /\ pool'.engines = r.members
      BY <1>1, <1>2, <2>1 DEF MemberLoaded
    <3>2. /\ Dispatched(l, custom).members = r.members /\ Dispatched(l, custom).hook = r.hook
          /\ Dispatched(l, custom).phase = "encode"
      BY <1>1 DEF Dispatched, ExportState
    <3> HIDE DEF l
    <3> QED BY <3>1, <3>2
  <2>2. CASE ~ \A j \in 1..Len(l.call) : l.call[j] = NoCall
    <3>1. export' = [export EXCEPT ![x] = l] /\ pool' = pool
      BY <1>1, <2>2 DEF MemberLoaded
    <3> HIDE DEF l
    <3> QED BY <1>2, <3>1
  <2> QED BY <2>1, <2>2
<1>4. \A e \in Engines : engine'[e].alive => engine[e].alive
  BY DEF StatsReply, StatsLost, Terminate, NoEngine
<1>5. pool.engines = << >> /\ PoolMembers = {}
  BY <1>1 DEF Alone, PoolMembers
<1>6. \A e \in Engines : engine'[e].alive =>
        /\ q.phase \in {"ping", "prepare", "build", "encode", "assemble"}
        /\ (\E j \in 1..Len(q.members) : e = q.members[j])
  BY <1>1, <1>3, <1>4, <1>5, AloneFacts DEF Members
<1>7. exporting' <=> q.phase \in {"prepare", "build", "encode", "assemble"} /\ ~q.hook
  <2>1. exporting' <=> ~q.hook
    BY <1>1, <1>3, AloneFacts
  <2> QED BY <1>3, <2>1
<1>8. \A y \in Attempts : UnderWay(y) => y = x
  BY <1>1, AloneFacts
<1>9. /\ q.phase \in {"encode", "assemble"} => pool'.engines = q.members
      /\ q.phase = "build" => pool'.engines = << >>
  BY <1>3, <1>5
<1>10. export' = [export EXCEPT ![x] = q]
  BY <1>3
<1>11. \A e \in Engines : engine'[e].alive =>
         \/ (\E j \in 1..Len(pool'.engines) : e = pool'.engines[j])
         \/ /\ q.phase \in {"ping", "prepare", "build", "encode", "assemble"}
            /\ (\E j \in 1..Len(q.members) : e = q.members[j])
  BY <1>6
<1>12. Owns(q)
  BY <1>7, <1>9, <1>11 DEF Owns
<1> QED BY <1>8, <1>10, <1>12, AloneContinues

\* An attempt ends: the download destroys the pool, the hook keeps it.
LEMMA AloneEnds ==
  ASSUME PoolInv, Alone, NEW x \in Attempts, NEW i \in 1..PoolSize, NEW lost \in BOOLEAN,
         \/ BuildFails(x, i) \/ EncodeFails(x, i, lost)
         \/ AssembleReply(x) \/ AssembleFails(x, lost)
  PROVE  Alone'
<1>1. /\ Busy(export[x]) /\ export[x] \in ExportState /\ Members(x) \in SUBSET Engines
      /\ UnderWay(x)
      /\ ~BuildFails(x, i) => export[x].phase # "build"
      /\ EncodeFails(x, i, lost) => export[x].members[i] \in Engines
      /\ AssembleFails(x, lost) => export[x].members[1] \in Engines
  BY CallPhase, PoolInvTypes
     DEF BuildFails, EncodeFails, AssembleFails, AssembleReply, Busy, Members, UnderWay
<1>2. {x} \in SUBSET Attempts
  OBVIOUS
<1>3. CASE BuildFails(x, i)
  BY <1>1, <1>2, <1>3, AloneKilled DEF BuildFails
<1>4. ASSUME NEW D \in SUBSET Engines, NEW how \in {"saved", "failed"}, KillPool(D, {x}, how),
             ~BuildFails(x, i)
      PROVE  Alone'
  BY <1>1, <1>2, <1>4, AloneKilled
<1>5. ASSUME NEW D \in SUBSET Engines, NEW how \in {"saved", "failed"}, export' = Ended({x}, how, {}),
             export[x].hook, UNCHANGED <<exporting, pool>>, engine' = Terminate(D) \/ engine' = engine,
             ~BuildFails(x, i)
      PROVE  Alone'
  <2> DEFINE q == Over(export[x], how)
  <2>1. export' = [export EXCEPT ![x] = q]
    BY <1>5 DEF Ended, PoolInv, AttemptsOK
  <2>2. q.phase = how
    BY <1>1 DEF Over, ExportState
  <2> HIDE DEF q
  <2>3. ~exporting' /\ \A y \in Attempts : UnderWay(y) => y = x
    BY <1>1, <1>5, AloneFacts
  <2>4. pool.engines = export[x].members
    BY <1>1, <1>5 DEF Alone, Busy
  <2>5. \A e \in Engines : engine'[e].alive => engine[e].alive
    BY <1>5 DEF Terminate, NoEngine
  <2>6. \A e \in Engines : engine'[e].alive => (\E j \in 1..Len(pool'.engines) : e = pool'.engines[j])
    BY <1>1, <1>5, <2>4, <2>5, AloneFacts DEF PoolMembers, Members
  <2>7. Owns(q)
    BY <2>2, <2>3, <2>6 DEF Owns
  <2> QED BY <2>1, <2>3, <2>7, AloneContinues
<1>6. CASE EncodeFails(x, i, lost) /\ ~BuildFails(x, i)
  <2>1. (IF lost THEN {export[x].members[i]} ELSE {}) \in SUBSET Engines
    BY <1>1, <1>6
  <2> QED BY <1>4, <1>6, <2>1 DEF EncodeFails
<1>7. CASE AssembleReply(x) /\ ~BuildFails(x, i)
  <2>1. {} \in SUBSET Engines
    OBVIOUS
  <2> QED BY <1>4, <1>5, <1>7, <2>1 DEF AssembleReply
<1>8. CASE AssembleFails(x, lost) /\ ~BuildFails(x, i)
  <2> DEFINE D == IF lost THEN {export[x].members[1]} ELSE {}
  <2>1. D \in SUBSET Engines
    BY <1>1, <1>8
  <2>2. \/ export[x].hook /\ engine' = Terminate(D) /\ export' = Ended({x}, "failed", {})
           /\ UNCHANGED <<exporting, pool>>
        \/ KillPool(D, {x}, "failed")
    BY <1>8 DEF AssembleFails
  <2> HIDE DEF D
  <2> QED BY <1>4, <1>5, <1>8, <2>1, <2>2
<1> QED BY <1>3, <1>6, <1>7, <1>8

\* Fonts, books and workers: the pool goes, or nothing but an engine does.
LEMMA AlonePage ==
  ASSUME PoolInv, Alone,
         FontCommit \/ OpenBook \/ OpenCommits \/ OpenFails \/ (\E e \in Engines : WorkerError(e))
           \/ UNCHANGED vars
  PROVE  Alone'
<1>1. CASE KillPool({}, {}, "failed")
  <2>1. {} \in SUBSET Engines /\ {} \in SUBSET Attempts
    OBVIOUS
  <2> QED BY <1>1, <2>1, AloneKilled
<1>2. CASE /\ UNCHANGED <<exporting, pool, export>>
           /\ \A e \in Engines : engine'[e].alive => engine[e].alive
  BY <1>2 DEF Alone, NoOrphanEngine, LockedWhileExporting, UnderWay, Members, PoolMembers
<1>3. ASSUME NEW e \in Engines, WorkerError(e) PROVE Alone'
  BY <1>2, <1>3 DEF WorkerError, Terminate, NoEngine
<1>4. CASE OpenCommits \/ UNCHANGED vars
  BY <1>2, <1>4 DEF OpenCommits, vars
<1> QED BY <1>1, <1>3, <1>4 DEF FontCommit, OpenBook, OpenFails

LEMMA AloneStep == ASSUME ~Overlapping, PoolInv, Alone, [Next]_vars PROVE Alone'
<1>1. ASSUME NEW x \in Attempts, Continues(x) PROVE Alone'
  <2>1. CASE Start(x)
    <3>1. /\ export[x].phase = "prepare" /\ book # 0 /\ UNCHANGED <<page, saved>>
          /\ ReusePool(x, FALSE) \/ BuildPool(x, FALSE)
      BY <2>1 DEF Start, WorthPool
    <3>2. UnderWay(x) /\ ~export[x].hook
      BY <3>1, PoolInvTypes DEF UnderWay, Sound, Begun
    <3>3. exporting /\ \A y \in Attempts : UnderWay(y) => y = x
      BY <3>1, <3>2, AloneFacts
    <3> QED BY <3>1, <3>3, AloneStarts
  <2> QED BY <1>1, <2>1, AloneBefore DEF Continues
<1>2. ASSUME NEW x \in Attempts, HookRun(x) PROVE Alone'
  <2>1. /\ export[x].phase = "idle" /\ book # 0 /\ UNCHANGED <<page, saved>>
        /\ ReusePool(x, TRUE) \/ BuildPool(x, TRUE)
    BY <1>2 DEF HookRun
  <2>2. ~exporting /\ \A y \in Attempts : ~UnderWay(y)
    BY <1>2, AloneFacts DEF HookRun
  <2> QED BY <2>1, <2>2, AloneStarts
<1>3. ASSUME NEW x \in Attempts, NEW i \in 1..PoolSize, CallEnds(x, i) PROVE Alone'
  BY <1>3, AloneWorks, AloneStats, AloneEnds DEF CallEnds
<1>4. ASSUME NEW x \in Attempts, Click(x) PROVE Alone'
  BY <1>4, AloneBefore
<1> QED BY <1>1, <1>2, <1>3, <1>4, AlonePage DEF Next

AloneInv == ~Overlapping => Alone

LEMMA AloneCorrect == Spec => []AloneInv
<1>1. Init => AloneInv
  BY AloneInit DEF AloneInv
<1>2. PoolInv /\ AloneInv /\ [Next]_vars => AloneInv'
  BY AloneStep DEF AloneInv
<1> QED BY <1>1, <1>2, PoolInvCorrect, PTL DEF Spec

\* killPool and the pool's finally blocks leave no worker running that nothing would terminate, when
\* attempts do not overlap (app.js; the lock is meant to ensure that they do not).
THEOREM NoEngineIsForgotten == Spec => [](~Overlapping => NoOrphanEngine)
<1>1. AloneInv => (~Overlapping => NoOrphanEngine)
  BY DEF AloneInv, Alone
<1> QED BY <1>1, AloneCorrect, PTL

\* setExportLocked: the settings are locked from the ping's answer to the finally of exportAndDownload,
\* whichever way it ends, and never by the hook, when attempts do not overlap.
THEOREM TheLockIsHeld == Spec => [](~Overlapping => LockedWhileExporting)
<1>1. AloneInv => (~Overlapping => LockedWhileExporting)
  BY DEF AloneInv, Alone
<1> QED BY <1>1, AloneCorrect, PTL

=============================================================================
