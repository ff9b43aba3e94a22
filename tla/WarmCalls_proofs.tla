---------------------------- MODULE WarmCalls_proofs ----------------------------
(***************************************************************************)
(* Proofs about what the page and the export engine owe each other         *)
(* (web/app.js: exportCall, loadExportEngine, killExportEngine, the hot    *)
(* sync of a face, exportAndDownload; web/ko.worker.js): whoever holds the *)
(* export lock gets it back, and an engine that is ready has the page's    *)
(* face.                                                                   *)
(*                                                                         *)
(* The first part is about positions in sequences.  The lock rests on      *)
(* where a press of the button can be: among the waiters of a preparation, *)
(* among the continuations, among the answers, or in the job of the        *)
(* engine.  The face rests on the calls of load and loadFont: each is      *)
(* asked or answered, at most once, and no face that waits to be taken is  *)
(* older than the one an engine was last given.                            *)
(***************************************************************************)
EXTENDS WarmExport_proofs

-----------------------------------------------------------------------------
(***************************************************************************)
(* Where the members of A are in a sequence.                               *)
(***************************************************************************)
At(q, A)  == {n \in DOMAIN q : q[n] \in A}
Single(P) == \A m, n \in P : m = n

LEMMA AppendAt ==
  ASSUME NEW S, NEW q \in Seq(S), NEW e \in S
  PROVE  /\ Append(q, e) \in Seq(S) /\ Len(Append(q, e)) = Len(q) + 1 /\ Len(q) \in Nat
         /\ DOMAIN q = 1 .. Len(q) /\ DOMAIN Append(q, e) = 1 .. Len(q) + 1
         /\ \A n \in 1 .. Len(q) : Append(q, e)[n] = q[n]
         /\ Append(q, e)[Len(q) + 1] = e
OBVIOUS

LEMMA TailAt ==
  ASSUME NEW S, NEW q \in Seq(S), q # << >>
  PROVE  /\ Tail(q) \in Seq(S) /\ Len(q) \in Nat /\ Len(q) >= 1
         /\ DOMAIN q = 1 .. Len(q) /\ DOMAIN Tail(q) = 1 .. Len(q) - 1
         /\ \A n \in 1 .. Len(q) - 1 : Tail(q)[n] = q[n + 1]
         /\ Head(q) = q[1] /\ q[1] \in S
OBVIOUS

LEMMA AtEmpty ==
  ASSUME NEW A
  PROVE  At(<< >>, A) = {}
BY DEF At

LEMMA AtAppend ==
  ASSUME NEW S, NEW q \in Seq(S), NEW e \in S, NEW A
  PROVE  /\ e \notin A => At(Append(q, e), A) = At(q, A)
         /\ e \in A => At(Append(q, e), A) = At(q, A) \cup {Len(q) + 1}
<1> DEFINE c == Len(q)
           t == Append(q, e)
<1>1. c \in Nat /\ DOMAIN q = 1 .. c /\ DOMAIN t = 1 .. c + 1 /\ \A n \in 1 .. c : t[n] = q[n]
  BY AppendAt
<1>2. t[c + 1] = e
  BY AppendAt
<1> HIDE DEF c, t
<1>3. \A n \in 1 .. c + 1 : n \in 1 .. c \/ n = c + 1
  BY <1>1
<1>4. 1 .. c \subseteq 1 .. c + 1 /\ c + 1 \in 1 .. c + 1 /\ c + 1 \notin 1 .. c
  BY <1>1
<1> QED
  BY <1>1, <1>2, <1>3, <1>4 DEF At, c, t

LEMMA AtTail ==
  ASSUME NEW S, NEW q \in Seq(S), q # << >>, NEW A
  PROVE  /\ \A n \in At(Tail(q), A) : n \in Nat /\ n + 1 \in At(q, A) /\ n + 1 # 1
         /\ \A n \in At(q, A) : n = 1 \/ n - 1 \in At(Tail(q), A)
         /\ Head(q) \in A <=> 1 \in At(q, A)
<1> DEFINE c == Len(q)
           t == Tail(q)
<1>1. c \in Nat /\ c >= 1 /\ DOMAIN q = 1 .. c /\ DOMAIN t = 1 .. c - 1 /\ Head(q) = q[1]
  BY TailAt
<1>2. \A n \in 1 .. c - 1 : t[n] = q[n + 1]
  BY TailAt
<1> HIDE DEF c, t
<1>3. \A n \in 1 .. c - 1 : n \in Nat /\ n + 1 \in 1 .. c /\ n + 1 # 1
  BY <1>1
<1>4. \A n \in 1 .. c : n = 1 \/ (n - 1 \in 1 .. c - 1 /\ (n - 1) + 1 = n)
  BY <1>1
<1>5. \A n \in At(t, A) : n \in Nat /\ n + 1 \in At(q, A) /\ n + 1 # 1
  BY <1>1, <1>2, <1>3 DEF At
<1>6. ASSUME NEW n \in At(q, A), n # 1 PROVE n - 1 \in At(t, A)
  <2>1. n \in 1 .. c /\ q[n] \in A
    BY <1>1 DEF At
  <2>2. n - 1 \in 1 .. c - 1 /\ t[n - 1] = q[n]
    BY <1>2, <1>4, <1>6, <2>1
  <2> QED
    BY <1>1, <2>1, <2>2 DEF At
<1>7. 1 \in 1 .. c
  BY <1>1
<1> QED
  BY <1>1, <1>5, <1>6, <1>7 DEF At, t

\* What leaves a queue leaves it once.
LEMMA SingleTail ==
  ASSUME NEW S, NEW q \in Seq(S), q # << >>, NEW A
  PROVE  /\ Single(At(q, A)) => Single(At(Tail(q), A))
         /\ Single(At(q, A)) /\ Head(q) \in A => At(Tail(q), A) = {} /\ At(q, A) = {1}
         /\ At(q, A) = {} => At(Tail(q), A) = {}
         /\ Head(q) \notin A /\ At(Tail(q), A) = {} => At(q, A) = {}
<1>1. /\ \A n \in At(Tail(q), A) : n \in Nat /\ n + 1 \in At(q, A) /\ n + 1 # 1
      /\ \A n \in At(q, A) : n = 1 \/ n - 1 \in At(Tail(q), A)
      /\ Head(q) \in A <=> 1 \in At(q, A)
  BY AtTail
<1>2. ASSUME Single(At(q, A)) PROVE Single(At(Tail(q), A))
  <2>1. SUFFICES ASSUME NEW m \in At(Tail(q), A), NEW n \in At(Tail(q), A) PROVE m = n
    BY DEF Single
  <2>2. m + 1 = n + 1
    BY <1>1, <1>2 DEF Single
  <2> QED
    BY <1>1, <2>2
<1>3. ASSUME Single(At(q, A)), Head(q) \in A PROVE At(Tail(q), A) = {} /\ At(q, A) = {1}
  <2>1. \A n \in At(q, A) : n = 1
    BY <1>1, <1>3 DEF Single
  <2> QED
    BY <1>1, <1>3, <2>1
<1> QED
  BY <1>1, <1>2, <1>3

LEMMA SingleAppend ==
  ASSUME NEW S, NEW q \in Seq(S), NEW e \in S, NEW A
  PROVE  /\ e \notin A => At(Append(q, e), A) = At(q, A)
         /\ e \in A /\ At(q, A) = {} => At(Append(q, e), A) = {Len(q) + 1} /\ Single(At(Append(q, e), A))
BY AtAppend DEF Single

-----------------------------------------------------------------------------
(***************************************************************************)
(* Exactly one, or none, of the members of A in a sequence, and in what is *)
(* put together from sequences.                                            *)
(***************************************************************************)
\* Q has nothing when P has nothing, and exactly one when P has exactly one.
Same(P, Q) == (P = {} => Q = {}) /\ (Once(P) => Once(Q))

LEMMA OnceSingle ==
  ASSUME NEW P
  PROVE  Once(P) <=> P # {} /\ Single(P)
<1>1. ASSUME Once(P) PROVE P # {} /\ Single(P)
  BY <1>1 DEF Once, Single
<1>2. ASSUME P # {}, Single(P) PROVE Once(P)
  <2>1. PICK x \in P : TRUE
    BY <1>2
  <2>2. P = {x}
    BY <1>2, <2>1 DEF Single
  <2> QED
    BY <2>1, <2>2 DEF Once
<1> QED
  BY <1>1, <1>2

LEMMA NeverOnce == ~Once({})
BY DEF Once

LEMMA OnceOne ==
  ASSUME NEW x
  PROVE  Once({x})
BY DEF Once

\* Joining two sequences adds their members.
LEMMA AtConcat ==
  ASSUME NEW S, NEW q \in Seq(S), NEW r \in Seq(S), NEW A
  PROVE  /\ At(r, A) = {} => At(q \o r, A) = At(q, A)
         /\ At(q, A) = {} => Same(At(r, A), At(q \o r, A))
<1> DEFINE c == Len(q)
           d == Len(r)
           t == q \o r
<1>1. /\ c \in Nat /\ d \in Nat /\ DOMAIN q = 1 .. c /\ DOMAIN r = 1 .. d /\ DOMAIN t = 1 .. c + d
      /\ \A n \in 1 .. c : t[n] = q[n]
  OBVIOUS
<1>2. \A n \in 1 .. d : t[c + n] = r[n]
  OBVIOUS
<1> HIDE DEF c, d, t
<1>3. \A n \in 1 .. c + d : n \in 1 .. c \/ (n - c \in 1 .. d /\ n = c + (n - c))
  BY <1>1
<1>4. \A n \in 1 .. d : c + n \in 1 .. c + d /\ (c + n) - c = n
  BY <1>1
<1>5. 1 .. c \subseteq 1 .. c + d
  BY <1>1
<1>6. ASSUME At(r, A) = {} PROVE At(t, A) = At(q, A)
  <2>1. ASSUME NEW n \in At(t, A) PROVE n \in At(q, A)
    <3>1. n \in 1 .. c + d /\ t[n] \in A
      BY <1>1, <2>1 DEF At
    <3>2. n \notin 1 .. c => n - c \in At(r, A)
      BY <1>1, <1>2, <1>3, <3>1 DEF At
    <3> QED
      BY <1>1, <1>6, <3>1, <3>2 DEF At
  <2>2. At(q, A) \subseteq At(t, A)
    BY <1>1, <1>5 DEF At
  <2> QED
    BY <2>1, <2>2
<1>7. ASSUME At(q, A) = {} PROVE Same(At(r, A), At(t, A))
  <2>1. \A n \in At(t, A) : n - c \in At(r, A) /\ n = c + (n - c)
    <3>1. SUFFICES ASSUME NEW n \in At(t, A) PROVE n - c \in At(r, A) /\ n = c + (n - c)
      OBVIOUS
    <3>2. n \in 1 .. c + d /\ t[n] \in A
      BY <1>1, <3>1 DEF At
    <3>3. n \notin 1 .. c
      BY <1>1, <1>7, <3>2 DEF At
    <3>4. n - c \in 1 .. d /\ n = c + (n - c)
      BY <1>3, <3>2, <3>3
    <3>5. r[n - c] \in A
      BY <1>2, <3>2, <3>4
    <3> QED
      BY <1>1, <3>4, <3>5 DEF At
  <2>2. \A n \in At(r, A) : c + n \in At(t, A)
    BY <1>1, <1>2, <1>4 DEF At
  <2>3. At(r, A) = {} => At(t, A) = {}
    BY <2>1
  <2>4. ASSUME Once(At(r, A)) PROVE Once(At(t, A))
    <3>1. PICK x \in At(r, A) : At(r, A) = {x}
      BY <2>4 DEF Once
    <3>2. c + x \in At(t, A)
      BY <2>2, <3>1
    <3>3. \A n \in At(t, A) : n = c + x
      BY <2>1, <3>1
    <3>4. At(t, A) = {c + x}
      BY <3>2, <3>3
    <3> QED
      BY <3>4, OnceOne
  <2> QED
    BY <2>3, <2>4 DEF Same
<1> QED
  BY <1>6, <1>7 DEF t

\* What is removed from the front was all there was, or was not counted.
LEMMA AtHead ==
  ASSUME NEW S, NEW q \in Seq(S), q # << >>, NEW A
  PROVE  /\ Head(q) \notin A => Same(At(q, A), At(Tail(q), A))
         /\ Head(q) \in A => At(q, A) # {} /\ (Once(At(q, A)) => At(Tail(q), A) = {})
<1>1. ASSUME Head(q) \notin A PROVE Same(At(q, A), At(Tail(q), A))
  BY <1>1, SingleTail, OnceSingle DEF Same
<1>2. ASSUME Head(q) \in A PROVE At(q, A) # {} /\ (Once(At(q, A)) => At(Tail(q), A) = {})
  BY <1>2, SingleTail, AtTail, OnceSingle
<1> QED
  BY <1>1, <1>2

\* All the sequences have none: so has what they flatten to.  One has one, and the others none:
\* so has what they flatten to.
LEMMA AtFlatten ==
  ASSUME NEW S, NEW seqs \in Seq(Seq(S)), NEW A
  PROVE  /\ (\A i \in DOMAIN seqs : At(seqs[i], A) = {}) => At(FlattenSeq(seqs), A) = {}
         /\ \A i \in DOMAIN seqs : Once(At(seqs[i], A)) /\ (\A j \in DOMAIN seqs \ {i} : At(seqs[j], A) = {})
                                     => Once(At(FlattenSeq(seqs), A))
<1> DEFINE c == Len(seqs)
<1>1. c \in Nat /\ DOMAIN seqs = 1 .. c /\ \A i \in 1 .. c : seqs[i] \in Seq(S)
  OBVIOUS
<1>2. CASE c = 0
  <2>1. FlattenSeq(seqs) = << >>
    BY <1>2, FlattenPrefixes
  <2>2. 1 .. 0 = {}
    OBVIOUS
  <2>3. DOMAIN seqs = {}
    BY <1>1, <1>2, <2>2
  <2> QED
    BY <2>1, <2>3, AtEmpty
<1>3. CASE c # 0
  <2>1. PICK flat : Flattens(flat, seqs, S)
    BY <1>3, FlattenPrefixes
  <2> HIDE DEF c
  <2>2. /\ FlattenSeq(seqs) = flat[c] /\ flat[1] = seqs[1]
        /\ \A i \in 1 .. c : flat[i] \in Seq(S)
        /\ \A i \in 1 .. c - 1 : flat[i + 1] = flat[i] \o seqs[i + 1]
    BY <2>1 DEF Flattens, c
  <2> DEFINE None0(k) == \A i \in 1 .. k : At(seqs[i], A) = {}
             One0(k, i) == Once(At(seqs[i], A)) /\ \A j \in 1 .. k : j # i => At(seqs[j], A) = {}
             Right(k) == /\ None0(k) => At(flat[k], A) = {}
                         /\ \A i \in 1 .. k : One0(k, i) => Once(At(flat[k], A))
             T == {k \in Nat : k + 1 \in 1 .. c => Right(k + 1)}
  <2>3. Right(1)
    BY <2>2
  <2>4. ASSUME NEW k \in 1 .. c - 1, Right(k) PROVE Right(k + 1)
    <3>1. /\ k \in Nat /\ k \in 1 .. c /\ k + 1 \in 1 .. c /\ k + 1 \in 1 .. k + 1 /\ 1 .. k \subseteq 1 .. k + 1
          /\ k + 1 \notin 1 .. k /\ \A i \in 1 .. k + 1 : i = k + 1 \/ i \in 1 .. k
      BY <1>1
    <3>2. flat[k + 1] = flat[k] \o seqs[k + 1] /\ flat[k] \in Seq(S) /\ seqs[k + 1] \in Seq(S)
      BY <1>1, <2>2, <3>1
    <3>3. /\ At(seqs[k + 1], A) = {} => At(flat[k + 1], A) = At(flat[k], A)
          /\ At(flat[k], A) = {} => Same(At(seqs[k + 1], A), At(flat[k + 1], A))
      BY <3>2, AtConcat
    <3>4. ASSUME None0(k + 1) PROVE At(flat[k + 1], A) = {}
      <4>1. None0(k) /\ At(seqs[k + 1], A) = {}
        BY <3>1, <3>4
      <4> QED
        BY <2>4, <3>3, <4>1
    <3>5. ASSUME NEW i \in 1 .. k + 1, One0(k + 1, i) PROVE Once(At(flat[k + 1], A))
      <4>1. CASE i = k + 1
        <5>1. None0(k) /\ Once(At(seqs[k + 1], A))
          BY <3>1, <3>5, <4>1
        <5> QED
          BY <2>4, <3>3, <5>1 DEF Same
      <4>2. CASE i \in 1 .. k
        <5>1. One0(k, i) /\ At(seqs[k + 1], A) = {}
          BY <3>1, <3>5, <4>2
        <5> QED
          BY <2>4, <3>3, <4>2, <5>1
      <4> QED
        BY <3>1, <4>1, <4>2
    <3> HIDE DEF None0, One0
    <3> QED
      BY <3>4, <3>5
  <2>5. Nat \subseteq T
    <3>1. 0 \in T
      <4>1. 0 + 1 = 1
        OBVIOUS
      <4> HIDE DEF Right
      <4> QED
        BY <2>3, <4>1
    <3>2. ASSUME NEW k \in Nat, k \in T PROVE k + 1 \in T
      <4> HIDE DEF Right
      <4>1. SUFFICES ASSUME (k + 1) + 1 \in 1 .. c PROVE Right((k + 1) + 1)
        BY <3>2
      <4>2. k + 1 \in 1 .. c - 1 /\ k + 1 \in 1 .. c
        BY <1>1, <4>1
      <4>3. Right(k + 1)
        BY <3>2, <4>2
      <4> QED
        BY <2>4, <4>2, <4>3
    <3> HIDE DEF T
    <3> QED
      BY <3>1, <3>2, NatSet
  <2>6. Right(c)
    <3>1. c - 1 \in Nat /\ (c - 1) + 1 = c /\ c \in 1 .. c
      BY <1>1, <1>3
    <3>2. c - 1 \in T
      <4> HIDE DEF T
      <4> QED
        BY <2>5, <3>1
    <3> HIDE DEF Right
    <3> QED
      BY <3>1, <3>2
  <2> QED
    BY <1>1, <2>2, <2>6
<1> QED
  BY <1>2, <1>3

-----------------------------------------------------------------------------
(***************************************************************************)
(* Who waits for a preparation, place by place: place 0 is the queue of    *)
(* continuations, place i the waiters of preparation i.                    *)
(***************************************************************************)
Asks(who)    == {k \in GoType : k.who = who}
Goers(who)   == {c \in MicroType : c.go.who = who}
FileMessages == {m \in MessageType : m.re = "file"}
Places       == {0} \cup Preps
Part(s, who, i) == IF i = 0 THEN At(s.micro, Goers(who)) ELSE At(s.prep[i].waiters, Asks(who))

LEMMA PlacesFacts ==
  0 \notin Preps /\ Preps \subseteq Nat
BY WarmAssumption DEF Preps

LEMMA FilesAt ==
  ASSUME NEW q \in Seq(MessageType)
  PROVE  Files(q) = At(q, FileMessages)
<1>1. \A n \in DOMAIN q : q[n] \in MessageType
  OBVIOUS
<1> QED
  BY <1>1 DEF Files, At, FileMessages

LEMMA AsksAt ==
  ASSUME NEW q \in Seq(GoType), NEW who
  PROVE  {n \in DOMAIN q : q[n].who = who} = At(q, Asks(who))
<1>1. \A n \in DOMAIN q : q[n] \in GoType
  OBVIOUS
<1> QED
  BY <1>1 DEF At, Asks

LEMMA GoersAt ==
  ASSUME NEW q \in Seq(MicroType), NEW who
  PROVE  {n \in DOMAIN q : q[n].go.who = who} = At(q, Goers(who))
<1>1. \A n \in DOMAIN q : q[n] \in MicroType
  OBVIOUS
<1> QED
  BY <1>1 DEF At, Goers

LEMMA ContinuedAt ==
  ASSUME NEW q \in Seq(GoType), NEW ok \in BOOLEAN, NEW who
  PROVE  At(Continued(q, ok), Goers(who)) = At(q, Asks(who))
<1> DEFINE t == Continued(q, ok)
<1>1. t \in Seq(MicroType)
  BY ContinuedOK
<1>2. DOMAIN t = DOMAIN q /\ \A n \in DOMAIN q : t[n].go = q[n]
  BY DEF Continued
<1> HIDE DEF t
<1>3. {n \in DOMAIN t : t[n].go.who = who} = {n \in DOMAIN q : q[n].who = who}
  BY <1>2
<1> QED
  <2>1. At(t, Goers(who)) = {n \in DOMAIN t : t[n].go.who = who}
    BY <1>1, GoersAt
  <2>2. At(q, Asks(who)) = {n \in DOMAIN q : q[n].who = who}
    BY AsksAt
  <2>3. At(t, Goers(who)) = At(q, Asks(who))
    BY <1>3, <2>1, <2>2
  <2> QED
    BY <2>3 DEF t

LEMMA GoingParts ==
  ASSUME NEW s \in States, NEW who
  PROVE  Going(s, who) = UNION {{<<i, n>> : n \in Part(s, who, i)} : i \in Places}
<1>1. s.micro \in Seq(MicroType) /\ \A i \in Preps : s.prep[i].waiters \in Seq(GoType)
  BY DEF States, PrepType
<1>2. {k \in DOMAIN s.micro : s.micro[k].go.who = who} = Part(s, who, 0)
  BY <1>1, GoersAt DEF Part
<1>3. \A i \in Preps : {k \in DOMAIN s.prep[i].waiters : s.prep[i].waiters[k].who = who} = Part(s, who, i)
  BY <1>1, AsksAt, PlacesFacts DEF Part
<1> QED
  <2> DEFINE F == [i \in Places |-> {<<i, n>> : n \in Part(s, who, i)}]
  <2>1. Going(s, who) = (UNION {{<<i, n>> : n \in Part(s, who, i)} : i \in Preps}) \cup {<<0, n>> : n \in Part(s, who, 0)}
    BY <1>2, <1>3 DEF Going
  <2>2. \A i \in Preps : i \in Places /\ F[i] = {<<i, n>> : n \in Part(s, who, i)}
    BY DEF Places
  <2>3. 0 \in Places /\ F[0] = {<<0, n>> : n \in Part(s, who, 0)}
    BY DEF Places
  <2>4. {{<<i, n>> : n \in Part(s, who, i)} : i \in Preps} = {F[i] : i \in Preps}
    BY <2>2
  <2>5. {{<<i, n>> : n \in Part(s, who, i)} : i \in Places} = {F[i] : i \in Places}
    OBVIOUS
  <2> HIDE DEF F
  <2>6. UNION {F[i] : i \in Places} = (UNION {F[i] : i \in Preps}) \cup F[0]
    BY DEF Places
  <2> QED
    BY <2>1, <2>3, <2>4, <2>5, <2>6

LEMMA GoingNone ==
  ASSUME NEW s \in States, NEW who
  PROVE  Going(s, who) = {} <=> \A i \in Places : Part(s, who, i) = {}
<1>1. Going(s, who) = UNION {{<<i, n>> : n \in Part(s, who, i)} : i \in Places}
  BY GoingParts
<1>2. ASSUME Going(s, who) = {}, NEW i \in Places PROVE Part(s, who, i) = {}
  <2>1. \A n \in Part(s, who, i) : <<i, n>> \in Going(s, who)
    BY <1>1
  <2> QED
    BY <1>2, <2>1
<1>3. ASSUME \A i \in Places : Part(s, who, i) = {} PROVE Going(s, who) = {}
  BY <1>1, <1>3
<1> QED
  BY <1>2, <1>3

\* Exactly one waits at place i, and nobody elsewhere.
OneAt(s, who, i) == Once(Part(s, who, i)) /\ \A j \in Places \ {i} : Part(s, who, j) = {}

LEMMA GoingOne ==
  ASSUME NEW s \in States, NEW who
  PROVE  Once(Going(s, who)) <=> \E i \in Places : OneAt(s, who, i)
<1>1. Going(s, who) = UNION {{<<i, n>> : n \in Part(s, who, i)} : i \in Places}
  BY GoingParts
<1>2. ASSUME Once(Going(s, who)) PROVE \E i \in Places : OneAt(s, who, i)
  <2>1. PICK x \in Going(s, who) : \A y \in Going(s, who) : y = x
    BY <1>2 DEF Once
  <2>0. PICK i \in Places : \E n \in Part(s, who, i) : x = <<i, n>>
    BY <1>1, <2>1
  <2>2. PICK n \in Part(s, who, i) : x = <<i, n>>
    BY <2>0
  <2>3. \A j \in Places : \A m \in Part(s, who, j) : <<j, m>> = <<i, n>>
    <3>1. SUFFICES ASSUME NEW j \in Places, NEW m \in Part(s, who, j) PROVE <<j, m>> = <<i, n>>
      OBVIOUS
    <3>2. <<j, m>> \in Going(s, who)
      BY <1>1
    <3> QED
      BY <2>1, <2>2, <3>2
  <2>4. \A j \in Places : \A m \in Part(s, who, j) : j = i /\ m = n
    BY <2>3
  <2>5. Part(s, who, i) = {n}
    BY <2>2, <2>4
  <2>6. \A j \in Places \ {i} : Part(s, who, j) = {}
    BY <2>4
  <2> QED
    BY <2>5, <2>6, OnceOne DEF OneAt
<1>3. ASSUME NEW i \in Places, OneAt(s, who, i) PROVE Once(Going(s, who))
  <2>1. PICK n \in Part(s, who, i) : Part(s, who, i) = {n}
    BY <1>3 DEF OneAt, Once
  <2>2. <<i, n>> \in Going(s, who)
    BY <1>1, <2>1
  <2>3. ASSUME NEW y \in Going(s, who) PROVE y = <<i, n>>
    <3>0. PICK j \in Places : \E m \in Part(s, who, j) : y = <<j, m>>
      BY <1>1
    <3>1. PICK m \in Part(s, who, j) : y = <<j, m>>
      BY <3>0
    <3>2. j = i
      BY <1>3, <3>1 DEF OneAt
    <3> QED
      BY <2>1, <3>1, <3>2
  <2>4. Going(s, who) = {<<i, n>>}
    BY <2>2, <2>3
  <2> QED
    BY <2>4, OnceOne
<1> QED
  BY <1>2, <1>3

\* Each place keeps what it has.
LEMMA GoingSame ==
  ASSUME NEW s \in States, NEW t \in States, NEW who,
         \A i \in Places : Same(Part(s, who, i), Part(t, who, i))
  PROVE  Same(Going(s, who), Going(t, who))
<1>1. ASSUME Going(s, who) = {} PROVE Going(t, who) = {}
  BY <1>1, GoingNone DEF Same
<1>2. ASSUME Once(Going(s, who)) PROVE Once(Going(t, who))
  <2>1. PICK i \in Places : OneAt(s, who, i)
    BY <1>2, GoingOne
  <2>2. OneAt(t, who, i)
    BY <2>1 DEF OneAt, Same
  <2> QED
    BY <2>2, GoingOne
<1> QED
  BY <1>1, <1>2 DEF Same

-----------------------------------------------------------------------------
(***************************************************************************)
(* What the handlers of the worker answer to an export.                    *)
(***************************************************************************)
\* A handler that says nothing of a file and leaves the lock of the engine alone.
Silent(r, w) == /\ r.w.alive = w.alive /\ r.w.job.on = w.job.on
                /\ Files(r.out) = {}
\* A handler that ends an export with a file, or with the refusal of one, or leaves it under way.
Settles(r, w) == /\ r.w.alive = w.alive
                 /\ IF r.w.job.on THEN Files(r.out) = {} ELSE Once(Files(r.out))

LEMMA SaysFiles ==
  ASSUME NEW w, NEW m
  PROVE  /\ Says(w, m).w = w /\ Quietly(w).w = w /\ Files(Quietly(w).out) = {}
         /\ m.re # "file" => Files(Says(w, m).out) = {}
         /\ m.re = "file" => Once(Files(Says(w, m).out))
<1>1. Says(w, m).w = w /\ Quietly(w).w = w /\ Says(w, m).out = <<m>> /\ Quietly(w).out = << >>
  BY DEF Says, Quietly
<1>2. DOMAIN <<m>> = {1} /\ <<m>>[1] = m /\ DOMAIN << >> = {}
  OBVIOUS
<1>3. Files(Quietly(w).out) = {}
  BY <1>1, <1>2 DEF Files
<1>4. m.re # "file" => Files(Says(w, m).out) = {}
  BY <1>1, <1>2 DEF Files
<1>5. m.re = "file" => Files(Says(w, m).out) = {1}
  BY <1>1, <1>2 DEF Files
<1> QED
  BY <1>1, <1>3, <1>4, <1>5, OnceOne

LEMMA SaysSilent ==
  ASSUME NEW w, NEW v, v.alive = w.alive, v.job.on = w.job.on
  PROVE  /\ Silent(Quietly(v), w)
         /\ \A m : m.re # "file" => Silent(Says(v, m), w)
BY SaysFiles DEF Silent

LEMMA ReplyKinds ==
  /\ \A i, ok : LoadReply(i, ok).re = "load" /\ FontReply(i, ok).re = "loadFont"
  /\ \A m, res : WarmReply(m, res).re = "warm"
  /\ \A made : FileReply(made).re = "file"
BY DEF LoadReply, FontReply, WarmReply, FileReply

LEMMA HandleLoadSilent ==
  ASSUME NEW w \in WorkerType, NEW i, NEW b
  PROVE  Silent(HandleLoad(w, i, b), w)
<1> DEFINE q == [w EXCEPT !.loads = Append(w.loads, [prep |-> i, book |-> b])]
<1>1. /\ q.alive = w.alive /\ q.job = w.job
      /\ StartLoad(q).alive = w.alive /\ StartLoad(q).job = w.job
  BY DEF WorkerType, StartLoad, BeginLoad, Wait
<1>2. HandleLoad(w, i, b) = IF w.job.on THEN Says(w, LoadReply(i, FALSE))
                            ELSE Quietly(IF Replacing(w) THEN q ELSE StartLoad(q))
  BY DEF HandleLoad
<1> HIDE DEF q
<1>3. Silent(Says(w, LoadReply(i, FALSE)), w)
  BY SaysSilent, ReplyKinds
<1>4. Silent(Quietly(q), w) /\ Silent(Quietly(StartLoad(q)), w)
  BY <1>1, SaysSilent
<1> QED
  BY <1>2, <1>3, <1>4

LEMMA TakeFontSilent ==
  ASSUME NEW w \in WorkerType, NEW i, NEW f, NEW ok \in BOOLEAN
  PROVE  Silent(TakeFont(w, i, f, ok), w)
<1> DEFINE v == [w EXCEPT !.custom = f, !.font = "custom"]
<1>1. v.alive = w.alive /\ v.job = w.job
  BY DEF WorkerType
<1>2. TakeFont(w, i, f, ok) = Says(IF ok THEN v ELSE w, FontReply(i, ok))
  BY DEF TakeFont
<1> HIDE DEF v
<1>3. Silent(Says(w, FontReply(i, ok)), w) /\ Silent(Says(v, FontReply(i, ok)), w)
  BY <1>1, SaysSilent, ReplyKinds
<1> QED
  BY <1>2, <1>3

LEMMA HandleFontSilent ==
  ASSUME NEW w \in WorkerType, NEW i, NEW f, NEW ok \in BOOLEAN
  PROVE  Silent(HandleFont(w, i, f, ok), w)
<1> DEFINE v == Wait(w, [cmd |-> "loadFont", id |-> i, face |-> f])
<1>1. v.alive = w.alive /\ v.job = w.job
  BY DEF WorkerType, Wait
<1>2. \/ HandleFont(w, i, f, ok) = Says(w, FontReply(i, FALSE))
      \/ HandleFont(w, i, f, ok) = Quietly(v)
      \/ HandleFont(w, i, f, ok) = TakeFont(w, i, f, ok)
  BY DEF HandleFont
<1> HIDE DEF v
<1>3. Silent(Says(w, FontReply(i, FALSE)), w) /\ Silent(Quietly(v), w)
  BY <1>1, SaysSilent, ReplyKinds
<1> QED
  BY <1>2, <1>3, TakeFontSilent

LEMMA AppliedSame ==
  ASSUME NEW w \in WorkerType, NEW spec
  PROVE  /\ Applied(w, spec).alive = w.alive /\ Applied(w, spec).job = w.job
         /\ Applied(w, spec).waiting = w.waiting /\ Applied(w, spec).woken = w.woken
         /\ Applied(w, spec).custom = w.custom /\ Applied(w, spec).loads = w.loads
         /\ DOMAIN Applied(w, spec) = DOMAIN w
BY DEF WorkerType, Applied

LEMMA HandleWarmSilent ==
  ASSUME NEW w \in WorkerType, NEW m, m.tok \in Nat, NEW ok \in BOOLEAN
  PROVE  Silent(HandleWarm(w, m, ok), w)
<1> DEFINE taken == [w EXCEPT !.token = m.tok]
           b == [taken EXCEPT !.bytes = NoFile]
           a == Applied(b, m.spec)
           v == [a EXCEPT !.warm = NextSpine(a, Run(a, m))]
<1>1. taken \in WorkerType /\ taken.alive = w.alive /\ taken.job = w.job
  BY DEF WorkerType
<1>2. b \in WorkerType /\ b.alive = w.alive /\ b.job = w.job
  BY <1>1, NoFileType DEF WorkerType
<1> HIDE DEF b
<1>3. a.alive = w.alive /\ a.job = w.job /\ DOMAIN a = DOMAIN b
  BY <1>2, AppliedSame
<1> HIDE DEF a
<1>4. v.alive = w.alive /\ v.job = w.job
  BY <1>2, <1>3 DEF WorkerType
<1>5. \/ \E res : HandleWarm(w, m, ok) \in {Says(w, WarmReply(m, res)), Says(taken, WarmReply(m, res)),
                                            Says(b, WarmReply(m, res)), Says(a, WarmReply(m, res))}
      \/ HandleWarm(w, m, ok) = Quietly(v)
  BY DEF HandleWarm, a, b
<1> HIDE DEF taken, v
<1>6. \A res : /\ Silent(Says(w, WarmReply(m, res)), w) /\ Silent(Says(taken, WarmReply(m, res)), w)
               /\ Silent(Says(b, WarmReply(m, res)), w) /\ Silent(Says(a, WarmReply(m, res)), w)
  BY <1>1, <1>2, <1>3, SaysSilent, ReplyKinds
<1>7. Silent(Quietly(v), w)
  BY <1>4, SaysSilent
<1> QED
  BY <1>5, <1>6, <1>7

LEMMA CancelSame ==
  ASSUME NEW w \in WorkerType
  PROVE  LET v == HandleWarmCancel(w)
         IN  /\ v.alive = w.alive /\ v.job = w.job /\ v.custom = w.custom
             /\ v.loads = w.loads /\ v.waiting = w.waiting /\ v.woken = w.woken
BY DEF WorkerType, HandleWarmCancel

LEMMA FetchSettles ==
  ASSUME NEW w \in WorkerType, ~w.job.on
  PROVE  Settles(HandleFetch(w), w) /\ ~HandleFetch(w).w.job.on
<1> DEFINE v == [w EXCEPT !.bytes = NoFile]
<1>1. v.alive = w.alive /\ v.job = w.job
  BY DEF WorkerType
<1>2. HandleFetch(w) = IF Replacing(w) THEN Says(w, FileReply(NoFile)) ELSE Says(v, FileReply(w.bytes))
  BY DEF HandleFetch
<1> HIDE DEF v
<1> QED
  BY <1>1, <1>2, SaysFiles, ReplyKinds DEF Settles

LEMMA ExportFailsSettles ==
  ASSUME NEW w, DOMAIN w = DOMAIN NoWorker
  PROVE  Settles(ExportFails(w), w)
<1> DEFINE v == [w EXCEPT !.job = NoRun]
<1>1. DOMAIN NoWorker = {"alive", "book", "custom", "spec", "font", "token", "warm", "job", "bytes", "loads", "waiting", "woken"}
  BY DEF NoWorker
<1>2. v.alive = w.alive /\ v.job = NoRun
  BY <1>1
<1>3. ~NoRun.on
  BY DEF NoRun
<1>4. ExportFails(w) = Says(v, FileReply(NoFile))
  BY DEF ExportFails
<1> HIDE DEF v
<1> QED
  BY <1>2, <1>3, <1>4, SaysFiles, ReplyKinds DEF Settles

LEMMA WorkerDomain ==
  ASSUME NEW w \in WorkerType
  PROVE  DOMAIN w = DOMAIN NoWorker
BY DEF WorkerType, NoWorker

LEMMA NextSpineOn ==
  ASSUME NEW w, NEW m, NEW run \in RunType
  PROVE  NextSpine(w, run).on = run.on /\ NextSpine(w, Run(w, m)).on
BY DEF NextSpine, Run, NoRun, RunType

LEMMA BeginExportSettles ==
  ASSUME NEW w \in WorkerType, NEW spec, NEW ok \in BOOLEAN
  PROVE  Settles(BeginExport(w, spec, ok), w)
<1> DEFINE a == Applied(w, spec)
           run == NextSpine(a, Run(a, NoRun))
           v == [a EXCEPT !.job = run]
<1>1. a.alive = w.alive /\ DOMAIN a = DOMAIN NoWorker
  BY AppliedSame, WorkerDomain
<1>2. run.on
  BY NoRunType, NextSpineOn
<1>3. BeginExport(w, spec, ok) = IF ~CanApply(w, spec) THEN ExportFails(w)
                                 ELSE IF ~ok THEN ExportFails(a) ELSE Quietly(v)
  BY DEF BeginExport
<1> HIDE DEF a, run
<1>4. DOMAIN NoWorker = {"alive", "book", "custom", "spec", "font", "token", "warm", "job", "bytes", "loads", "waiting", "woken"}
  BY DEF NoWorker
<1>5. v.alive = w.alive /\ v.job = run
  BY <1>1, <1>4
<1> HIDE DEF v
<1>6. Settles(Quietly(v), w)
  BY <1>2, <1>5, SaysFiles DEF Settles
<1>7. Settles(ExportFails(w), w) /\ Settles(ExportFails(a), w)
  BY <1>1, WorkerDomain, ExportFailsSettles DEF Settles
<1> QED
  BY <1>3, <1>6, <1>7

LEMMA HandleExportSettles ==
  ASSUME NEW w \in WorkerType, ~w.job.on, NEW spec, NEW ok \in BOOLEAN
  PROVE  Settles(HandleExport(w, spec, ok), w)
<1> DEFINE job == [NoRun EXCEPT !.on = TRUE]
           v == [Wait(w, [cmd |-> "exportBook", spec |-> spec]) EXCEPT !.job = job]
<1>1. job.on
  BY DEF NoRun
<1>2. HandleExport(w, spec, ok) =
        IF Replacing(w) \/ w.book = None \/ w.job.on THEN Says(w, FileReply(NoFile))
        ELSE IF w.warm.on THEN Quietly(v) ELSE BeginExport(w, spec, ok)
  BY DEF HandleExport
<1> HIDE DEF job
<1>3. v.alive = w.alive /\ v.job = job
  BY DEF WorkerType, Wait
<1> HIDE DEF v
<1>4. Settles(Quietly(v), w) /\ Settles(Says(w, FileReply(NoFile)), w)
  BY <1>1, <1>3, SaysFiles, ReplyKinds DEF Settles
<1> QED
  BY <1>2, <1>4, BeginExportSettles

LEMMA ExportGoesOnSettles ==
  ASSUME NEW w \in WorkerType, w.job.on, NEW ok \in BOOLEAN
  PROVE  Settles(ExportGoesOn(w, ok), w)
<1> DEFINE run == NextSpine(w, w.job)
           v == [w EXCEPT !.job = NoRun]
           u == [w EXCEPT !.job = run]
<1>1. w.job \in RunType
  BY DEF WorkerType
<1>2. run.on /\ ~NoRun.on
  BY <1>1, NextSpineOn DEF NoRun
<1>3. ExportGoesOn(w, ok) = IF w.job.done = Spines THEN Says(v, FileReply(w.job.made))
                            ELSE IF ok THEN Quietly(u) ELSE ExportFails(w)
  BY DEF ExportGoesOn
<1> HIDE DEF run
<1>4. v.alive = w.alive /\ v.job = NoRun /\ u.alive = w.alive /\ u.job = run
  BY DEF WorkerType
<1> HIDE DEF v, u
<1>5. Settles(Says(v, FileReply(w.job.made)), w) /\ Settles(Quietly(u), w)
  BY <1>2, <1>4, SaysFiles, ReplyKinds DEF Settles
<1>6. Settles(ExportFails(w), w)
  BY ExportFailsSettles, WorkerDomain
<1> QED
  BY <1>3, <1>5, <1>6

LEMMA EndWarmSame ==
  ASSUME NEW w \in WorkerType, NEW bytes
  PROVE  /\ EndWarm(w).alive = w.alive /\ EndWarm(w).job = w.job
         /\ EndWarm([w EXCEPT !.bytes = bytes]).alive = w.alive /\ EndWarm([w EXCEPT !.bytes = bytes]).job = w.job
BY DEF WorkerType, EndWarm

LEMMA WarmGoesOnSilent ==
  ASSUME NEW w \in WorkerType, NEW ok \in BOOLEAN
  PROVE  Silent(WarmGoesOn(w, ok), w)
<1> DEFINE e == EndWarm(w)
           f == EndWarm([w EXCEPT !.bytes = w.warm.made])
           v == [w EXCEPT !.warm = NextSpine(w, w.warm)]
<1>1. e.alive = w.alive /\ e.job = w.job /\ f.alive = w.alive /\ f.job = w.job
  BY EndWarmSame
<1>2. v.alive = w.alive /\ v.job = w.job
  BY DEF WorkerType
<1>3. \/ \E res : WarmGoesOn(w, ok) \in {Says(e, WarmReply(w.warm, res)), Says(f, WarmReply(w.warm, res))}
      \/ WarmGoesOn(w, ok) = Quietly(v)
  BY DEF WarmGoesOn
<1> HIDE DEF e, f, v
<1>4. \A res : Silent(Says(e, WarmReply(w.warm, res)), w) /\ Silent(Says(f, WarmReply(w.warm, res)), w)
  BY <1>1, SaysSilent, ReplyKinds
<1>5. Silent(Quietly(v), w)
  BY <1>2, SaysSilent
<1> QED
  BY <1>3, <1>4, <1>5

LEMMA LoadEndsSilent ==
  ASSUME NEW w \in WorkerType, NEW ok \in BOOLEAN
  PROVE  Silent(LoadEnds(w, ok), w)
<1> DEFINE l == Head(w.loads)
           book == IF ok THEN l.book ELSE None
           font == IF ok /\ w.spec.font = "custom" THEN "custom" ELSE "kopub"
           read == [w EXCEPT !.loads = Tail(w.loads), !.book = book, !.font = font]
<1>1. LoadEnds(w, ok) = Says(IF Replacing(read) THEN BeginLoad(read) ELSE read, LoadReply(l.prep, ok))
  BY DEF LoadEnds
<1> HIDE DEF l, book, font
<1>2. read.alive = w.alive /\ read.job = w.job /\ BeginLoad(read).alive = w.alive /\ BeginLoad(read).job = w.job
  BY DEF WorkerType, BeginLoad
<1> HIDE DEF read
<1>3. Silent(Says(read, LoadReply(l.prep, ok)), w) /\ Silent(Says(BeginLoad(read), LoadReply(l.prep, ok)), w)
  BY <1>2, SaysSilent, ReplyKinds
<1> QED
  BY <1>1, <1>3

\* A handler that waited for a warm: an export ends or is under way, another says nothing of files.
LEMMA ResumeAnswers ==
  ASSUME NEW w \in WorkerType, NEW h \in HandlerType, NEW ok \in BOOLEAN
  PROVE  /\ h.cmd # "exportBook" => Silent(Resume(w, h, ok), w)
         /\ h.cmd = "exportBook" => Settles(Resume(w, h, ok), w)
<1> DEFINE d == [w EXCEPT !.bytes = NoFile]
<1>1. d \in WorkerType /\ d.alive = w.alive /\ d.job = w.job
  BY NoFileType DEF WorkerType
<1>2. /\ h.cmd = "load" => Resume(w, h, ok) = Quietly(BeginLoad(d))
      /\ h.cmd = "loadFont" => Resume(w, h, ok) = TakeFont(d, h.id, h.face, ok)
      /\ h.cmd = "exportBook" => Resume(w, h, ok) = BeginExport(d, h.spec, ok)
  BY DEF Resume
<1>3. h.cmd \in {"load", "loadFont", "exportBook"}
  BY DEF HandlerType
<1> HIDE DEF d
<1>4. BeginLoad(d).alive = w.alive /\ BeginLoad(d).job = w.job
  BY <1>1 DEF WorkerType, BeginLoad
<1>5. Silent(Quietly(BeginLoad(d)), w)
  BY <1>4, SaysSilent
<1>6. Silent(TakeFont(d, h.id, h.face, ok), w)
  BY <1>1, TakeFontSilent DEF Silent
<1>7. Settles(BeginExport(d, h.spec, ok), w)
  BY <1>1, BeginExportSettles DEF Settles
<1> QED
  BY <1>2, <1>3, <1>5, <1>6, <1>7

-----------------------------------------------------------------------------
(***************************************************************************)
(* What the page owes and is owed.                                         *)
(***************************************************************************)
\* Who waits for a preparation waits for one that is under way, and an engine that is not alive is
\* not locked.
Rooms(s) == /\ \A i \in Preps : s.prep[i].step = "off" => s.prep[i].waiters = << >>
            /\ s.page.loaded \in Preps => s.prep[s.page.loaded].step # "off"
Sane(s) == Good(s) /\ Rooms(s) /\ (s.worker.job.on => s.worker.alive)

\* ExportIsAwaited, of a state of the page between two stretches of its code.
Lock(s) ==
  LET works == s.worker.job.on
      files == Files(s.inbox)
  IN  /\ IF s.page.press = "wait" THEN Once(Going(s, "export")) ELSE Going(s, "export") = {}
      /\ IF s.page.press \in {"serial", "fetch"} THEN IF works THEN files = {} ELSE Once(files)
                                                 ELSE ~works /\ files = {}
      /\ works => s.page.press = "serial"
Locked(s) == Sane(s) /\ Lock(s)

\* Nobody is to answer or continue an export.
Vacant(s) == Sane(s) /\ Going(s, "export") = {} /\ Files(s.inbox) = {} /\ ~s.worker.job.on

\* From s to t nothing is gained or lost of what an export waits for.
Keeps(t, s) ==
  /\ Sane(t) /\ t.page.press = s.page.press
  /\ Same(Going(s, "export"), Going(t, "export")) /\ Same(Files(s.inbox), Files(t.inbox))
  /\ t.worker.job.on = s.worker.job.on

LEMMA KeepsLocked ==
  ASSUME NEW s, NEW t, Locked(s), Keeps(t, s)
  PROVE  Locked(t)
BY DEF Locked, Keeps, Lock, Same

LEMMA KeepsVacant ==
  ASSUME NEW s, NEW t, Vacant(s), Keeps(t, s)
  PROVE  Vacant(t) /\ t.page.press = s.page.press
BY DEF Vacant, Keeps, Same

LEMMA KeepsTrans ==
  ASSUME NEW s, NEW t, NEW u, Keeps(t, s), Keeps(u, t)
  PROVE  Keeps(u, s)
BY DEF Keeps, Same

\* The page's variables that say which calls are under way.
SameRun(p, q) ==
  p.press = q.press /\ p.loaded = q.loaded /\ p.fontRun = q.fontRun /\ p.face = q.face /\ p.faceFor = q.faceFor /\ p.sig = q.sig
SameQueues(t, s) == t.prep = s.prep /\ t.micro = s.micro

LEMMA GoingUnchanged ==
  ASSUME NEW s, NEW t, SameQueues(t, s), NEW who
  PROVE  Going(t, who) = Going(s, who)
BY DEF Going, SameQueues

LEMMA FieldsKeep ==
  ASSUME NEW s, NEW t, Sane(s), Good(t), SameQueues(t, s), t.inbox = s.inbox,
         t.page.press = s.page.press, t.page.loaded = s.page.loaded \/ t.page.loaded \notin Preps,
         t.worker.job.on = s.worker.job.on, t.worker.alive = s.worker.alive
  PROVE  Keeps(t, s)
<1>1. Going(t, "export") = Going(s, "export")
  BY GoingUnchanged
<1>2. Rooms(t)
  BY DEF Sane, Rooms, SameQueues
<1> QED
  BY <1>1, <1>2 DEF Keeps, Sane, Same

LEMMA SetPageKeeps ==
  ASSUME NEW s, Sane(s), NEW p \in PageType, p.press = s.page.press, p.loaded = s.page.loaded \/ p.loaded \notin Preps
  PROVE  LET t == [s EXCEPT !.page = p] IN Keeps(t, s) /\ t.page = p /\ t.worker = s.worker /\ t.inbox = s.inbox /\ SameQueues(t, s)
<1> DEFINE t == [s EXCEPT !.page = p]
<1>1. t.page = p /\ t.worker = s.worker /\ t.inbox = s.inbox /\ SameQueues(t, s)
  BY DEF Sane, Good, States, SameQueues
<1>2. Good(t)
  BY PageOK DEF Sane
<1> HIDE DEF t
<1>3. Keeps(t, s)
  BY <1>1, <1>2, FieldsKeep
<1> QED
  BY <1>1, <1>3 DEF t

LEMMA ScheduleFields ==
  ASSUME NEW s, Good(s)
  PROVE  LET t == ScheduleWarm(s)
         IN  SameRun(t.page, s.page) /\ SameQueues(t, s) /\ t.worker = s.worker /\ t.inbox = s.inbox
BY DEF Good, States, PageType, ScheduleWarm, SameRun, SameQueues

LEMMA WarmEndsFields ==
  ASSUME NEW s, Good(s)
  PROVE  LET t == WarmEnds(s)
         IN  SameRun(t.page, s.page) /\ SameQueues(t, s) /\ t.worker = s.worker /\ t.inbox = s.inbox
BY DEF Good, States, PageType, WarmEnds, SameRun, SameQueues

LEMMA InvalidateFields ==
  ASSUME NEW s, Good(s)
  PROVE  LET t == InvalidateWarm(s)
         IN  /\ SameRun(t.page, s.page) /\ SameQueues(t, s) /\ t.inbox = s.inbox
             /\ t.worker = IF s.worker.alive THEN HandleWarmCancel(s.worker) ELSE s.worker
BY DEF Good, States, PageType, InvalidateWarm, SameRun, SameQueues

LEMMA ScheduleKeeps ==
  ASSUME NEW s, Sane(s)
  PROVE  Keeps(ScheduleWarm(s), s)
<1> DEFINE t == ScheduleWarm(s)
<1>1. Good(t) /\ SameRun(t.page, s.page) /\ SameQueues(t, s) /\ t.worker = s.worker /\ t.inbox = s.inbox
  BY ScheduleFields, ScheduleWarmOK DEF Sane
<1> HIDE DEF t
<1>2. Keeps(t, s)
  BY <1>1, FieldsKeep DEF SameRun
<1> QED
  BY <1>2 DEF t

LEMMA WarmEndsKeeps ==
  ASSUME NEW s, Sane(s)
  PROVE  Keeps(WarmEnds(s), s)
<1> DEFINE t == WarmEnds(s)
<1>1. Good(t) /\ SameRun(t.page, s.page) /\ SameQueues(t, s) /\ t.worker = s.worker /\ t.inbox = s.inbox
  BY WarmEndsFields, WarmEndsOK DEF Sane
<1> HIDE DEF t
<1>2. Keeps(t, s)
  BY <1>1, FieldsKeep DEF SameRun
<1> QED
  BY <1>2 DEF t

LEMMA InvalidateKeeps ==
  ASSUME NEW s, Sane(s)
  PROVE  Keeps(InvalidateWarm(s), s)
<1> DEFINE t == InvalidateWarm(s)
<1>1. s.worker \in WorkerType
  BY DEF Sane, Good, States
<1>2. /\ Good(t) /\ SameRun(t.page, s.page) /\ SameQueues(t, s) /\ t.inbox = s.inbox
      /\ t.worker.alive = s.worker.alive /\ t.worker.job = s.worker.job
  BY <1>1, InvalidateFields, InvalidateWarmOK, CancelSame DEF Sane
<1> HIDE DEF t
<1>3. Keeps(t, s)
  BY <1>2, FieldsKeep DEF SameRun
<1> QED
  BY <1>3 DEF t

\* A face is painted: the run of the font goes on, nothing else.
LEMMA PaintingFields ==
  ASSUME NEW s, Good(s)
  PROVE  LET t == Painting(s)
         IN  /\ t.page.fontRun = "painting" /\ SameRun([t.page EXCEPT !.fontRun = s.page.fontRun], s.page)
             /\ SameQueues(t, s) /\ t.worker = s.worker /\ t.inbox = s.inbox
BY DEF Good, States, PageType, Painting, SameRun, SameQueues

LEMMA PaintingKeeps ==
  ASSUME NEW s, Sane(s)
  PROVE  Keeps(Painting(s), s)
<1> DEFINE t == Painting(s)
<1>1. t.page.press = s.page.press /\ t.page.loaded = s.page.loaded
  BY DEF Sane, Good, States, PageType, Painting
<1>2. Good(t) /\ SameQueues(t, s) /\ t.worker = s.worker /\ t.inbox = s.inbox
  BY PaintingFields, PaintingOK DEF Sane
<1> HIDE DEF t
<1>3. Keeps(t, s)
  BY <1>1, <1>2, FieldsKeep
<1> QED
  BY <1>3 DEF t

-----------------------------------------------------------------------------
(* Calls. *)

LEMMA EngineFacts ==
  ASSUME NEW s, Sane(s)
  PROVE  /\ Engine(s) \in WorkerType /\ Calm(Engine(s)) /\ Engine(s).alive
         /\ Engine(s).job.on = s.worker.job.on
<1>1. Calm(Engine(s)) /\ Engine(s) \in WorkerType
  BY EngineOK DEF Sane, Calm, Sound
<1>2. CASE s.worker.alive
  BY <1>1, <1>2 DEF Engine
<1>3. CASE ~s.worker.alive
  <2>1. Engine(s).alive /\ Engine(s).job = NoRun
    BY <1>3 DEF Engine, NoWorker
  <2>2. ~s.worker.job.on /\ NoRun.on = FALSE
    BY <1>3 DEF Sane, NoRun
  <2>3. s.worker.job.on \in BOOLEAN
    BY DEF Sane, Good, States, WorkerType, RunType
  <2> QED
    BY <1>1, <2>1, <2>2, <2>3
<1> QED
  BY <1>2, <1>3

LEMMA CallFields ==
  ASSUME NEW s, Good(s), NEW r, Fine(r)
  PROVE  LET t == Call(s, r)
         IN  t.page = s.page /\ SameQueues(t, s) /\ t.worker = r.w /\ t.inbox = s.inbox \o r.out /\ Good(t)
<1>1. LET t == Call(s, r) IN Good(t) /\ t.page = s.page /\ t.prep = s.prep /\ t.micro = s.micro
  BY CallOK
<1>2. Call(s, r).worker = r.w /\ Call(s, r).inbox = s.inbox \o r.out
  BY DEF Call, Good, States
<1> QED
  BY <1>1, <1>2 DEF SameQueues

LEMMA FilesConcat ==
  ASSUME NEW q \in Seq(MessageType), NEW r \in Seq(MessageType)
  PROVE  /\ Files(r) = {} => Files(q \o r) = Files(q)
         /\ Files(q) = {} => Same(Files(r), Files(q \o r))
<1>1. q \o r \in Seq(MessageType)
  OBVIOUS
<1>2. /\ Files(q) = At(q, FileMessages) /\ Files(r) = At(r, FileMessages)
      /\ Files(q \o r) = At(q \o r, FileMessages)
  BY <1>1, FilesAt
<1> QED
  BY <1>2, AtConcat

LEMMA CallSilent ==
  ASSUME NEW s, Sane(s), NEW r, Fine(r), NEW w, Silent(r, w),
         w.job.on = s.worker.job.on, w.job.on => w.alive
  PROVE  Keeps(Call(s, r), s)
<1> DEFINE t == Call(s, r)
<1>1. t.page = s.page /\ SameQueues(t, s) /\ t.worker = r.w /\ t.inbox = s.inbox \o r.out /\ Good(t)
  BY CallFields DEF Sane
<1> HIDE DEF t
<1>2. Going(t, "export") = Going(s, "export")
  BY <1>1, GoingUnchanged
<1>3. s.inbox \in Seq(MessageType) /\ r.out \in Seq(MessageType)
  BY DEF Sane, Good, States, Fine, Talks
<1>4. Files(t.inbox) = Files(s.inbox)
  BY <1>1, <1>3, FilesConcat DEF Silent
<1>5. (t.worker.job.on => t.worker.alive) /\ t.worker.job.on = s.worker.job.on
  BY <1>1 DEF Silent
<1>6. Rooms(t)
  BY <1>1 DEF Sane, Rooms, SameQueues
<1>7. Keeps(t, s)
  BY <1>1, <1>2, <1>4, <1>5, <1>6 DEF Keeps, Sane, Same
<1> QED
  BY <1>7 DEF t

LEMMA CallKeeps ==
  ASSUME NEW s, Sane(s), NEW r, Fine(r), Silent(r, Engine(s))
  PROVE  Keeps(Call(s, r), s)
BY EngineFacts, CallSilent

\* The call of an export is answered at once, or the engine is locked.
LEMMA CallSettles ==
  ASSUME NEW s, Vacant(s), NEW r, Fine(r), Settles(r, Engine(s)), r.w.job.on => s.page.press = "serial",
         s.page.press \in {"serial", "fetch"}
  PROVE  Locked(Call(s, r))
<1> DEFINE t == Call(s, r)
<1>0. Sane(s)
  BY DEF Vacant
<1>1. t.page = s.page /\ SameQueues(t, s) /\ t.worker = r.w /\ t.inbox = s.inbox \o r.out /\ Good(t)
  BY <1>0, CallFields DEF Sane
<1> HIDE DEF t
<1>2. Going(t, "export") = {}
  BY <1>1, GoingUnchanged DEF Vacant
<1>3. s.inbox \in Seq(MessageType) /\ r.out \in Seq(MessageType)
  BY <1>0 DEF Sane, Good, States, Fine, Talks
<1>4. Same(Files(r.out), Files(t.inbox))
  BY <1>1, <1>3, FilesConcat DEF Vacant
<1>5. t.worker.alive
  BY <1>0, <1>1, EngineFacts DEF Settles
<1>6. Rooms(t)
  BY <1>0, <1>1 DEF Sane, Rooms, SameQueues
<1>7. IF t.worker.job.on THEN Files(t.inbox) = {} ELSE Once(Files(t.inbox))
  BY <1>1, <1>4 DEF Settles, Same
<1>8. Locked(t)
  BY <1>1, <1>2, <1>5, <1>6, <1>7 DEF Locked, Lock, Sane
<1> QED
  BY <1>8 DEF t

-----------------------------------------------------------------------------
(* Preparations. *)

LEMMA FreePrep ==
  ASSUME NEW s, FreePreps(s) # {}
  PROVE  LET i == CHOOSE j \in FreePreps(s) : \A k \in FreePreps(s) : j <= k
         IN  i \in Preps /\ s.prep[i].step = "off"
<1>1. FreePreps(s) \subseteq Preps /\ FreePreps(s) \subseteq Nat
  BY WarmAssumption DEF FreePreps, Preps
<1>2. \E j \in FreePreps(s) : \A k \in FreePreps(s) : j <= k
  BY <1>1, LeastOfNats
<1>3. (CHOOSE j \in FreePreps(s) : \A k \in FreePreps(s) : j <= k) \in FreePreps(s)
  BY <1>2
<1> QED
  BY <1>3 DEF FreePreps

\* Another preparation: nobody waits for it yet.
LEMMA PrepareKeeps ==
  ASSUME NEW s, Sane(s), FreePreps(s) # {}, NEW b \in Books
  PROVE  LET t == Prepare(s, b) IN Keeps(t, s) /\ t.page.loaded \in Preps /\ t.page.press = s.page.press
<1> DEFINE i == CHOOSE j \in FreePreps(s) : \A k \in FreePreps(s) : j <= k
<1>1. i \in Preps /\ s.prep[i].step = "off"
  BY FreePrep
<1> HIDE DEF i
<1> DEFINE new == [step |-> "load", book |-> b, waiters |-> << >>]
           p == [s.page EXCEPT !.loaded = i]
           preps == [s.prep EXCEPT ![i] = new]
           u == [s EXCEPT !.page = p, !.prep = preps]
<1>2. p \in PageType /\ p.loaded = i /\ p.press = s.page.press
  BY <1>1 DEF Sane, Good, States, PageType
<1>3. /\ preps \in [Preps -> PrepType] /\ preps[i].step # "off" /\ preps[i].waiters = << >>
      /\ \A j \in Preps : j # i => preps[j] = s.prep[j]
  BY <1>1, NoPrepType DEF Sane, Good, States
<1>4. s.prep[i].waiters = << >>
  BY <1>1 DEF Sane, Rooms
<1>5. Prepare(s, b) = Call(u, HandleLoad(Engine(s), i, b))
  BY DEF Prepare, i
<1> HIDE DEF p, preps
<1>6. Good(u) /\ u.page = p /\ u.prep = preps /\ u.micro = s.micro /\ u.worker = s.worker /\ u.inbox = s.inbox
  BY <1>2, <1>3 DEF Sane, Good, States
<1> HIDE DEF u
<1>7. Going(u, "export") = Going(s, "export")
  <2>1. \A j \in Preps : u.prep[j].waiters = s.prep[j].waiters
    BY <1>3, <1>4, <1>6
  <2> QED
    BY <1>6, <2>1 DEF Going
<1>8. Rooms(u)
  BY <1>2, <1>3, <1>6 DEF Sane, Rooms
<1>9. Sane(u) /\ Keeps(u, s)
  BY <1>2, <1>6, <1>7, <1>8 DEF Sane, Keeps, Same
<1>10. Engine(u) = Engine(s)
  BY <1>6 DEF Engine
<1>11. Fine(HandleLoad(Engine(s), i, b)) /\ Silent(HandleLoad(Engine(s), i, b), Engine(u))
  BY <1>1, <1>10, EngineFacts, HandleLoadOK, HandleLoadSilent
<1> DEFINE t == Call(u, HandleLoad(Engine(s), i, b))
<1>12. Keeps(t, u) /\ t.page = u.page
  BY <1>9, <1>11, CallKeeps, CallFields DEF Sane
<1> HIDE DEF t
<1>13. Keeps(t, s)
  BY <1>9, <1>12, KeepsTrans
<1> QED
  BY <1>1, <1>2, <1>5, <1>6, <1>12, <1>13 DEF t

LEMMA AwaitFields ==
  ASSUME NEW s, Good(s), s.page.loaded \in Preps, NEW k \in GoType
  PROVE  LET t == AwaitEngine(s, k)
             i == s.page.loaded
         IN  /\ t \in States /\ t.page = s.page /\ t.micro = s.micro /\ t.worker = s.worker /\ t.inbox = s.inbox
             /\ \A j \in Preps : t.prep[j].step = s.prep[j].step
             /\ \A j \in Preps : j # i => t.prep[j].waiters = s.prep[j].waiters
             /\ t.prep[i].waiters = Append(s.prep[i].waiters, k)
             /\ s.prep[i].waiters \in Seq(GoType)
<1> DEFINE t == AwaitEngine(s, k)
           i == s.page.loaded
<1>1. t \in States
  BY AwaitEngineOK DEF Good
<1>2. s.prep[i].waiters \in Seq(GoType) /\ \A j \in Preps : s.prep[j] \in PrepType
  BY DEF Good, States, PrepType
<1>3. /\ t.page = s.page /\ t.micro = s.micro /\ t.worker = s.worker /\ t.inbox = s.inbox
      /\ t.prep = [s.prep EXCEPT ![i].waiters = Append(s.prep[i].waiters, k)]
  BY DEF AwaitEngine, Good, States
<1>4. /\ \A j \in Preps : t.prep[j].step = s.prep[j].step
      /\ \A j \in Preps : j # i => t.prep[j].waiters = s.prep[j].waiters
      /\ t.prep[i].waiters = Append(s.prep[i].waiters, k)
  BY <1>2, <1>3 DEF Good, States, PrepType
<1> QED
  BY <1>1, <1>2, <1>3, <1>4

\* Somebody waits who did not: a place for one more.
LEMMA AwaitAt ==
  ASSUME NEW s, Good(s), s.page.loaded \in Preps, NEW k \in GoType, NEW who
  PROVE  LET t == AwaitEngine(s, k)
         IN  /\ k.who # who => Going(t, who) = Going(s, who)
             /\ k.who = who /\ Going(s, who) = {} => Once(Going(t, who))
<1> DEFINE t == AwaitEngine(s, k)
           i == s.page.loaded
<1>0. s \in States
  BY DEF Good
<1>1. /\ t \in States /\ t.micro = s.micro
      /\ \A j \in Preps : j # i => t.prep[j].waiters = s.prep[j].waiters
      /\ t.prep[i].waiters = Append(s.prep[i].waiters, k) /\ s.prep[i].waiters \in Seq(GoType)
  BY AwaitFields
<1> HIDE DEF t
<1>2. \A j \in Places \ {i} : Part(t, who, j) = Part(s, who, j)
  BY <1>1 DEF Part, Places
<1>3. i \in Places /\ i # 0
  BY PlacesFacts DEF Places
<1>4. /\ Part(t, who, i) = At(Append(s.prep[i].waiters, k), Asks(who))
      /\ Part(s, who, i) = At(s.prep[i].waiters, Asks(who))
  BY <1>1, <1>3 DEF Part
<1>5. k \in Asks(who) <=> k.who = who
  BY DEF Asks
<1>6. ASSUME k.who # who PROVE Going(t, who) = Going(s, who)
  <2>1. Part(t, who, i) = Part(s, who, i)
    BY <1>1, <1>4, <1>5, <1>6, AtAppend
  <2>2. \A j \in Places : Part(t, who, j) = Part(s, who, j)
    BY <1>2, <2>1
  <2>3. {{<<j, n>> : n \in Part(t, who, j)} : j \in Places} = {{<<j, n>> : n \in Part(s, who, j)} : j \in Places}
    BY <2>2
  <2> QED
    BY <1>0, <1>1, <2>3, GoingParts
<1>7. ASSUME k.who = who, Going(s, who) = {} PROVE Once(Going(t, who))
  <2>1. \A j \in Places : Part(s, who, j) = {}
    BY <1>0, <1>7, GoingNone
  <2>2. Part(t, who, i) = {Len(s.prep[i].waiters) + 1}
    BY <1>1, <1>3, <1>4, <1>5, <1>7, <2>1, SingleAppend
  <2>3. OneAt(t, who, i)
    BY <1>2, <2>1, <2>2, OnceOne DEF OneAt
  <2> QED
    BY <1>1, <1>3, <2>3, GoingOne
<1> QED
  BY <1>6, <1>7 DEF t

LEMMA AwaitSane ==
  ASSUME NEW s, Sane(s), s.page.loaded \in Preps, NEW k \in GoType
  PROVE  Sane(AwaitEngine(s, k))
<1> DEFINE t == AwaitEngine(s, k)
           i == s.page.loaded
<1>1. /\ t.page = s.page /\ t.worker = s.worker
      /\ \A j \in Preps : t.prep[j].step = s.prep[j].step
      /\ \A j \in Preps : j # i => t.prep[j].waiters = s.prep[j].waiters
  BY AwaitFields DEF Sane
<1>2. Good(t)
  BY AwaitEngineOK DEF Sane
<1> HIDE DEF t
<1>3. Rooms(t)
  BY <1>1 DEF Sane, Rooms
<1>4. Sane(t)
  BY <1>1, <1>2, <1>3 DEF Sane
<1> QED
  BY <1>4 DEF t

LEMMA AwaitKeeps ==
  ASSUME NEW s, Sane(s), s.page.loaded \in Preps, NEW k \in GoType, k.who # "export"
  PROVE  Keeps(AwaitEngine(s, k), s)
<1> DEFINE t == AwaitEngine(s, k)
<1>1. t.page = s.page /\ t.worker = s.worker /\ t.inbox = s.inbox
  BY AwaitFields DEF Sane
<1>2. Sane(t) /\ Going(t, "export") = Going(s, "export")
  BY AwaitSane, AwaitAt DEF Sane
<1> HIDE DEF t
<1>3. Keeps(t, s)
  BY <1>1, <1>2 DEF Keeps, Same
<1> QED
  BY <1>3 DEF t

\* The press waits for the engine.
LEMMA AwaitExport ==
  ASSUME NEW s, Vacant(s), s.page.press = "wait", s.page.loaded \in Preps
  PROVE  Locked(AwaitEngine(s, [who |-> "export"]))
<1> DEFINE k == [who |-> "export"]
           t == AwaitEngine(s, k)
<1>0. Sane(s) /\ k \in GoType /\ k.who = "export"
  BY DEF Vacant, GoType
<1> HIDE DEF k
<1>1. t.page = s.page /\ t.worker = s.worker /\ t.inbox = s.inbox
  BY <1>0, AwaitFields DEF Sane
<1>2. Sane(t) /\ Once(Going(t, "export"))
  BY <1>0, AwaitSane, AwaitAt DEF Sane, Vacant
<1> HIDE DEF t
<1>3. Locked(t)
  BY <1>1, <1>2 DEF Locked, Lock, Vacant
<1> QED
  BY <1>3 DEF t, k

\* A preparation has ended: who waited for it goes on.
PrepEnds(s, i, loaded, ok) ==
  [s EXCEPT !.prep[i] = NoPrep, !.page.loaded = loaded, !.micro = s.micro \o Continued(s.prep[i].waiters, ok)]

Ended(t, s, i, loaded, ok) ==
  /\ Good(t) /\ t.page.loaded = loaded /\ t.page.press = s.page.press
  /\ t.page.fontRun = s.page.fontRun /\ t.page.face = s.page.face
  /\ t.page.faceFor = s.page.faceFor /\ t.page.sig = s.page.sig
  /\ \A j \in Preps : t.prep[j] = IF j = i THEN NoPrep ELSE s.prep[j]
  /\ t.micro = s.micro \o Continued(s.prep[i].waiters, ok)
  /\ t.worker = s.worker /\ t.inbox = s.inbox

LEMMA PrepEndsFields ==
  ASSUME NEW s, Good(s), NEW i \in Preps, NEW ok \in BOOLEAN, NEW loaded \in {None, Ready} \cup Preps
  PROVE  Ended(PrepEnds(s, i, loaded, ok), s, i, loaded, ok)
<1> DEFINE t == PrepEnds(s, i, loaded, ok)
<1>1. Good(t)
  BY PrepEndsOK DEF PrepEnds
<1>2. /\ t.page = [s.page EXCEPT !.loaded = loaded] /\ t.prep = [s.prep EXCEPT ![i] = NoPrep]
      /\ t.micro = s.micro \o Continued(s.prep[i].waiters, ok)
      /\ t.worker = s.worker /\ t.inbox = s.inbox
  BY DEF PrepEnds, Good, States
<1> HIDE DEF t
<1>3. s.page \in PageType /\ s.prep \in [Preps -> PrepType]
  BY DEF Good, States
<1>4. /\ t.page.loaded = loaded /\ t.page.press = s.page.press
      /\ t.page.fontRun = s.page.fontRun /\ t.page.face = s.page.face
      /\ t.page.faceFor = s.page.faceFor /\ t.page.sig = s.page.sig
      /\ \A j \in Preps : t.prep[j] = IF j = i THEN NoPrep ELSE s.prep[j]
  BY <1>2, <1>3 DEF PageType
<1>5. Ended(t, s, i, loaded, ok)
  BY <1>1, <1>2, <1>4 DEF Ended
<1> QED
  BY <1>5 DEF t

LEMMA PrepEndsAt ==
  ASSUME NEW s, Good(s), NEW i \in Preps, NEW ok \in BOOLEAN, NEW loaded \in {None, Ready} \cup Preps, NEW who
  PROVE  Same(Going(s, who), Going(PrepEnds(s, i, loaded, ok), who))
<1> DEFINE t == PrepEnds(s, i, loaded, ok)
           more == Continued(s.prep[i].waiters, ok)
<1> HIDE DEF more
<1>a. Ended(t, s, i, loaded, ok)
  BY PrepEndsFields
<1> HIDE DEF t
<1>0. /\ Good(t) /\ \A j \in Preps : t.prep[j] = IF j = i THEN NoPrep ELSE s.prep[j]
      /\ t.micro = s.micro \o more
  BY <1>a DEF Ended, more
<1>1. t \in States /\ s \in States /\ t.micro = s.micro \o more
  BY <1>0 DEF Good
<1>2. /\ s.prep \in [Preps -> PrepType] /\ s.micro \in Seq(MicroType) /\ s.prep[i].waiters \in Seq(GoType)
  BY <1>1 DEF States, PrepType
<1>3. more \in Seq(MicroType) /\ At(more, Goers(who)) = At(s.prep[i].waiters, Asks(who))
  BY <1>2, ContinuedOK, ContinuedAt DEF more
<1>4. i \in Places /\ 0 \in Places /\ i # 0
  BY PlacesFacts DEF Places
<1>5. /\ \A j \in Places \ {0, i} : Part(t, who, j) = Part(s, who, j)
      /\ Part(t, who, i) = {}
  <2>2. NoPrep.waiters = << >>
    BY DEF NoPrep
  <2> QED
    BY <1>0, <1>4, <2>2, AtEmpty DEF Part, Places
<1>6. /\ Part(t, who, 0) = At(s.micro \o more, Goers(who))
      /\ Part(s, who, 0) = At(s.micro, Goers(who)) /\ Part(s, who, i) = At(more, Goers(who))
  BY <1>1, <1>3, <1>4 DEF Part
<1>7. /\ Part(s, who, i) = {} => Part(t, who, 0) = Part(s, who, 0)
      /\ Part(s, who, 0) = {} => Same(Part(s, who, i), Part(t, who, 0))
  BY <1>2, <1>3, <1>6, AtConcat
<1>8. ASSUME Going(s, who) = {} PROVE Going(t, who) = {}
  <2>1. \A j \in Places : Part(s, who, j) = {}
    BY <1>1, <1>8, GoingNone
  <2>2. \A j \in Places : Part(t, who, j) = {}
    BY <1>4, <1>5, <1>7, <2>1
  <2> QED
    BY <1>1, <2>2, GoingNone
<1>9. ASSUME Once(Going(s, who)) PROVE Once(Going(t, who))
  <2>1. PICK j \in Places : OneAt(s, who, j)
    BY <1>1, <1>9, GoingOne
  <2>2. CASE j = i \/ j = 0
    <3>1. Once(Part(t, who, 0))
      BY <1>4, <1>7, <2>1, <2>2 DEF OneAt, Same
    <3>2. OneAt(t, who, 0)
      BY <1>4, <1>5, <2>1, <2>2, <3>1 DEF OneAt
    <3> QED
      BY <1>1, <1>4, <3>2, GoingOne
  <2>3. CASE j # i /\ j # 0
    <3>1. Part(t, who, 0) = {}
      BY <1>4, <1>7, <2>1, <2>3 DEF OneAt
    <3>2. OneAt(t, who, j)
      BY <1>4, <1>5, <2>1, <2>3, <3>1 DEF OneAt
    <3> QED
      BY <1>1, <3>2, GoingOne
  <2> QED
    BY <2>2, <2>3
<1> QED
  BY <1>8, <1>9 DEF t, Same

LEMMA PrepEndsKeeps ==
  ASSUME NEW s, Sane(s), NEW i \in Preps, NEW ok \in BOOLEAN, NEW loaded \in {None, Ready} \cup Preps,
         loaded \in Preps => loaded = s.page.loaded /\ loaded # i
  PROVE  Keeps(PrepEnds(s, i, loaded, ok), s)
<1> DEFINE t == PrepEnds(s, i, loaded, ok)
<1>0. Good(s)
  BY DEF Sane
<1>1. /\ Good(t) /\ t.page.loaded = loaded /\ t.page.press = s.page.press
      /\ \A j \in Preps : t.prep[j] = IF j = i THEN NoPrep ELSE s.prep[j]
      /\ t.worker = s.worker /\ t.inbox = s.inbox
  <2>1. Ended(t, s, i, loaded, ok)
    BY <1>0, PrepEndsFields
  <2> HIDE DEF t
  <2> QED
    BY <2>1 DEF Ended
<1>2. Same(Going(s, "export"), Going(t, "export"))
  BY PrepEndsAt DEF Sane
<1> HIDE DEF t
<1>5. Rooms(t)
  <2>1. NoPrep.step = "off" /\ NoPrep.waiters = << >>
    BY DEF NoPrep
  <2> QED
    BY <1>1, <2>1 DEF Sane, Rooms
<1>6. Keeps(t, s)
  BY <1>1, <1>2, <1>5 DEF Keeps, Sane, Same
<1> QED
  BY <1>6 DEF t

LEMMA PrepFailsKeeps ==
  ASSUME NEW s, Sane(s), NEW i \in Preps
  PROVE  Keeps(PrepFails(s, i), s)
<1>1. PrepFails(s, i) = PrepEnds(s, i, None, FALSE)
  BY DEF PrepFails, PrepEnds
<1>2. None \notin Preps
  BY PlacesFacts DEF None
<1> QED
  BY <1>1, <1>2, PrepEndsKeeps

LEMMA PrepSucceedsKeeps ==
  ASSUME NEW s, Sane(s), NEW i \in Preps
  PROVE  Keeps(PrepSucceeds(s, i), s)
<1> DEFINE loaded == IF s.page.loaded = i THEN Ready ELSE s.page.loaded
<1>1. loaded \in {None, Ready} \cup Preps /\ Ready \notin Preps
  BY PlacesFacts DEF Sane, Good, States, PageType, Ready
<1>2. PrepSucceeds(s, i) = PrepEnds(s, i, loaded, TRUE)
  BY DEF PrepSucceeds, PrepEnds
<1>3. loaded \in Preps => loaded = s.page.loaded /\ loaded # i
  BY <1>1
<1> HIDE DEF loaded
<1>4. Keeps(PrepEnds(s, i, loaded, TRUE), s)
  BY <1>1, <1>3, PrepEndsKeeps
<1> QED
  BY <1>2, <1>4

-----------------------------------------------------------------------------
(***************************************************************************)
(* The end of an engine: whoever waited for it, or for its preparation,    *)
(* goes on, and nobody twice.                                              *)
(***************************************************************************)
FontAsk == [who |-> "font"]
Syncing(s) == IF s.page.fontRun = "sync" THEN << <<FontAsk>> >> ELSE << >>
Waits(s)   == [i \in Preps |-> s.prep[i].waiters]
Gone(s)    == FlattenSeq(Syncing(s) \o Waits(s))

Killed(t, s) ==
  /\ t.worker = NoWorker /\ t.inbox = << >> /\ t.prep = [i \in Preps |-> NoPrep]
  /\ t.micro = s.micro \o Continued(Gone(s), FALSE)
  /\ t.page.loaded = None
  /\ t.page.face = s.page.face /\ t.page.faceFor = s.page.faceFor /\ t.page.sig = s.page.sig
  /\ t.page.fontRun = IF s.page.fontRun = "sync" THEN "waiting" ELSE s.page.fontRun
  /\ t.page.press = IF s.page.press \in {"serial", "fetch"} THEN "no" ELSE s.page.press

LEMMA UnlockFields ==
  ASSUME NEW s, Good(s)
  PROVE  LET t == Unlock(s)
         IN  /\ t.page.press = "no" /\ t.page.loaded = s.page.loaded /\ t.page.fontRun = s.page.fontRun
             /\ t.page.face = s.page.face /\ t.page.faceFor = s.page.faceFor /\ t.page.sig = s.page.sig
             /\ SameQueues(t, s) /\ t.worker = s.worker /\ t.inbox = s.inbox
BY DEF Good, States, PageType, Unlock, SameQueues

LEMMA WaitsType ==
  ASSUME NEW s, Good(s)
  PROVE  /\ Syncing(s) \in Seq(Seq(GoType)) /\ Waits(s) \in Seq(Seq(GoType))
         /\ Gone(s) \in Seq(GoType)
<1>1. \A i \in Preps : s.prep[i].waiters \in Seq(GoType)
  BY DEF Good, States, PrepType
<1>2. Waits(s) \in Seq(Seq(GoType))
  BY <1>1, WarmAssumption DEF Preps, Waits
<1>3. Syncing(s) \in Seq(Seq(GoType))
  <2>1. FontAsk \in GoType
    BY DEF FontAsk, GoType
  <2>2. <<FontAsk>> \in Seq(GoType)
    BY <2>1
  <2> QED
    BY <2>2 DEF Syncing
<1>4. Syncing(s) \o Waits(s) \in Seq(Seq(GoType))
  BY <1>2, <1>3
<1> QED
  BY <1>2, <1>3, <1>4, FlattenType DEF Gone

LEMMA KillFields ==
  ASSUME NEW s, Good(s)
  PROVE  Good(KillExportEngine(s)) /\ Killed(KillExportEngine(s), s)
<1> DEFINE gone == Continued(Gone(s), FALSE)
           p == [s.page EXCEPT !.loaded = None, !.warmKey = NoKey,
                               !.fontRun = IF s.page.fontRun = "sync" THEN "waiting" ELSE s.page.fontRun]
           preps == [i \in Preps |-> NoPrep]
           micro0 == s.micro \o gone
           dead == [s EXCEPT !.worker = NoWorker, !.inbox = << >>, !.prep = preps, !.page = p, !.micro = micro0]
           warmed == IF s.worker.warm.on \/ \E n \in DOMAIN s.inbox : s.inbox[n].re = "warm"
                     THEN WarmEnds(ScheduleWarm(dead)) ELSE dead
<1>1. s.page \in PageType /\ s.prep \in [Preps -> PrepType] /\ s.micro \in Seq(MicroType)
  BY DEF Good, States
<1>2. gone \in Seq(MicroType)
  BY WaitsType, ContinuedOK
<1>3. KillExportEngine(s) = IF s.page.press \in {"serial", "fetch"} THEN Unlock(warmed) ELSE warmed
  <2>1. dead = [s EXCEPT !.worker = NoWorker, !.inbox = << >>, !.prep = preps,
                         !.page.loaded = None, !.page.warmKey = NoKey,
                         !.page.fontRun = IF @ = "sync" THEN "waiting" ELSE @,
                         !.micro = @ \o gone]
    BY <1>1 DEF PageType, Good, States
  <2> QED
    BY <2>1 DEF KillExportEngine, Gone, Syncing, Waits, FontAsk
<1> HIDE DEF gone
<1>4. micro0 \in Seq(MicroType)
  BY <1>1, <1>2
<1>5. /\ p \in PageType /\ p.loaded = None /\ p.press = s.page.press
      /\ p.face = s.page.face /\ p.faceFor = s.page.faceFor /\ p.sig = s.page.sig
      /\ p.fontRun = IF s.page.fontRun = "sync" THEN "waiting" ELSE s.page.fontRun
  BY <1>1, DefaultType DEF PageType, FontRuns
<1>6. preps \in [Preps -> PrepType]
  BY NoPrepType
<1> HIDE DEF p, preps, micro0
<1>7. Good(dead)
  <2>1. << >> \in Seq(MessageType) /\ NoWorker \in WorkerType /\ Calm(NoWorker)
    BY NoWorkerCalm DEF Calm, Sound
  <2>2. dead.worker = NoWorker
    BY DEF Good, States
  <2> QED
    BY <1>4, <1>5, <1>6, <2>1, <2>2 DEF Good, States
<1>8. dead.page = p /\ dead.prep = preps /\ dead.micro = micro0 /\ dead.worker = NoWorker /\ dead.inbox = << >>
  BY DEF Good, States
<1> HIDE DEF dead
<1>9. Good(ScheduleWarm(dead)) /\ Good(WarmEnds(ScheduleWarm(dead)))
  BY <1>7, ScheduleWarmOK, WarmEndsOK
<1>10. /\ SameRun(WarmEnds(ScheduleWarm(dead)).page, dead.page)
       /\ SameQueues(WarmEnds(ScheduleWarm(dead)), dead)
       /\ WarmEnds(ScheduleWarm(dead)).worker = dead.worker /\ WarmEnds(ScheduleWarm(dead)).inbox = dead.inbox
  BY <1>7, <1>9, ScheduleFields, WarmEndsFields DEF SameRun, SameQueues
<1>11. /\ Good(warmed) /\ SameRun(warmed.page, p) /\ warmed.prep = preps /\ warmed.micro = micro0
       /\ warmed.worker = NoWorker /\ warmed.inbox = << >>
  BY <1>7, <1>8, <1>9, <1>10 DEF SameRun, SameQueues
<1> HIDE DEF warmed
<1>12. Good(Unlock(warmed))
  BY <1>11, UnlockOK
<1>13. Good(KillExportEngine(s))
  BY <1>3, <1>11, <1>12
<1>14. CASE s.page.press \in {"serial", "fetch"}
  <2>1. Killed(Unlock(warmed), s)
    BY <1>5, <1>11, <1>14, UnlockFields DEF Killed, SameRun, SameQueues, preps, micro0, gone
  <2> QED
    BY <1>3, <1>13, <1>14, <2>1
<1>15. CASE s.page.press \notin {"serial", "fetch"}
  <2>1. Killed(warmed, s)
    BY <1>5, <1>11, <1>15 DEF Killed, SameRun, preps, micro0, gone
  <2> QED
    BY <1>3, <1>13, <1>15, <2>1
<1> QED
  BY <1>14, <1>15

\* The sequences that are flattened, by their positions.
LEMMA WaitsAt ==
  ASSUME NEW s, Good(s)
  PROVE  LET q == Syncing(s) \o Waits(s)
             c == Len(Syncing(s))
         IN  /\ c \in {0, 1} /\ (c = 1 <=> s.page.fontRun = "sync")
             /\ \A i \in Preps : c + i \in DOMAIN q /\ q[c + i] = s.prep[i].waiters
             /\ \A j \in DOMAIN q : (c = 1 /\ j = 1 /\ q[j] = <<FontAsk>>)
                                      \/ \E i \in Preps : j = c + i /\ q[j] = s.prep[i].waiters
             /\ c = 1 => 1 \in DOMAIN q
<1> DEFINE a == Syncing(s)
           b == Waits(s)
           q == a \o b
           c == Len(a)
<1>1. a \in Seq(Seq(GoType)) /\ b \in Seq(Seq(GoType))
  BY WaitsType
<1>2. /\ c \in {0, 1} /\ (c = 1 <=> s.page.fontRun = "sync") /\ (c = 1 => a[1] = <<FontAsk>>)
  BY DEF Syncing
<1>3. /\ DOMAIN b = 1 .. MaxPreps /\ Len(b) = MaxPreps /\ MaxPreps \in Nat
      /\ \A i \in Preps : b[i] = s.prep[i].waiters
  BY WarmAssumption DEF Waits, Preps
<1> HIDE DEF a, b
<1>4. /\ DOMAIN q = 1 .. c + MaxPreps /\ \A j \in 1 .. c : q[j] = a[j]
      /\ \A i \in 1 .. MaxPreps : q[c + i] = b[i]
  <2>1. ASSUME NEW S, NEW x \in Seq(S), NEW y \in Seq(S)
        PROVE  /\ Len(x) \in Nat /\ DOMAIN (x \o y) = 1 .. Len(x) + Len(y)
               /\ \A j \in 1 .. Len(x) : (x \o y)[j] = x[j]
    OBVIOUS
  <2>2. ASSUME NEW S, NEW x \in Seq(S), NEW y \in Seq(S)
        PROVE  \A i \in 1 .. Len(y) : (x \o y)[Len(x) + i] = y[i]
    OBVIOUS
  <2>3. Len(a) \in Nat /\ DOMAIN (a \o b) = 1 .. Len(a) + Len(b) /\ \A j \in 1 .. Len(a) : (a \o b)[j] = a[j]
    BY <1>1, <2>1
  <2>4. \A i \in 1 .. Len(b) : (a \o b)[Len(a) + i] = b[i]
    BY <1>1, <2>2
  <2> QED
    BY <1>3, <2>3, <2>4
<1> HIDE DEF c, q
<1>5. \A i \in Preps : c + i \in DOMAIN q /\ q[c + i] = s.prep[i].waiters
  BY <1>2, <1>3, <1>4 DEF Preps
<1>6. ASSUME NEW j \in DOMAIN q
      PROVE  (c = 1 /\ j = 1 /\ q[j] = <<FontAsk>>) \/ \E i \in Preps : j = c + i /\ q[j] = s.prep[i].waiters
  <2>1. CASE j <= c
    BY <1>2, <1>4, <1>6, <2>1
  <2>2. CASE j > c
    <3>1. j - c \in Preps /\ j = c + (j - c)
      BY <1>2, <1>3, <1>4, <1>6, <2>2 DEF Preps
    <3>2. q[j] = s.prep[j - c].waiters
      BY <1>5, <3>1
    <3> QED
      BY <3>1, <3>2
  <2> QED
    BY <1>2, <1>3, <1>4, <2>1, <2>2
<1>7. c = 1 => 1 \in DOMAIN q
  BY <1>3, <1>4
<1> QED
  BY <1>2, <1>5, <1>6, <1>7 DEF a, b, c, q

\* Exactly those who waited go on.
LEMMA GoneAt ==
  ASSUME NEW s, Good(s), NEW who, s.page.fontRun = "sync" => who # "font"
  PROVE  /\ (\A i \in Preps : Part(s, who, i) = {}) => At(Gone(s), Asks(who)) = {}
         /\ \A i \in Preps : Once(Part(s, who, i)) /\ (\A j \in Preps \ {i} : Part(s, who, j) = {})
                               => Once(At(Gone(s), Asks(who)))
<1> DEFINE q == Syncing(s) \o Waits(s)
           c == Len(Syncing(s))
<1>1. /\ c \in {0, 1} /\ (c = 1 <=> s.page.fontRun = "sync")
      /\ \A i \in Preps : c + i \in DOMAIN q /\ q[c + i] = s.prep[i].waiters
      /\ \A j \in DOMAIN q : (c = 1 /\ j = 1 /\ q[j] = <<FontAsk>>)
                               \/ \E i \in Preps : j = c + i /\ q[j] = s.prep[i].waiters
  BY WaitsAt
<1>2. q \in Seq(Seq(GoType))
  BY WaitsType
<1>3. Gone(s) = FlattenSeq(q)
  BY DEF Gone
<1> HIDE DEF q, c
<1>4. \A i \in Preps : Part(s, who, i) = At(s.prep[i].waiters, Asks(who)) /\ i \in Nat
  BY PlacesFacts DEF Part
<1>5. c = 1 => At(<<FontAsk>>, Asks(who)) = {}
  BY <1>1 DEF At, Asks, FontAsk
<1>6. ASSUME \A i \in Preps : Part(s, who, i) = {} PROVE At(Gone(s), Asks(who)) = {}
  <2>1. \A j \in DOMAIN q : At(q[j], Asks(who)) = {}
    BY <1>1, <1>4, <1>5, <1>6
  <2> QED
    BY <1>2, <1>3, <2>1, AtFlatten
<1>7. ASSUME NEW i \in Preps, Once(Part(s, who, i)), \A j \in Preps \ {i} : Part(s, who, j) = {}
      PROVE  Once(At(Gone(s), Asks(who)))
  <2>1. c + i \in DOMAIN q /\ Once(At(q[c + i], Asks(who)))
    BY <1>1, <1>4, <1>7
  <2>2. ASSUME NEW j \in DOMAIN q \ {c + i} PROVE At(q[j], Asks(who)) = {}
    <3>1. CASE c = 1 /\ j = 1 /\ q[j] = <<FontAsk>>
      BY <1>5, <3>1
    <3>2. ASSUME NEW k \in Preps, j = c + k, q[j] = s.prep[k].waiters PROVE At(q[j], Asks(who)) = {}
      <4>1. k # i
        BY <2>2, <3>2
      <4> QED
        BY <1>4, <1>7, <3>2, <4>1
    <3> QED
      BY <1>1, <3>1, <3>2
  <2> QED
    BY <1>2, <1>3, <2>1, <2>2, AtFlatten
<1> QED
  BY <1>6, <1>7

\* The hot sync that was waiting for its answer goes on as well.
LEMMA GoneSync ==
  ASSUME NEW s, Good(s), s.page.fontRun = "sync", \A i \in Preps : Part(s, "font", i) = {}
  PROVE  Once(At(Gone(s), Asks("font")))
<1> DEFINE q == Syncing(s) \o Waits(s)
           c == Len(Syncing(s))
<1>1. /\ c = 1 /\ 1 \in DOMAIN q
      /\ \A i \in Preps : c + i \in DOMAIN q
      /\ \A j \in DOMAIN q : (j = 1 /\ q[j] = <<FontAsk>>)
                               \/ \E i \in Preps : j = c + i /\ q[j] = s.prep[i].waiters
  BY WaitsAt
<1>2. q \in Seq(Seq(GoType))
  BY WaitsType
<1>3. Gone(s) = FlattenSeq(q)
  BY DEF Gone
<1> HIDE DEF q, c
<1>4. \A i \in Preps : At(s.prep[i].waiters, Asks("font")) = {} /\ i \in Nat /\ i # 0
  BY PlacesFacts DEF Part
<1>5. At(<<FontAsk>>, Asks("font")) = {1}
  BY DEF At, Asks, FontAsk, GoType
<1>6. q[1] = <<FontAsk>>
  BY <1>1, <1>4
<1>7. \A j \in DOMAIN q \ {1} : At(q[j], Asks("font")) = {}
  BY <1>1, <1>4
<1>8. Once(At(q[1], Asks("font")))
  BY <1>5, <1>6, OnceOne
<1> QED
  BY <1>1, <1>2, <1>3, <1>7, <1>8, AtFlatten

LEMMA KillAt ==
  ASSUME NEW s, Good(s), NEW who, s.page.fontRun = "sync" => who # "font"
  PROVE  Same(Going(s, who), Going(KillExportEngine(s), who))
<1> DEFINE t == KillExportEngine(s)
           more == Continued(Gone(s), FALSE)
<1>1. t \in States /\ s \in States /\ t.prep = [i \in Preps |-> NoPrep] /\ t.micro = s.micro \o more
  BY KillFields DEF Good, Killed
<1> HIDE DEF t
<1>2. s.micro \in Seq(MicroType)
  BY <1>1 DEF States
<1>3. more \in Seq(MicroType) /\ At(more, Goers(who)) = At(Gone(s), Asks(who))
  BY WaitsType, ContinuedOK, ContinuedAt
<1> HIDE DEF more
<1>4. 0 \in Places /\ \A i \in Places : i = 0 \/ i \in Preps
  BY DEF Places
<1>5. \A i \in Preps : i \in Places /\ i # 0 /\ Part(t, who, i) = {}
  <2>1. NoPrep.waiters = << >>
    BY DEF NoPrep
  <2> QED
    BY <1>1, <2>1, PlacesFacts, AtEmpty DEF Part, Places
<1>6. /\ Part(t, who, 0) = At(s.micro \o more, Goers(who))
      /\ Part(s, who, 0) = At(s.micro, Goers(who))
  BY <1>1 DEF Part
<1>7. /\ At(Gone(s), Asks(who)) = {} => Part(t, who, 0) = Part(s, who, 0)
      /\ Part(s, who, 0) = {} => Same(At(Gone(s), Asks(who)), Part(t, who, 0))
  BY <1>2, <1>3, <1>6, AtConcat
<1>8. ASSUME Going(s, who) = {} PROVE Going(t, who) = {}
  <2>1. \A j \in Places : Part(s, who, j) = {}
    BY <1>1, <1>8, GoingNone
  <2>2. Part(t, who, 0) = {}
    BY <1>4, <1>5, <1>7, <2>1, GoneAt
  <2>3. \A j \in Places : Part(t, who, j) = {}
    BY <1>4, <1>5, <2>2
  <2> QED
    BY <1>1, <2>3, GoingNone
<1>9. ASSUME Once(Going(s, who)) PROVE Once(Going(t, who))
  <2>1. PICK j \in Places : OneAt(s, who, j)
    BY <1>1, <1>9, GoingOne
  <2>2. Once(Part(t, who, 0))
    <3>1. CASE j = 0
      <4>1. \A i \in Preps : Part(s, who, i) = {}
        BY <1>5, <2>1, <3>1 DEF OneAt
      <4> QED
        BY <1>7, <2>1, <3>1, <4>1, GoneAt DEF OneAt
    <3>2. CASE j # 0
      <4>1. j \in Preps /\ Part(s, who, 0) = {} /\ \A i \in Preps \ {j} : Part(s, who, i) = {}
        BY <1>4, <1>5, <2>1, <3>2 DEF OneAt
      <4>2. Once(At(Gone(s), Asks(who)))
        BY <2>1, <4>1, GoneAt DEF OneAt
      <4> QED
        BY <1>7, <4>1, <4>2 DEF Same
    <3> QED
      BY <3>1, <3>2
  <2>3. OneAt(t, who, 0)
    BY <1>4, <1>5, <2>2 DEF OneAt
  <2> QED
    BY <1>1, <1>4, <2>3, GoingOne
<1> QED
  BY <1>8, <1>9 DEF t, Same

\* An engine that is killed leaves nobody who is still to answer.
LEMMA KillSane ==
  ASSUME NEW s, Good(s)
  PROVE  LET t == KillExportEngine(s) IN Sane(t) /\ Files(t.inbox) = {} /\ ~t.worker.job.on
<1> DEFINE t == KillExportEngine(s)
<1>1. /\ Good(t) /\ t.worker = NoWorker /\ t.inbox = << >>
      /\ t.prep = [i \in Preps |-> NoPrep] /\ t.page.loaded = None
  BY KillFields DEF Killed
<1> HIDE DEF t
<1>2. NoPrep.waiters = << >> /\ None \notin Preps /\ ~NoWorker.job.on
  BY PlacesFacts DEF NoPrep, None, NoWorker, NoRun
<1>3. Rooms(t)
  BY <1>1, <1>2 DEF Rooms
<1>4. Files(<< >>) = {}
  BY DEF Files
<1>5. Sane(t) /\ Files(t.inbox) = {} /\ ~t.worker.job.on
  BY <1>1, <1>2, <1>3, <1>4 DEF Sane
<1> QED
  BY <1>5 DEF t

LEMMA KillPress ==
  ASSUME NEW s, Good(s)
  PROVE  /\ KillExportEngine(s).page.press = IF s.page.press \in {"serial", "fetch"} THEN "no" ELSE s.page.press
         /\ Same(Going(s, "export"), Going(KillExportEngine(s), "export"))
<1>1. Killed(KillExportEngine(s), s)
  BY KillFields
<1>2. Same(Going(s, "export"), Going(KillExportEngine(s), "export"))
  BY KillAt
<1> QED
  BY <1>1, <1>2 DEF Killed

\* Who waits for the engine still waits, and is told that there is none; a press that waits for an
\* answer is let go.
LEMMA KillLocked ==
  ASSUME NEW s, Locked(s)
  PROVE  Locked(KillExportEngine(s))
<1> DEFINE t == KillExportEngine(s)
<1>0. Good(s) /\ Lock(s)
  BY DEF Locked, Sane
<1>1. Sane(t) /\ Files(t.inbox) = {} /\ ~t.worker.job.on
  BY <1>0, KillSane
<1>2. /\ t.page.press = IF s.page.press \in {"serial", "fetch"} THEN "no" ELSE s.page.press
      /\ Same(Going(s, "export"), Going(t, "export"))
  BY <1>0, KillPress
<1> HIDE DEF t
<1>3. Lock(t)
  BY <1>0, <1>1, <1>2 DEF Lock, Same
<1>4. Locked(t)
  BY <1>1, <1>3 DEF Locked
<1> QED
  BY <1>4 DEF t

LEMMA KillVacant ==
  ASSUME NEW s, Vacant(s)
  PROVE  Vacant(KillExportEngine(s))
<1> DEFINE t == KillExportEngine(s)
<1>0. Good(s)
  BY DEF Vacant, Sane
<1>1. Sane(t) /\ Files(t.inbox) = {} /\ ~t.worker.job.on /\ Same(Going(s, "export"), Going(t, "export"))
  BY <1>0, KillSane, KillPress
<1> HIDE DEF t
<1>2. Vacant(t)
  BY <1>1 DEF Vacant, Same
<1> QED
  BY <1>2 DEF t

-----------------------------------------------------------------------------
(***************************************************************************)
(* What the page does with its engine, and the lock of the page.           *)
(***************************************************************************)
LEMMA SendWarmKeeps ==
  ASSUME NEW s, Sane(s), NEW k, IsWarm(k), NEW ok \in BOOLEAN
  PROVE  Keeps(SendWarm(s, k, ok), s)
<1> DEFINE m == [tok |-> k.tok, key |-> k.key, spec |-> Chosen(s.page)]
<1>1. m \in [tok : Nat, key : Keys, spec : Settings]
  BY ChosenOK DEF Sane, Good, States, IsWarm
<1>2. SendWarm(s, k, ok) = Call(s, HandleWarm(Engine(s), m, ok))
  BY DEF SendWarm
<1> HIDE DEF m
<1>3. Fine(HandleWarm(Engine(s), m, ok))
  BY <1>1, EngineOK, HandleWarmOK DEF Sane
<1>4. Silent(HandleWarm(Engine(s), m, ok), Engine(s))
  BY <1>1, EngineFacts, HandleWarmSilent
<1> QED
  BY <1>2, <1>3, <1>4, CallKeeps

LEMMA SetFontRun ==
  ASSUME NEW s, Sane(s), NEW f \in FontRuns
  PROVE  LET t == [s EXCEPT !.page.fontRun = f]
         IN  Keeps(t, s) /\ t.worker = s.worker /\ t.page.face = s.page.face /\ t.page.loaded = s.page.loaded
             /\ t.page.fontRun = f
<1> DEFINE p == [s.page EXCEPT !.fontRun = f]
<1>1. p \in PageType /\ p.press = s.page.press /\ p.loaded = s.page.loaded /\ p.face = s.page.face /\ p.fontRun = f
  BY DEF Sane, Good, States, PageType
<1> HIDE DEF p
<1>2. LET t == [s EXCEPT !.page = p] IN Keeps(t, s) /\ t.worker = s.worker /\ t.page = p
  BY <1>1, SetPageKeeps
<1> QED
  BY <1>1, <1>2 DEF p

LEMMA SyncFontKeeps ==
  ASSUME NEW s, Sane(s), NEW ok \in BOOLEAN
  PROVE  Keeps(SyncFont(s, ok), s)
<1> DEFINE t == [s EXCEPT !.page.fontRun = "sync"]
           r == HandleFont(Engine(s), 0, s.page.face, ok)
<1>1. Keeps(t, s) /\ t.worker = s.worker
  BY SetFontRun DEF FontRuns
<1>2. s.page.face \in Faces
  BY DEF Sane, Good, States, PageType
<1>3. SyncFont(s, ok) = Call(t, r)
  BY DEF SyncFont
<1> HIDE DEF t
<1>4. Engine(t) = Engine(s) /\ Sane(t)
  BY <1>1 DEF Engine, Keeps
<1>5. Fine(r)
  BY <1>2, EngineOK, HandleFontOK DEF Sane
<1>6. Silent(r, Engine(t))
  BY <1>4, EngineFacts, HandleFontSilent
<1> HIDE DEF r
<1>7. Keeps(Call(t, r), t)
  BY <1>4, <1>5, <1>6, CallKeeps
<1> QED
  BY <1>1, <1>3, <1>7, KeepsTrans

LEMMA SyncFailsLocked ==
  ASSUME NEW s, Locked(s)
  PROVE  Locked(SyncFails(s))
<1> DEFINE t == [s EXCEPT !.page.fontRun = "waiting"]
<1>1. Keeps(t, s)
  BY SetFontRun DEF FontRuns, Locked
<1>2. SyncFails(s) = Painting(KillExportEngine(t))
  BY DEF SyncFails
<1> HIDE DEF t
<1>3. Locked(KillExportEngine(t))
  BY <1>1, KeepsLocked, KillLocked
<1>4. Keeps(Painting(KillExportEngine(t)), KillExportEngine(t))
  BY <1>3, PaintingKeeps DEF Locked
<1> QED
  BY <1>2, <1>3, <1>4, KeepsLocked

LEMMA VacantLocked ==
  ASSUME NEW s, Vacant(s), s.page.press \in {"no", "ping", "pool"}
  PROVE  Locked(s)
BY DEF Vacant, Locked, Lock

LEMMA PressVacant ==
  ASSUME NEW s, Vacant(s), NEW press \in Presses
  PROVE  LET t == [s EXCEPT !.page.press = press]
         IN  /\ Vacant(t) /\ t.page.press = press /\ t.page.loaded = s.page.loaded /\ t.page.book = s.page.book
             /\ t.prep = s.prep /\ t.worker = s.worker
<1> DEFINE p == [s.page EXCEPT !.press = press]
           t == [s EXCEPT !.page = p]
<1>0. Sane(s) /\ Good(s)
  BY DEF Vacant, Sane
<1>1. p \in PageType /\ p.press = press /\ p.loaded = s.page.loaded /\ p.book = s.page.book
  BY <1>0 DEF Good, States, PageType
<1> HIDE DEF p
<1>2. Good(t) /\ t.page = p /\ t.worker = s.worker /\ t.inbox = s.inbox /\ SameQueues(t, s)
  BY <1>0, <1>1, PageOK DEF Good, States, SameQueues
<1> HIDE DEF t
<1>3. Rooms(t)
  BY <1>0, <1>1, <1>2 DEF Sane, Rooms, SameQueues
<1>4. Going(t, "export") = Going(s, "export")
  BY <1>2, GoingUnchanged
<1>5. Vacant(t)
  BY <1>0, <1>2, <1>3, <1>4 DEF Vacant, Sane
<1>6. t.page.press = press /\ t.page.loaded = s.page.loaded /\ t.page.book = s.page.book /\ t.prep = s.prep
      /\ t.worker = s.worker
  BY <1>1, <1>2 DEF SameQueues
<1> QED
  BY <1>5, <1>6 DEF t, p

LEMMA UnlockLocked ==
  ASSUME NEW s, Vacant(s)
  PROVE  Locked(Unlock(s))
<1> DEFINE t == Unlock(s)
<1>0. Sane(s) /\ Good(s)
  BY DEF Vacant, Sane
<1>1. /\ Good(t) /\ t.page.press = "no" /\ t.page.loaded = s.page.loaded
      /\ SameQueues(t, s) /\ t.worker = s.worker /\ t.inbox = s.inbox
  BY <1>0, UnlockOK, UnlockFields
<1> HIDE DEF t
<1>2. Rooms(t)
  BY <1>0, <1>1 DEF Sane, Rooms, SameQueues
<1>3. Going(t, "export") = Going(s, "export")
  BY <1>1, GoingUnchanged
<1>4. Vacant(t)
  BY <1>0, <1>1, <1>2, <1>3 DEF Vacant, Sane
<1>5. Locked(t)
  BY <1>1, <1>4, VacantLocked
<1> QED
  BY <1>5 DEF t

\* The conversion: by the pool once the engine is gone, or by one call of the engine.
LEMMA ConvertLocked ==
  ASSUME NEW s, Vacant(s), NEW pool \in BOOLEAN, NEW ok \in BOOLEAN
  PROVE  Locked(Convert(s, pool, ok))
<1> DEFINE t == [s EXCEPT !.page.press = "serial"]
           u == KillExportEngine(s)
           r == HandleExport(Engine(s), Chosen(s.page), ok)
<1>0. Sane(s) /\ Good(s) /\ ~s.worker.job.on
  BY DEF Vacant, Sane
<1>1. Convert(s, pool, ok) = IF pool THEN [u EXCEPT !.page.press = "pool"] ELSE Call(t, r)
  BY DEF Convert
<1>2. CASE pool
  <2>1. Vacant(u)
    BY KillVacant
  <2> HIDE DEF u, t, r
  <2>2. Vacant([u EXCEPT !.page.press = "pool"]) /\ [u EXCEPT !.page.press = "pool"].page.press = "pool"
    BY <2>1, PressVacant DEF Presses
  <2> QED
    BY <1>1, <1>2, <2>2, VacantLocked
<1>3. CASE ~pool
  <2>1. Vacant(t) /\ t.page.press = "serial" /\ t.worker = s.worker
    BY PressVacant DEF Presses
  <2> HIDE DEF t, u
  <2>2. Engine(t) = Engine(s)
    BY <2>1 DEF Engine
  <2>3. Chosen(s.page) \in Settings
    BY <1>0, ChosenOK DEF Good, States
  <2>4. Fine(r) /\ Settles(r, Engine(t))
    BY <1>0, <2>2, <2>3, EngineFacts, HandleExportOK, HandleExportSettles
  <2> HIDE DEF r
  <2>5. Locked(Call(t, r))
    BY <2>1, <2>4, CallSettles
  <2> QED
    BY <1>1, <1>3, <2>5
<1> QED
  BY <1>2, <1>3

-----------------------------------------------------------------------------
(***************************************************************************)
(* The steps.                                                              *)
(***************************************************************************)
LockParts == Rooms(Now) /\ Lock(Now) /\ (worker.job.on => worker.alive)
LockInv   == WarmInv /\ LockParts

LEMMA NowLocked ==
  ASSUME LockInv, worker.woken = << >>
  PROVE  /\ Locked(Now) /\ Sane(Now) /\ Good(Now) /\ Now.page = page /\ Now.prep = prep /\ Now.micro = micro
         /\ Now.worker = worker /\ Now.inbox = inbox
<1>1. /\ Good(Now) /\ Now.page = page /\ Now.prep = prep /\ Now.micro = micro /\ Now.worker = worker
      /\ Now.inbox = inbox
  BY NowOK DEF LockInv, WarmInv
<1> QED
  BY <1>1 DEF LockInv, LockParts, Locked, Sane

LEMMA TurnsLock ==
  ASSUME NEW s, Locked(s), Turns(s)
  PROVE  LockParts'
<1> DEFINE n == [page |-> page', prep |-> prep', micro |-> micro', worker |-> worker', inbox |-> inbox']
<1>1. s = n
  BY DEF Locked, Sane, Good, States, Turns
<1>2. Rooms(n) /\ Lock(n) /\ (n.worker.job.on => n.worker.alive)
  BY <1>1 DEF Locked, Sane
<1>3. Now' = n
  BY DEF Now
<1>4. n.worker = worker'
  OBVIOUS
<1> HIDE DEF n
<1> QED
  BY <1>2, <1>3, <1>4 DEF LockParts

LEMMA BecomesLock ==
  ASSUME NEW s, Locked(s), Becomes(s)
  PROVE  LockParts'
BY TurnsLock DEF Becomes

LEMMA SetsLock ==
  ASSUME LockInv, Sets
  PROVE  LockParts'
<1>0. PICK p \in PageType :
        /\ Aside(p)
        /\ LET t == [Now EXCEPT !.page = p]
           IN  \/ Becomes(t) \/ Becomes(InvalidateWarm(t)) \/ Becomes(ScheduleWarm(InvalidateWarm(t)))
  BY DEF Sets
<1> DEFINE t == [Now EXCEPT !.page = p]
<1>1. Locked(Now) /\ Sane(Now) /\ Now.page = page
  BY NowLocked DEF Sets, Idle
<1>2. Keeps(t, Now)
  BY <1>0, <1>1, SetPageKeeps DEF Aside
<1>3. \/ Becomes(t) \/ Becomes(InvalidateWarm(t)) \/ Becomes(ScheduleWarm(InvalidateWarm(t)))
  BY <1>0
<1> HIDE DEF t
<1>4. Locked(t)
  BY <1>1, <1>2, KeepsLocked
<1>5. Locked(InvalidateWarm(t))
  BY <1>4, InvalidateKeeps, KeepsLocked DEF Locked
<1>6. Locked(ScheduleWarm(InvalidateWarm(t)))
  BY <1>5, ScheduleKeeps, KeepsLocked DEF Locked
<1> QED
  BY <1>3, <1>4, <1>5, <1>6, BecomesLock

LEMMA ReaderLock ==
  ASSUME LockInv, Reader
  PROVE  LockParts'
<1>0. WarmInv
  BY DEF LockInv
<1>1. CASE OpenBook
  <2> DEFINE s == KillExportEngine(InvalidateWarm(Now))
             b == 1 + MaxOpens - left.opens
             p == [s.page EXCEPT !.opening = b]
  <2>1. Locked(Now) /\ Sane(Now)
    BY <1>1, NowLocked DEF OpenBook, Acts, Idle
  <2>2. Locked(s)
    BY <2>1, InvalidateKeeps, KeepsLocked, KillLocked
  <2>3. b \in Books
    <3>1. left.opens \in 0 .. MaxOpens /\ left.opens > 0 /\ MaxOpens \in Nat
      BY <1>0, <1>1, WarmAssumption DEF WarmInv, LeftType, OpenBook
    <3> QED
      BY <3>1 DEF Books
  <2>4. Becomes([s EXCEPT !.page = p])
    BY <1>1 DEF OpenBook
  <2> HIDE DEF b, s
  <2>5. p \in PageType /\ p.press = s.page.press /\ p.loaded = s.page.loaded
    BY <2>2, <2>3 DEF Locked, Sane, Good, States, PageType
  <2> HIDE DEF p
  <2>6. Locked([s EXCEPT !.page = p])
    BY <2>2, <2>5, SetPageKeeps, KeepsLocked DEF Locked
  <2> QED
    BY <2>4, <2>6, BecomesLock
<1>2. CASE Press
  <2> DEFINE p == [page EXCEPT !.press = "ping"]
             t == [Now EXCEPT !.page = p]
  <2>1. Locked(Now) /\ Sane(Now) /\ Good(Now) /\ Now.page = page /\ page.press = "no"
    BY <1>2, NowLocked DEF Press, Acts, Idle
  <2>2. Vacant(Now)
    BY <2>1 DEF Locked, Lock, Vacant
  <2>3. t = [Now EXCEPT !.page.press = "ping"]
    BY <2>1
  <2>4. Turns(t)
    BY <1>2 DEF Press, Turns, Now
  <2> HIDE DEF t
  <2>5. Vacant(t) /\ t.page.press = "ping"
    BY <2>2, <2>3, PressVacant DEF Presses
  <2> QED
    BY <2>4, <2>5, VacantLocked, TurnsLock
<1>3. CASE TurnFontKnob \/ (\E l \in Looks : ChangeLook(l)) \/ (\E f \in {"kopub", "custom"} : ChooseFont(f))
  <2>1. Sets
    BY <1>0, <1>3, TurnFontKnobSets, ChangeLookSets, ChooseFontSets
  <2> QED
    BY <2>1, SetsLock
<1> QED
  BY <1>1, <1>2, <1>3 DEF Reader

LEMMA OpeningLock ==
  ASSUME LockInv, OpeningEnds \/ IdleTime
  PROVE  LockParts'
<1>1. Locked(Now) /\ Sane(Now) /\ Good(Now) /\ Now.page = page /\ page \in PageType
  BY NowLocked DEF OpeningEnds, IdleTime, BookOpened, BookFails, FrameShown, IdlePrep, Idle, LockInv, WarmInv, InTypes
<1>2. CASE BookOpened
  <2> DEFINE p == [page EXCEPT !.book = page.opening, !.opening = None]
             t == [Now EXCEPT !.page = p]
  <2>1. p \in PageType /\ p.press = page.press /\ p.loaded = page.loaded
    BY <1>1 DEF PageType
  <2>2. [Now EXCEPT !.page.book = page.opening, !.page.opening = None] = t
    BY DEF Now
  <2>3. Becomes(InvalidateWarm(t))
    BY <1>2, <2>2 DEF BookOpened
  <2> HIDE DEF p
  <2>4. Keeps(t, Now)
    BY <1>1, <2>1, SetPageKeeps
  <2> HIDE DEF t
  <2>5. Locked(InvalidateWarm(t))
    BY <1>1, <2>4, KeepsLocked, InvalidateKeeps DEF Locked
  <2> QED
    BY <2>3, <2>5, BecomesLock
<1>3. CASE BookFails
  <2> DEFINE p == [page EXCEPT !.book = None, !.opening = None]
             t == [Now EXCEPT !.page = p]
  <2>1. p \in PageType /\ p.press = page.press /\ p.loaded = page.loaded
    BY <1>1 DEF PageType
  <2>2. [Now EXCEPT !.page.book = None, !.page.opening = None] = t
    BY DEF Now
  <2>3. Becomes(KillExportEngine(t))
    BY <1>3, <2>2 DEF BookFails
  <2> HIDE DEF p
  <2>4. Keeps(t, Now)
    BY <1>1, <2>1, SetPageKeeps
  <2> HIDE DEF t
  <2> QED
    BY <1>1, <2>3, <2>4, KeepsLocked, KillLocked, BecomesLock
<1>4. ASSUME NEW b \in Books, FrameShown(b) PROVE LockParts'
  <2>1. Locked(ScheduleWarm(Now))
    BY <1>1, ScheduleKeeps, KeepsLocked
  <2> QED
    BY <1>4, <2>1, BecomesLock DEF FrameShown
<1>5. ASSUME NEW b \in Books, IdlePrep(b) PROVE LockParts'
  <2>1. Keeps(Prepare(Now, b), Now)
    BY <1>1, <1>5, PrepareKeeps DEF IdlePrep
  <2> QED
    BY <1>1, <1>5, <2>1, KeepsLocked, BecomesLock DEF IdlePrep
<1> QED
  BY <1>2, <1>3, <1>4, <1>5 DEF OpeningEnds, IdleTime

LEMMA FaceAcceptedLock ==
  ASSUME LockInv, NEW ok \in BOOLEAN, NEW sync \in BOOLEAN, FaceAccepted(ok, sync)
  PROVE  LockParts'
<1> DEFINE p == [page EXCEPT !.face = page.faceFor, !.faceFor = 0]
           q == [page EXCEPT !.fontRun = "idle", !.faceFor = 0]
           s == [Now EXCEPT !.page = p]
           t == [Now EXCEPT !.page = q]
           u == [s EXCEPT !.page.fontRun = "waiting"]
           k == [who |-> "font"]
<1>1. Locked(Now) /\ Sane(Now) /\ Now.page = page /\ page \in PageType /\ 0 \in Faces
  BY NowLocked, WarmAssumption DEF FaceAccepted, Idle, Faces, LockInv, WarmInv, InTypes
<1>2. /\ p \in PageType /\ p.press = page.press /\ p.loaded = page.loaded
      /\ q \in PageType /\ q.press = page.press /\ q.loaded = page.loaded
  BY <1>1 DEF PageType, FontRuns
<1>3. [Now EXCEPT !.page.face = page.faceFor, !.page.faceFor = 0] = s
      /\ [Now EXCEPT !.page.fontRun = "idle", !.page.faceFor = 0] = t
  BY DEF Now
<1>4. Becomes(CASE ~ok -> t
                [] ok /\ page.loaded = None -> Painting(s)
                [] ok /\ page.loaded = Ready -> SyncFont(s, sync)
                [] OTHER -> AwaitEngine(u, k))
  BY <1>3 DEF FaceAccepted
<1> HIDE DEF p, q
<1>5. Keeps(s, Now) /\ s.page = p /\ Keeps(t, Now)
  BY <1>1, <1>2, SetPageKeeps
<1> HIDE DEF s, t
<1>6. Locked(s) /\ Locked(t) /\ Sane(s)
  BY <1>1, <1>5, KeepsLocked DEF Locked
<1>7. Keeps(u, s) /\ u.page.loaded = page.loaded
  BY <1>2, <1>5, <1>6, SetFontRun DEF FontRuns
<1>8. k \in GoType /\ k.who # "export"
  BY DEF GoType
<1> HIDE DEF u, k
<1>9. CASE ~ok
  BY <1>4, <1>6, <1>9, BecomesLock
<1>10. CASE ok /\ page.loaded = None
  <2>1. Becomes(Painting(s))
    BY <1>4, <1>10 DEF Ready, None
  <2> QED
    BY <1>6, <2>1, PaintingKeeps, KeepsLocked, BecomesLock
<1>11. CASE ok /\ page.loaded = Ready
  <2>1. Becomes(SyncFont(s, sync))
    BY <1>4, <1>11 DEF Ready, None
  <2> QED
    BY <1>6, <2>1, SyncFontKeeps, KeepsLocked, BecomesLock
<1>12. CASE ok /\ page.loaded # None /\ page.loaded # Ready
  <2>1. page.loaded \in Preps
    BY <1>1, <1>12 DEF PageType
  <2>2. Locked(u) /\ Sane(u)
    BY <1>6, <1>7, KeepsLocked DEF Locked
  <2>3. Keeps(AwaitEngine(u, k), u)
    BY <1>7, <1>8, <2>1, <2>2, AwaitKeeps
  <2>4. Becomes(AwaitEngine(u, k))
    BY <1>4, <1>12
  <2> QED
    BY <2>2, <2>3, <2>4, KeepsLocked, BecomesLock
<1> QED
  BY <1>9, <1>10, <1>11, <1>12

LEMMA FireWarmLock ==
  ASSUME LockInv, NEW ok \in BOOLEAN, FireWarm(ok)
  PROVE  LockParts'
<1> DEFINE p == [page EXCEPT !.settle = FALSE]
           k == [who |-> "warm", key |-> Key(page), tok |-> page.version]
           q == [p EXCEPT !.firing = k.key]
           s == [Now EXCEPT !.page = p]
           fired == [Now EXCEPT !.page = q]
           skip == \/ page.book = None \/ Exporting(page)
                   \/ k.key \in {page.warmKey, page.firing}
<1>1. Locked(Now) /\ Sane(Now) /\ Now.page = page /\ page \in PageType
  BY NowLocked DEF FireWarm, Idle, LockInv, WarmInv, InTypes
<1>2. k \in GoType /\ IsWarm(k) /\ k.key \in Keys /\ k.who # "export"
  BY <1>1, ChosenOK DEF GoType, IsWarm, PageType
<1>3. p \in PageType /\ p.press = page.press /\ p.loaded = page.loaded
  BY <1>1 DEF PageType
<1>4. [Now EXCEPT !.page.settle = FALSE] = s
      /\ [[Now EXCEPT !.page.settle = FALSE] EXCEPT !.page.firing = k.key] = fired
  BY DEF Now
<1>5. Becomes(CASE skip -> s
                [] OTHER -> CASE page.loaded = None -> WarmEnds(fired)
                              [] page.loaded = Ready -> SendWarm(fired, k, ok)
                              [] OTHER -> AwaitEngine(fired, k))
  <2> HIDE DEF p, q, k
  <2> QED
    BY <1>4 DEF FireWarm, k
<1> HIDE DEF k, skip
<1>6. q \in PageType /\ q.press = page.press /\ q.loaded = page.loaded
  BY <1>1, <1>2, <1>3 DEF PageType
<1> HIDE DEF p, q
<1>7. Keeps(s, Now) /\ Keeps(fired, Now) /\ fired.page = q
  BY <1>1, <1>3, <1>6, SetPageKeeps
<1> HIDE DEF s, fired
<1>8. Locked(s) /\ Locked(fired) /\ Sane(fired)
  BY <1>1, <1>7, KeepsLocked DEF Locked
<1>9. CASE skip
  BY <1>5, <1>8, <1>9, BecomesLock
<1>10. CASE ~skip /\ page.loaded = None
  <2>1. Becomes(WarmEnds(fired))
    BY <1>5, <1>10 DEF Ready, None
  <2> QED
    BY <1>8, <2>1, WarmEndsKeeps, KeepsLocked, BecomesLock
<1>11. CASE ~skip /\ page.loaded = Ready
  <2>1. Becomes(SendWarm(fired, k, ok))
    BY <1>5, <1>11 DEF Ready, None
  <2> QED
    BY <1>2, <1>8, <2>1, SendWarmKeeps, KeepsLocked, BecomesLock
<1>12. CASE ~skip /\ page.loaded # None /\ page.loaded # Ready
  <2>1. fired.page.loaded \in Preps
    BY <1>1, <1>6, <1>7, <1>12 DEF PageType
  <2>2. Becomes(AwaitEngine(fired, k))
    BY <1>5, <1>12
  <2> QED
    BY <1>2, <1>8, <2>1, <2>2, AwaitKeeps, KeepsLocked, BecomesLock
<1> QED
  BY <1>9, <1>10, <1>11, <1>12

\* The press goes on: it fetches what is ready, or converts, or waits for an engine.
LEMMA PingReplyLock ==
  ASSUME LockInv, NEW pool \in BOOLEAN, NEW ok \in BOOLEAN, PingReply(pool, ok)
  PROVE  LockParts'
<1> DEFINE want == [book |-> page.book, spec |-> Chosen(page), face |-> page.face,
                    calm |-> ~(page.convert \/ Converting(page)), ready |-> page.loaded # None \/ page.book # None]
           p == [page EXCEPT !.want = want]
           s == [Now EXCEPT !.page = p]
           w == [s EXCEPT !.page.press = "wait"]
           f == [s EXCEPT !.page.press = "fetch"]
           k == [who |-> "export"]
<1>1. /\ Locked(Now) /\ Sane(Now) /\ Now.page = page /\ Now.prep = prep /\ page \in PageType
      /\ page.press = "ping"
  BY NowLocked DEF PingReply, Idle, LockInv, WarmInv, InTypes
<1>2. want \in WantType
  BY <1>1, ChosenOK DEF WantType, PageType
<1>3. /\ page.loaded = None => FreePreps(Now) # {}
      /\ Becomes(IF page.warmKey = Key(page) THEN Call(f, HandleFetch(Engine(s))) ELSE PingAnswered(s, pool, ok))
  <2>1. [Now EXCEPT !.page.want = want] = s
    BY DEF Now
  <2> HIDE DEF s
  <2> QED
    BY <2>1 DEF PingReply
<1> HIDE DEF want
<1>4. p \in PageType /\ p.loaded = page.loaded /\ p.book = page.book /\ p.press = page.press
  BY <1>1, <1>2 DEF PageType
<1> HIDE DEF p
<1>5. Keeps(s, Now) /\ s.page = p /\ s.prep = prep
  BY <1>1, <1>4, SetPageKeeps DEF SameQueues
<1> HIDE DEF s
<1>6. Vacant(s)
  BY <1>1, <1>5, KeepsVacant DEF Locked, Lock, Vacant
<1>7. /\ Vacant(w) /\ w.page.press = "wait" /\ w.page.loaded = page.loaded /\ w.page.book = page.book /\ w.prep = prep
      /\ Vacant(f) /\ f.page.press = "fetch" /\ f.worker = s.worker
  BY <1>4, <1>5, <1>6, PressVacant DEF Presses
<1>8. PingAnswered(s, pool, ok) =
        CASE page.loaded = Ready \/ (page.loaded = None /\ page.book = None) -> Convert(w, pool, ok)
          [] page.loaded = None /\ page.book # None -> AwaitEngine(Prepare(w, page.book), k)
          [] OTHER -> AwaitEngine(w, k)
  BY <1>4, <1>5 DEF PingAnswered
<1> HIDE DEF w, f, k
<1>9. Locked(Call(f, HandleFetch(Engine(s))))
  <2>1. Engine(f) = Engine(s) /\ ~s.worker.job.on /\ Sane(s) /\ Good(s)
    BY <1>6, <1>7 DEF Engine, Vacant, Sane
  <2>2. /\ Fine(HandleFetch(Engine(s))) /\ Settles(HandleFetch(Engine(s)), Engine(f))
        /\ ~HandleFetch(Engine(s)).w.job.on
    BY <2>1, EngineFacts, HandleFetchOK, FetchSettles
  <2> QED
    BY <1>7, <2>2, CallSettles
<1>10. Locked(PingAnswered(s, pool, ok))
  <2>1. CASE page.loaded = Ready \/ (page.loaded = None /\ page.book = None)
    <3>1. PingAnswered(s, pool, ok) = Convert(w, pool, ok)
      BY <1>8, <2>1 DEF Ready, None
    <3> QED
      BY <1>7, <3>1, ConvertLocked
  <2>2. CASE ~(page.loaded = Ready \/ (page.loaded = None /\ page.book = None)) /\ page.loaded = None
    <3>1. page.book \in Books /\ FreePreps(w) # {} /\ Sane(w)
      BY <1>1, <1>3, <1>7, <2>2 DEF PageType, FreePreps, Vacant
    <3> DEFINE t == Prepare(w, page.book)
    <3>2. Keeps(t, w) /\ t.page.loaded \in Preps
      BY <3>1, PrepareKeeps
    <3>3. PingAnswered(s, pool, ok) = AwaitEngine(t, k)
      BY <1>8, <2>2
    <3> HIDE DEF t
    <3>4. Vacant(t) /\ t.page.press = "wait"
      BY <1>7, <3>2, KeepsVacant
    <3> QED
      BY <3>2, <3>3, <3>4, AwaitExport DEF k
  <2>3. CASE ~(page.loaded = Ready \/ (page.loaded = None /\ page.book = None)) /\ page.loaded # None
    <3>1. page.loaded \in Preps
      BY <1>1, <2>3 DEF PageType
    <3>2. PingAnswered(s, pool, ok) = AwaitEngine(w, k)
      BY <1>8, <2>3
    <3> QED
      BY <1>7, <3>1, <3>2, AwaitExport DEF k
  <2> QED
    BY <2>1, <2>2, <2>3
<1> QED
  BY <1>3, <1>9, <1>10, BecomesLock

LEMMA PoolEndsLock ==
  ASSUME LockInv, PoolEnds
  PROVE  LockParts'
<1>1. Locked(Now) /\ Now.page = page
  BY NowLocked DEF PoolEnds, Idle
<1>2. Vacant(Now)
  BY <1>1 DEF PoolEnds, Locked, Lock, Vacant
<1> QED
  BY <1>2, UnlockLocked, BecomesLock DEF PoolEnds

LEMMA EngineDiesLock ==
  ASSUME LockInv, EngineDies
  PROVE  LockParts'
<1>1. Locked(Now)
  BY NowLocked DEF EngineDies, Idle
<1> QED
  BY <1>1, KillLocked, BecomesLock DEF EngineDies

\* A continuation leaves the queue: that of the press was the only one.
LEMMA HeadGoes ==
  ASSUME NEW s, Locked(s), s.micro # << >>
  PROVE  LET t == [s EXCEPT !.micro = Tail(s.micro)]
         IN  /\ Head(s.micro) \in MicroType
             /\ Head(s.micro).go.who # "export" => Keeps(t, s)
             /\ Head(s.micro).go.who = "export" => Vacant(t)
<1> DEFINE rest == Tail(s.micro)
           t == [s EXCEPT !.micro = rest]
           c == Head(s.micro)
<1>1. s \in States /\ s.micro \in Seq(MicroType) /\ Good(s) /\ Sane(s) /\ Lock(s)
  BY DEF Locked, Sane, Good, States
<1>2. c \in MicroType /\ rest \in Seq(MicroType)
  BY <1>1
<1>3. c \in Goers("export") <=> c.go.who = "export"
  BY <1>2 DEF Goers
<1>4. /\ c \notin Goers("export") => Same(At(s.micro, Goers("export")), At(rest, Goers("export")))
      /\ c \in Goers("export") => /\ At(s.micro, Goers("export")) # {}
                                  /\ Once(At(s.micro, Goers("export"))) => At(rest, Goers("export")) = {}
  BY <1>1, AtHead
<1> HIDE DEF rest, c
<1>5. /\ t.page = s.page /\ t.prep = s.prep /\ t.micro = rest /\ t.worker = s.worker /\ t.inbox = s.inbox
      /\ Good(t)
  BY <1>1, <1>2 DEF Good, States
<1> HIDE DEF t
<1>6. Rooms(t) /\ Sane(t) /\ t \in States
  BY <1>1, <1>5 DEF Sane, Rooms, Good
<1>7. /\ Part(s, "export", 0) = At(s.micro, Goers("export")) /\ Part(t, "export", 0) = At(rest, Goers("export"))
      /\ \A i \in Places \ {0} : Part(t, "export", i) = Part(s, "export", i)
      /\ 0 \in Places
  BY <1>5 DEF Part, Places
<1>8. ASSUME c.go.who # "export" PROVE Keeps(t, s)
  <2>1. \A i \in Places : Same(Part(s, "export", i), Part(t, "export", i))
    BY <1>3, <1>4, <1>7, <1>8 DEF Same
  <2>2. Same(Going(s, "export"), Going(t, "export"))
    BY <1>1, <1>6, <2>1, GoingSame
  <2> QED
    BY <1>5, <1>6, <2>2 DEF Keeps, Same
<1>9. ASSUME c.go.who = "export" PROVE Vacant(t)
  <2>1. Part(s, "export", 0) # {}
    BY <1>3, <1>4, <1>7, <1>9
  <2>2. Going(s, "export") # {}
    BY <1>1, <1>7, <2>1, GoingNone
  <2>3. s.page.press = "wait" /\ Once(Going(s, "export"))
    BY <1>1, <2>2 DEF Lock
  <2>4. Files(s.inbox) = {} /\ ~s.worker.job.on
    BY <1>1, <2>3 DEF Lock
  <2>5. PICK i \in Places : OneAt(s, "export", i)
    BY <1>1, <2>3, GoingOne
  <2>6. i = 0
    BY <1>7, <2>1, <2>5 DEF OneAt
  <2>7. \A j \in Places : Part(t, "export", j) = {}
    BY <1>3, <1>4, <1>7, <1>9, <2>5, <2>6 DEF OneAt
  <2>8. Going(t, "export") = {}
    BY <1>6, <2>7, GoingNone
  <2> QED
    BY <1>5, <1>6, <2>4, <2>8 DEF Vacant
<1> QED
  BY <1>2, <1>8, <1>9 DEF t, c, rest

LEMMA AwaitedVacant ==
  ASSUME NEW s, Vacant(s), NEW ready \in BOOLEAN
  PROVE  Vacant(Awaited(s, ready))
<1> DEFINE p == [s.page EXCEPT !.want = [s.page.want EXCEPT !.ready = ready]]
<1>1. /\ Awaited(s, ready) = [s EXCEPT !.page = p] /\ p \in PageType
      /\ \A v \in DOMAIN s.page : v # "want" => p[v] = s.page[v]
  BY AwaitedOK DEF Vacant, Sane
<1>2. p.press = s.page.press /\ p.loaded = s.page.loaded
  BY <1>1 DEF Vacant, Sane, Good, States, PageType
<1> HIDE DEF p
<1>3. Keeps(Awaited(s, ready), s)
  BY <1>1, <1>2, SetPageKeeps DEF Vacant
<1> QED
  BY <1>3, KeepsVacant

LEMMA ContinueLock ==
  ASSUME LockInv, NEW pool \in BOOLEAN, NEW ok \in BOOLEAN, Continue(pool, ok)
  PROVE  LockParts'
<1> DEFINE c == Head(micro)
           s == [Now EXCEPT !.micro = Tail(micro)]
<1>1. Locked(Now) /\ Now.micro = micro /\ micro # << >>
  BY NowLocked DEF Continue
<1>2. Becomes(CASE c.go.who = "warm" -> IF c.ok THEN SendWarm(s, c.go, ok) ELSE WarmEnds(s)
                [] c.go.who = "font" -> IF c.ok THEN SyncFont(s, ok) ELSE SyncFails(s)
                [] c.go.who = "export" -> Convert(Awaited(s, c.ok), pool, ok))
  BY DEF Continue, Now
<1>3. /\ c \in MicroType
      /\ c.go.who # "export" => Keeps(s, Now)
      /\ c.go.who = "export" => Vacant(s)
  BY <1>1, HeadGoes
<1> HIDE DEF c, s
<1>4. c.go.who # "export" => Locked(s) /\ Sane(s)
  BY <1>1, <1>3, KeepsLocked DEF Locked
<1>5. CASE c.go.who = "warm"
  <2>1. IsWarm(c.go)
    BY <1>3, <1>5 DEF MicroType, GoType, IsWarm
  <2>2. Locked(SendWarm(s, c.go, ok)) /\ Locked(WarmEnds(s))
    BY <1>4, <1>5, <2>1, SendWarmKeeps, WarmEndsKeeps, KeepsLocked
  <2>3. Becomes(SendWarm(s, c.go, ok)) \/ Becomes(WarmEnds(s))
    BY <1>2, <1>5
  <2> QED
    BY <2>2, <2>3, BecomesLock
<1>6. CASE c.go.who = "font"
  <2>1. Locked(SyncFont(s, ok)) /\ Locked(SyncFails(s))
    BY <1>4, <1>6, SyncFontKeeps, KeepsLocked, SyncFailsLocked
  <2>2. Becomes(SyncFont(s, ok)) \/ Becomes(SyncFails(s))
    BY <1>2, <1>6
  <2> QED
    BY <2>1, <2>2, BecomesLock
<1>7. CASE c.go.who = "export"
  <2>1. Becomes(Convert(Awaited(s, c.ok), pool, ok))
    BY <1>2, <1>7
  <2>2. Vacant(Awaited(s, c.ok))
    BY <1>3, <1>7, AwaitedVacant DEF MicroType
  <2> QED
    BY <2>1, <2>2, ConvertLocked, BecomesLock
<1> QED
  BY <1>3, <1>5, <1>6, <1>7 DEF MicroType, GoType

-----------------------------------------------------------------------------
\* An answer leaves the inbox: that of the press was the only one.
LEMMA AnswerGoes ==
  ASSUME NEW s, Locked(s), s.inbox # << >>
  PROVE  LET t == [s EXCEPT !.inbox = Tail(s.inbox)]
         IN  /\ Head(s.inbox) \in MessageType /\ t.page = s.page /\ t.worker = s.worker
             /\ Head(s.inbox).re # "file" => Keeps(t, s)
             /\ Head(s.inbox).re = "file" => Vacant(t)
<1> DEFINE rest == Tail(s.inbox)
           t == [s EXCEPT !.inbox = rest]
           m == Head(s.inbox)
<1>1. s \in States /\ s.inbox \in Seq(MessageType) /\ Good(s) /\ Sane(s) /\ Lock(s)
  BY DEF Locked, Sane, Good, States
<1>2. m \in MessageType /\ rest \in Seq(MessageType)
  BY <1>1
<1>3. m \in FileMessages <=> m.re = "file"
  BY <1>2 DEF FileMessages
<1>4. /\ m \notin FileMessages => Same(Files(s.inbox), Files(rest))
      /\ m \in FileMessages => /\ Files(s.inbox) # {}
                               /\ Once(Files(s.inbox)) => Files(rest) = {}
  <2>1. Files(s.inbox) = At(s.inbox, FileMessages) /\ Files(rest) = At(rest, FileMessages)
    BY <1>1, <1>2, FilesAt
  <2>2. /\ m \notin FileMessages => Same(At(s.inbox, FileMessages), At(rest, FileMessages))
        /\ m \in FileMessages => /\ At(s.inbox, FileMessages) # {}
                                 /\ Once(At(s.inbox, FileMessages)) => At(rest, FileMessages) = {}
    BY <1>1, AtHead
  <2> HIDE DEF rest, m
  <2> QED
    BY <2>1, <2>2
<1> HIDE DEF rest, m
<1>5. /\ t.page = s.page /\ t.prep = s.prep /\ t.micro = s.micro /\ t.worker = s.worker /\ t.inbox = rest
      /\ Good(t)
  BY <1>1, <1>2 DEF Good, States
<1> HIDE DEF t
<1>6. Rooms(t) /\ Sane(t)
  BY <1>1, <1>5 DEF Sane, Rooms
<1>7. Going(t, "export") = Going(s, "export")
  BY <1>5, GoingUnchanged DEF SameQueues
<1>8. ASSUME m.re # "file" PROVE Keeps(t, s)
  BY <1>3, <1>4, <1>5, <1>6, <1>7, <1>8 DEF Keeps, Same
<1>9. ASSUME m.re = "file" PROVE Vacant(t)
  <2>1. Files(s.inbox) # {}
    BY <1>3, <1>4, <1>9
  <2>2. /\ s.page.press \in {"serial", "fetch"} /\ ~s.worker.job.on /\ Once(Files(s.inbox))
        /\ Going(s, "export") = {}
    BY <1>1, <2>1 DEF Lock
  <2> QED
    BY <1>3, <1>4, <1>5, <1>6, <1>7, <1>9, <2>2 DEF Vacant
<1> QED
  BY <1>2, <1>5, <1>8, <1>9 DEF t, m, rest

LEMMA TakenLocked ==
  ASSUME LockInv, NEW re, Answered(re)
  PROVE  /\ Head(inbox) \in MessageType /\ Head(inbox).re = re /\ Taken.page = page /\ Taken.worker = worker
         /\ re # "file" => Locked(Taken) /\ Sane(Taken)
         /\ re = "file" => Vacant(Taken)
<1>1. Locked(Now) /\ Now.inbox = inbox /\ inbox # << >> /\ Now.page = page /\ Now.worker = worker
      /\ Head(inbox).re = re
  BY NowLocked DEF Answered, Idle
<1>2. Taken = [Now EXCEPT !.inbox = Tail(Now.inbox)]
  BY DEF Taken
<1>3. /\ Head(inbox) \in MessageType /\ Taken.page = page /\ Taken.worker = worker
      /\ re # "file" => Keeps(Taken, Now)
      /\ re = "file" => Vacant(Taken)
  BY <1>1, <1>2, AnswerGoes
<1> QED
  BY <1>1, <1>3, KeepsLocked DEF Locked

\* A preparation takes its second step: who waits for it still does.
LEMMA StepKeeps ==
  ASSUME NEW s, Sane(s), NEW i \in Preps
  PROVE  LET t == [s EXCEPT !.prep[i].step = "font"] IN Keeps(t, s) /\ t.worker = s.worker
<1> DEFINE new == [s.prep[i] EXCEPT !.step = "font"]
           preps == [s.prep EXCEPT ![i] = new]
           t == [s EXCEPT !.prep = preps]
<1>1. s \in States /\ Good(s) /\ s.prep \in [Preps -> PrepType]
  BY DEF Sane, Good, States
<1>2. new \in PrepType /\ new.step = "font" /\ new.waiters = s.prep[i].waiters
  BY <1>1 DEF PrepType
<1>3. [s EXCEPT !.prep[i].step = "font"] = t
  OBVIOUS
<1> HIDE DEF new
<1>4. /\ preps \in [Preps -> PrepType] /\ preps[i] = new
      /\ \A j \in Preps : j # i => preps[j] = s.prep[j]
  BY <1>1, <1>2
<1> HIDE DEF preps
<1>5. /\ t.page = s.page /\ t.prep = preps /\ t.micro = s.micro /\ t.worker = s.worker /\ t.inbox = s.inbox
      /\ Good(t)
  BY <1>1, <1>4 DEF Good, States
<1> HIDE DEF t
<1>6. \A j \in Preps : t.prep[j].waiters = s.prep[j].waiters /\ (t.prep[j].step = "off" => s.prep[j].step = "off")
  BY <1>2, <1>4, <1>5
<1>7. Going(t, "export") = Going(s, "export")
  BY <1>5, <1>6 DEF Going
<1>8. Rooms(t)
  <2>1. \A j \in Preps : t.prep[j].step = "off" => t.prep[j].waiters = << >>
    BY <1>6 DEF Sane, Rooms
  <2>2. t.page.loaded \in Preps => t.prep[t.page.loaded].step # "off"
    BY <1>5, <1>6 DEF Sane, Rooms
  <2> QED
    BY <2>1, <2>2 DEF Rooms
<1>9. Keeps(t, s)
  BY <1>5, <1>7, <1>8 DEF Keeps, Sane, Same
<1> QED
  BY <1>3, <1>5, <1>9

LEMMA LoadAnsweredLock ==
  ASSUME LockInv, NEW ok \in BOOLEAN, LoadAnswered(ok)
  PROVE  LockParts'
<1> DEFINE m == Head(inbox)
           t == [Taken EXCEPT !.prep[m.id].step = "font"]
           r == HandleFont(worker, m.id, page.face, ok)
<1>1. Locked(Taken) /\ Sane(Taken) /\ Taken.worker = worker /\ m \in MessageType /\ m.re = "load"
  BY TakenLocked DEF LoadAnswered
<1>2. m.id \in Preps /\ m.ok \in BOOLEAN
  BY <1>1 DEF MessageType
<1>3. Becomes(CASE ~m.ok -> PrepFails(Taken, m.id)
                [] m.ok /\ page.face = 0 -> PrepSucceeds(Taken, m.id)
                [] OTHER -> Call(t, r))
  BY DEF LoadAnswered
<1> HIDE DEF m
<1>4. Locked(PrepFails(Taken, m.id)) /\ Locked(PrepSucceeds(Taken, m.id))
  BY <1>1, <1>2, PrepFailsKeeps, PrepSucceedsKeeps, KeepsLocked
<1>5. Keeps(t, Taken) /\ t.worker = worker
  BY <1>1, <1>2, StepKeeps
<1> HIDE DEF t
<1>6. Locked(t) /\ Sane(t)
  BY <1>1, <1>5, KeepsLocked DEF Locked
<1>7. Locked(Call(t, r))
  <2>1. Calm(worker) /\ worker \in WorkerType /\ page.face \in Faces
    BY <1>5, <1>6 DEF Sane, Good, Calm, Sound, LockInv, WarmInv, InTypes, PageType
  <2>2. Fine(r) /\ Silent(r, worker)
    BY <1>2, <2>1, HandleFontOK, HandleFontSilent
  <2>3. worker.job.on => worker.alive
    BY DEF LockInv, LockParts
  <2> HIDE DEF r
  <2>4. Keeps(Call(t, r), t)
    BY <1>5, <1>6, <2>2, <2>3, CallSilent
  <2> QED
    BY <1>6, <2>4, KeepsLocked
<1> HIDE DEF r
<1>8. \/ Becomes(PrepFails(Taken, m.id)) \/ Becomes(PrepSucceeds(Taken, m.id)) \/ Becomes(Call(t, r))
  BY <1>2, <1>3
<1> QED
  BY <1>4, <1>7, <1>8, BecomesLock

LEMMA FontAnsweredLock ==
  ASSUME LockInv, FontAnswered
  PROVE  LockParts'
<1> DEFINE m == Head(inbox)
<1>1. Locked(Taken) /\ Sane(Taken) /\ m \in MessageType /\ m.re = "loadFont"
  BY TakenLocked DEF FontAnswered
<1>2. m.id \in {0} \cup Preps /\ m.ok \in BOOLEAN
  BY <1>1 DEF MessageType
<1>3. Becomes(CASE m.id # 0 /\ m.ok -> PrepSucceeds(Taken, m.id)
                [] m.id # 0 /\ ~m.ok -> PrepFails(Taken, m.id)
                [] m.id = 0 /\ m.ok -> Painting(Taken)
                [] m.id = 0 /\ ~m.ok -> SyncFails(Taken))
  BY DEF FontAnswered
<1> HIDE DEF m
<1>4. CASE m.id # 0
  <2>1. Locked(PrepFails(Taken, m.id)) /\ Locked(PrepSucceeds(Taken, m.id))
    BY <1>1, <1>2, <1>4, PrepFailsKeeps, PrepSucceedsKeeps, KeepsLocked
  <2>2. Becomes(PrepFails(Taken, m.id)) \/ Becomes(PrepSucceeds(Taken, m.id))
    BY <1>2, <1>3, <1>4
  <2> QED
    BY <2>1, <2>2, BecomesLock
<1>5. CASE m.id = 0
  <2>1. Locked(Painting(Taken)) /\ Locked(SyncFails(Taken))
    BY <1>1, PaintingKeeps, KeepsLocked, SyncFailsLocked
  <2>2. Becomes(Painting(Taken)) \/ Becomes(SyncFails(Taken))
    BY <1>2, <1>3, <1>5
  <2> QED
    BY <2>1, <2>2, BecomesLock
<1> QED
  BY <1>4, <1>5

LEMMA WarmAnsweredLock ==
  ASSUME LockInv, WarmAnswered
  PROVE  LockParts'
<1> DEFINE m == Head(inbox)
           p == [Taken.page EXCEPT !.warmKey = m.key]
           t == [Taken EXCEPT !.page = p]
           s == CASE m.res = "error" -> ScheduleWarm(Taken)
                  [] m.res = "busy" /\ Current(m) -> ScheduleWarm(Taken)
                  [] m.res = "ready" /\ Current(m) -> t
                  [] OTHER -> Taken
<1>1. Locked(Taken) /\ Sane(Taken) /\ m \in MessageType /\ m.re = "warm"
  BY TakenLocked DEF WarmAnswered
<1>2. m.key \in Keys
  BY <1>1 DEF MessageType
<1>3. Becomes(WarmEnds(s))
  BY DEF WarmAnswered
<1> HIDE DEF m
<1>4. p \in PageType /\ p.press = Taken.page.press /\ p.loaded = Taken.page.loaded
  BY <1>1, <1>2 DEF Sane, Good, States, PageType
<1> HIDE DEF p
<1>5. Locked(t)
  BY <1>1, <1>4, SetPageKeeps, KeepsLocked
<1> HIDE DEF t
<1>6. Locked(ScheduleWarm(Taken))
  BY <1>1, ScheduleKeeps, KeepsLocked
<1>7. Locked(s)
  BY <1>1, <1>5, <1>6
<1> HIDE DEF s
<1>8. Locked(WarmEnds(s))
  BY <1>7, WarmEndsKeeps, KeepsLocked DEF Locked
<1> QED
  BY <1>3, <1>8, BecomesLock

LEMMA FileAnsweredLock ==
  ASSUME LockInv, FileAnswered
  PROVE  LockParts'
<1> DEFINE m == Head(inbox)
           p == [Taken.page EXCEPT !.warmKey = NoKey]
           t == [Taken EXCEPT !.page = p]
<1>1. Vacant(Taken) /\ Sane(Taken)
  BY TakenLocked DEF FileAnswered, Vacant
<1>2. p \in PageType /\ p.press = Taken.page.press /\ p.loaded = Taken.page.loaded
  BY <1>1, DefaultType DEF Sane, Good, States, PageType
<1>3. t = [Taken EXCEPT !.page.warmKey = NoKey]
  OBVIOUS
<1> HIDE DEF p
<1>4. Vacant(t)
  BY <1>1, <1>2, SetPageKeeps, KeepsVacant
<1> HIDE DEF t
<1>5. Turns(Unlock(Taken)) \/ Turns(Unlock(t))
  BY <1>3 DEF FileAnswered, Becomes
<1> QED
  BY <1>1, <1>4, <1>5, UnlockLocked, TurnsLock

-----------------------------------------------------------------------------
\* A step of the worker.
LEMMA WorksLock ==
  ASSUME LockInv, NEW r, Works(r), Sounds(r),
         Silent(r, worker) \/ (worker.job.on /\ Settles(r, worker))
  PROVE  LockParts'
<1>1. /\ page' = page /\ prep' = prep /\ micro' = micro /\ worker' = r.w /\ inbox' = inbox \o r.out
  BY DEF Works
<1>2. inbox \in Seq(MessageType) /\ r.out \in Seq(MessageType)
  BY DEF LockInv, WarmInv, InTypes, Sounds, Talks
<1>3. /\ Files(r.out) = {} => Files(inbox') = Files(inbox)
      /\ Files(inbox) = {} => Same(Files(r.out), Files(inbox'))
  BY <1>1, <1>2, FilesConcat
<1> DEFINE n == [page |-> page, prep |-> prep, micro |-> micro, worker |-> r.w, inbox |-> inbox']
<1>4. Now' = n
  BY <1>1 DEF Now
<1>5. Rooms(Now) /\ Lock(Now) /\ (worker.job.on => worker.alive)
  BY DEF LockInv, LockParts
<1>6. /\ n.page = Now.page /\ n.prep = Now.prep /\ n.micro = Now.micro /\ Now.worker = worker
      /\ Now.inbox = inbox /\ n.worker = r.w /\ n.inbox = inbox'
  BY DEF Now
<1> HIDE DEF n
<1>7. Rooms(n)
  BY <1>5, <1>6 DEF Rooms
<1>8. Going(n, "export") = Going(Now, "export")
  BY <1>6, GoingUnchanged DEF SameQueues
<1>9. Lock(n) /\ (r.w.job.on => r.w.alive)
  <2>1. CASE Silent(r, worker)
    BY <1>3, <1>5, <1>6, <1>8, <2>1 DEF Lock, Silent
  <2>2. CASE worker.job.on /\ Settles(r, worker)
    <3>1. /\ Now.page.press = "serial" /\ Files(inbox) = {} /\ Going(Now, "export") = {}
          /\ r.w.alive
      BY <1>5, <1>6, <2>2 DEF Lock, Settles
    <3>2. IF r.w.job.on THEN Files(inbox') = {} ELSE Once(Files(inbox'))
      BY <1>3, <2>2, <3>1 DEF Settles, Same
    <3> QED
      BY <1>6, <1>8, <3>1, <3>2 DEF Lock
  <2> QED
    BY <2>1, <2>2
<1> QED
  BY <1>1, <1>4, <1>7, <1>9 DEF LockParts

LEMMA WorkerStepsLock ==
  ASSUME LockInv, NEW ok \in BOOLEAN, WakeNext(ok) \/ BookRead(ok) \/ WarmStep(ok) \/ ExportStep(ok)
  PROVE  LockParts'
<1>0. Sound(worker) /\ worker \in WorkerType
  BY DEF LockInv, WarmInv, Sound
<1>1. CASE WakeNext(ok)
  <2> DEFINE w == [worker EXCEPT !.woken = Tail(worker.woken)]
             h == Head(worker.woken)
             r == Resume(w, h, ok)
  <2>1. Sounds(r) /\ Works(r)
    BY <1>0, <1>1, ResumeOK DEF WakeNext
  <2>2. worker.woken \in Seq(HandlerType) /\ worker.woken # << >>
    BY <1>0, <1>1 DEF WakeNext, WorkerType
  <2>3. h \in HandlerType /\ Tail(worker.woken) \in Seq(HandlerType) /\ h = worker.woken[1] /\ 1 \in DOMAIN worker.woken
    BY <2>2
  <2>4. h.cmd = "exportBook" => worker.job.on
    BY <1>0, <2>3 DEF Sound, InTurn
  <2>5. w \in WorkerType /\ w.alive = worker.alive /\ w.job = worker.job
    BY <1>0, <2>3 DEF WorkerType
  <2> HIDE DEF w, h
  <2>6. /\ h.cmd # "exportBook" => Silent(r, w)
        /\ h.cmd = "exportBook" => Settles(r, w)
    BY <2>3, <2>5, ResumeAnswers
  <2> HIDE DEF r
  <2>7. /\ Silent(r, w) => Silent(r, worker)
        /\ Settles(r, w) => Settles(r, worker)
    BY <2>5 DEF Silent, Settles
  <2> QED
    BY <2>1, <2>4, <2>6, <2>7, WorksLock
<1>2. CASE BookRead(ok)
  <2>1. Sounds(LoadEnds(worker, ok)) /\ Works(LoadEnds(worker, ok))
    BY <1>0, <1>2, LoadEndsOK DEF BookRead, Calm, Replacing
  <2> QED
    BY <1>0, <2>1, LoadEndsSilent, WorksLock
<1>3. CASE WarmStep(ok)
  <2>1. Sounds(WarmGoesOn(worker, ok)) /\ Works(WarmGoesOn(worker, ok))
    BY <1>0, <1>3, WarmGoesOnOK DEF WarmStep, Calm
  <2> QED
    BY <1>0, <2>1, WarmGoesOnSilent, WorksLock
<1>4. CASE ExportStep(ok)
  <2>1. Sounds(ExportGoesOn(worker, ok)) /\ Works(ExportGoesOn(worker, ok))
    BY <1>0, <1>4, ExportGoesOnOK DEF ExportStep, Calm
  <2>2. worker.job.on
    BY <1>0, <1>4 DEF ExportStep, Sound, Alone
  <2> QED
    BY <1>0, <2>1, <2>2, ExportGoesOnSettles, WorksLock
<1> QED
  BY <1>1, <1>2, <1>3, <1>4

-----------------------------------------------------------------------------
LEMMA LockInit ==
  Init => LockInv
<1>1. SUFFICES ASSUME Init PROVE LockParts
  BY WarmInit DEF LockInv
<1>2. /\ page.loaded = None /\ page.press = "no" /\ prep = [i \in Preps |-> NoPrep] /\ micro = << >>
      /\ worker = NoWorker /\ inbox = << >>
  BY <1>1 DEF Init
<1>3. NoPrep.waiters = << >> /\ None \notin Preps /\ ~NoWorker.job.on
  BY PlacesFacts DEF NoPrep, None, NoWorker, NoRun
<1>4. Files(<< >>) = {}
  BY DEF Files
<1>5. Going(Now, "export") = {}
  BY <1>2, <1>3 DEF Going, Now
<1>6. Rooms(Now)
  BY <1>2, <1>3 DEF Rooms, Now
<1>7. Lock(Now)
  BY <1>2, <1>3, <1>4, <1>5 DEF Lock, Now
<1> QED
  BY <1>2, <1>3, <1>6, <1>7 DEF LockParts

LEMMA LockStep ==
  LockInv /\ [Next]_vars => LockInv'
<1>1. SUFFICES ASSUME LockInv, [Next]_vars PROVE LockParts'
  BY WarmStepOK DEF LockInv
<1>a. Pool \subseteq BOOLEAN /\ WarmInv
  BY <1>1, WarmAssumption DEF LockInv
<1>2. CASE Reader
  BY <1>1, <1>2, ReaderLock
<1>3. CASE OpeningEnds \/ IdleTime
  BY <1>1, <1>3, OpeningLock
<1>4. CASE Timers
  BY <1>1, <1>4, OutcomeType, FireWarmLock DEF Timers
<1>5. CASE Conversion
  BY <1>1, <1>a, <1>5, OutcomeType, SetsLock, ConvertStartsSets, FacePaintedSets, FontConvertedSets,
     FaceAcceptedLock DEF Conversion
<1>6. CASE Ping
  BY <1>1, <1>a, <1>6, OutcomeType, PingReplyLock DEF Ping
<1>7. CASE PoolEnds \/ EngineDies
  BY <1>1, <1>7, PoolEndsLock, EngineDiesLock
<1>8. CASE Continues
  BY <1>1, <1>a, <1>8, OutcomeType, ContinueLock DEF Continues
<1>9. CASE Answers
  BY <1>1, <1>9, OutcomeType, LoadAnsweredLock, FontAnsweredLock, WarmAnsweredLock, FileAnsweredLock DEF Answers
<1>10. CASE Wakes \/ Reads \/ Spine
  BY <1>1, <1>10, OutcomeType, WorkerStepsLock DEF Wakes, Reads, Spine
<1>11. CASE UNCHANGED vars
  <2>1. Now' = Now /\ worker' = worker
    BY <1>11 DEF vars, Now
  <2> QED
    BY <1>1, <2>1 DEF LockInv, LockParts
<1> QED
  BY <1>1, <1>2, <1>3, <1>4, <1>5, <1>6, <1>7, <1>8, <1>9, <1>10, <1>11 DEF Next

\* However presses, preparations, hot syncs and deaths of the engine fall together, whoever holds
\* the export lock of the page has exactly one continuation, call or answer that gives it back, and
\* an engine is locked only for the press that waits for its file.
THEOREM TheLockIsAnswered ==
  Spec => []ExportIsAwaited
<1>1. Spec => []LockInv
  BY LockInit, LockStep, PTL DEF Spec
<1>2. LockInv => ExportIsAwaited
  <2>1. SUFFICES ASSUME LockInv PROVE ExportIsAwaited
    OBVIOUS
  <2>2. Lock(Now) /\ Now.page = page /\ Now.worker = worker /\ Now.inbox = inbox
    BY <2>1 DEF LockInv, LockParts, Now
  <2> QED
    BY <2>2 DEF Lock, ExportIsAwaited
<1> QED
  BY <1>1, <1>2, PTL

-----------------------------------------------------------------------------
(***************************************************************************)
(* The face of the engine: who has asked it to take one, and who has been  *)
(* answered.                                                               *)
(***************************************************************************)
\* Handlers that have not gone on yet: those that are about to, or else those that wait.
Pending(w) == IF w.woken # << >> THEN w.woken ELSE w.waiting

FontAsks(j) == {h \in HandlerType : h.cmd = "loadFont" /\ h.id = j}
FontSays(j) == {m \in MessageType : m.re = "loadFont" /\ m.id = j}
LoadAsks(i) == {l \in LoadType : l.prep = i}
LoadSays(i) == {m \in MessageType : m.re = "load" /\ m.id = i}
OldFaces(f) == {h \in HandlerType : h.cmd = "loadFont" /\ h.face # f}

\* A call is asked or answered, not both, and only once.
Neither(P, Q) == P = {} /\ Q = {}
OneOf(P, Q)   == Neither(P, Q) \/ (Once(P) /\ Q = {}) \/ (P = {} /\ Once(Q))

NoFont(s, j)  == Neither(At(Pending(s.worker), FontAsks(j)), At(s.inbox, FontSays(j)))
OneFont(s, j) == OneOf(At(Pending(s.worker), FontAsks(j)), At(s.inbox, FontSays(j)))
NoLoad(s, i)  == Neither(At(s.worker.loads, LoadAsks(i)), At(s.inbox, LoadSays(i)))
OneLoad(s, i) == OneOf(At(s.worker.loads, LoadAsks(i)), At(s.inbox, LoadSays(i)))

\* The engine has the face of the page, and nothing that waits will take it away.
Has(s) == s.worker.custom = s.page.face /\ At(Pending(s.worker), OldFaces(s.page.face)) = {}

\* No older face comes after that of call j; once it is taken, the engine has the face of the page.
Up(s, j) ==
  /\ \A n \in At(Pending(s.worker), FontAsks(j)) : \A m \in At(Pending(s.worker), OldFaces(s.page.face)) : m < n
  /\ At(s.inbox, {FontReply(j, TRUE)}) # {} => Has(s)

\* From s to t calls are answered and answers are read; new calls are those of loads and fonts.
Carries(t, s, loads, fonts) ==
  /\ t.page.face = s.page.face
  /\ Has(s) => Has(t)
  /\ \A i \in Preps \ loads : (NoLoad(s, i) => NoLoad(t, i)) /\ (OneLoad(s, i) => OneLoad(t, i))
  /\ \A j \in Places \ fonts : /\ NoFont(s, j) => NoFont(t, j)
                               /\ OneFont(s, j) => OneFont(t, j)
                               /\ Up(s, j) => Up(t, j)

Wired(s) == s.worker \in WorkerType /\ s.inbox \in Seq(MessageType)

LEMMA PendingType ==
  ASSUME NEW w \in WorkerType
  PROVE  Pending(w) \in Seq(HandlerType)
BY DEF WorkerType, Pending

LEMMA OneOfSame ==
  ASSUME NEW P, NEW Q, NEW R, NEW T, Same(P, R), Same(Q, T)
  PROVE  (Neither(P, Q) => Neither(R, T)) /\ (OneOf(P, Q) => OneOf(R, T))
BY DEF Same, Neither, OneOf

\* What was asked is answered.
LEMMA OneOfMoves ==
  ASSUME NEW P, NEW Q, NEW R, NEW T, P # {}, Once(P) => R = {}, Q = {} => Once(T)
  PROVE  ~Neither(P, Q) /\ (OneOf(P, Q) => OneOf(R, T))
BY NeverOnce DEF Neither, OneOf

\* The queue of those that wait changes, but not the fonts in it.
Quiet(p, q) ==
  \/ p = q
  \/ \E h \in HandlerType : h.cmd # "loadFont" /\ p = Append(q, h)
  \/ q # << >> /\ Head(q).cmd # "loadFont" /\ p = Tail(q)

LEMMA QuietAt ==
  ASSUME NEW q \in Seq(HandlerType), NEW p, Quiet(p, q), NEW A, NEW B, \A h \in A \cup B : h.cmd = "loadFont"
  PROVE  /\ Same(At(q, A), At(p, A))
         /\ (\A n \in At(q, A) : \A m \in At(q, B) : m < n) => \A n \in At(p, A) : \A m \in At(p, B) : m < n
<1>1. CASE p = q
  BY <1>1 DEF Same
<1>2. ASSUME NEW h \in HandlerType, h.cmd # "loadFont", p = Append(q, h)
      PROVE  At(p, A) = At(q, A) /\ At(p, B) = At(q, B)
  BY <1>2, AtAppend
<1>3. CASE q # << >> /\ Head(q).cmd # "loadFont" /\ p = Tail(q)
  <2>1. /\ \A n \in At(p, A) : n \in Nat /\ n + 1 \in At(q, A)
        /\ \A n \in At(p, B) : n \in Nat /\ n + 1 \in At(q, B)
    BY <1>3, AtTail
  <2>2. Same(At(q, A), At(p, A))
    BY <1>3, AtHead
  <2>3. ASSUME \A n \in At(q, A) : \A m \in At(q, B) : m < n, NEW n \in At(p, A), NEW m \in At(p, B)
        PROVE  m < n
    <3>1. m + 1 < n + 1 /\ m \in Nat /\ n \in Nat
      BY <2>1, <2>3
    <3> QED
      BY <3>1
  <2> QED
    BY <2>2, <2>3
<1> QED
  BY <1>1, <1>2, <1>3 DEF Quiet, Same

\* Answers that are not of loads or fonts.
Mute(out) == out \in Seq(MessageType) /\ \A n \in DOMAIN out : out[n].re \notin {"load", "loadFont"}

LEMMA MuteAt ==
  ASSUME NEW q \in Seq(MessageType), NEW out, Mute(out), NEW j
  PROVE  /\ At(q \o out, FontSays(j)) = At(q, FontSays(j))
         /\ At(q \o out, LoadSays(j)) = At(q, LoadSays(j))
         /\ At(q \o out, {FontReply(j, TRUE)}) = At(q, {FontReply(j, TRUE)})
<1>1. FontReply(j, TRUE).re = "loadFont"
  BY DEF FontReply
<1>2. At(out, FontSays(j)) = {} /\ At(out, LoadSays(j)) = {} /\ At(out, {FontReply(j, TRUE)}) = {}
  BY <1>1 DEF Mute, At, FontSays, LoadSays
<1>3. out \in Seq(MessageType)
  BY DEF Mute
<1>4. \A A : At(out, A) = {} => At(q \o out, A) = At(q, A)
  BY <1>3, AtConcat
<1> QED
  BY <1>2, <1>4

\* Nothing happens to the faces and the books that were asked for.
LEMMA QuietCarries ==
  ASSUME NEW s, Wired(s), NEW t, t.page.face = s.page.face,
         t.worker.custom = s.worker.custom, t.worker.loads = s.worker.loads,
         Quiet(Pending(t.worker), Pending(s.worker)), NEW out, Mute(out), t.inbox = s.inbox \o out
  PROVE  Carries(t, s, {}, {})
<1> DEFINE q == Pending(s.worker)
           p == Pending(t.worker)
           f == s.page.face
<1>1. q \in Seq(HandlerType) /\ Quiet(p, q)
  BY PendingType DEF Wired
<1> HIDE DEF p, q
<1>2. \A j : /\ At(t.inbox, FontSays(j)) = At(s.inbox, FontSays(j))
             /\ At(t.inbox, LoadSays(j)) = At(s.inbox, LoadSays(j))
             /\ At(t.inbox, {FontReply(j, TRUE)}) = At(s.inbox, {FontReply(j, TRUE)})
  <2>1. s.inbox \in Seq(MessageType)
    BY DEF Wired
  <2>2. TAKE j
  <2>3. /\ At(s.inbox \o out, FontSays(j)) = At(s.inbox, FontSays(j))
        /\ At(s.inbox \o out, LoadSays(j)) = At(s.inbox, LoadSays(j))
        /\ At(s.inbox \o out, {FontReply(j, TRUE)}) = At(s.inbox, {FontReply(j, TRUE)})
    BY <2>1, MuteAt
  <2> QED
    BY <2>3
<1>3. \A j : /\ Same(At(q, FontAsks(j)), At(p, FontAsks(j)))
             /\ (\A n \in At(q, FontAsks(j)) : \A m \in At(q, OldFaces(f)) : m < n)
                  => \A n \in At(p, FontAsks(j)) : \A m \in At(p, OldFaces(f)) : m < n
  BY <1>1, QuietAt DEF FontAsks, OldFaces
<1>4. Same(At(q, OldFaces(f)), At(p, OldFaces(f)))
  BY <1>1, QuietAt DEF OldFaces
<1>5. Has(s) => Has(t)
  BY <1>4 DEF Has, Same, p, q
<1>6. ASSUME NEW i \in Preps PROVE (NoLoad(s, i) => NoLoad(t, i)) /\ (OneLoad(s, i) => OneLoad(t, i))
  BY <1>2 DEF NoLoad, OneLoad
<1>7. ASSUME NEW j \in Places PROVE (NoFont(s, j) => NoFont(t, j)) /\ (OneFont(s, j) => OneFont(t, j))
  <2>1. Same(At(s.inbox, FontSays(j)), At(t.inbox, FontSays(j)))
    BY <1>2 DEF Same
  <2> QED
    BY <1>3, <2>1, OneOfSame DEF NoFont, OneFont, p, q
<1>8. ASSUME NEW j \in Places PROVE Up(s, j) => Up(t, j)
  BY <1>2, <1>3, <1>5 DEF Up, p, q
<1> QED
  BY <1>5, <1>6, <1>7, <1>8 DEF Carries

-----------------------------------------------------------------------------
(* Handlers that leave the faces and the books alone. *)

Hush(r, w) == /\ r.w.custom = w.custom /\ r.w.loads = w.loads
              /\ Quiet(Pending(r.w), Pending(w)) /\ Mute(r.out)

\* A worker with the same face, books and handlers.
Equal(v, w) == v.custom = w.custom /\ v.loads = w.loads /\ v.waiting = w.waiting /\ v.woken = w.woken

LEMMA SaysHush ==
  ASSUME NEW w, NEW v, v.custom = w.custom, v.loads = w.loads, Quiet(Pending(v), Pending(w))
  PROVE  /\ Hush(Quietly(v), w)
         /\ \A m \in MessageType : m.re \notin {"load", "loadFont"} => Hush(Says(v, m), w)
<1>1. Mute(<< >>)
  BY DEF Mute
<1>2. ASSUME NEW m \in MessageType, m.re \notin {"load", "loadFont"} PROVE Mute(<<m>>)
  BY <1>2 DEF Mute
<1> QED
  BY <1>1, <1>2 DEF Hush, Says, Quietly

LEMMA EqualHush ==
  ASSUME NEW w, NEW v, Equal(v, w)
  PROVE  /\ Hush(Quietly(v), w)
         /\ \A m \in MessageType : m.re \notin {"load", "loadFont"} => Hush(Says(v, m), w)
<1>1. Quiet(Pending(v), Pending(w))
  BY DEF Equal, Pending, Quiet
<1> QED
  BY <1>1, SaysHush DEF Equal

LEMMA HandleWarmHush ==
  ASSUME NEW w \in WorkerType, NEW m, m.tok \in Nat, m.key \in Keys, NEW ok \in BOOLEAN
  PROVE  Hush(HandleWarm(w, m, ok), w)
<1> DEFINE taken == [w EXCEPT !.token = m.tok]
           b == [taken EXCEPT !.bytes = NoFile]
           a == Applied(b, m.spec)
           v == [a EXCEPT !.warm = NextSpine(a, Run(a, m))]
<1>1. taken \in WorkerType /\ Equal(taken, w)
  BY DEF WorkerType, Equal
<1>2. b \in WorkerType /\ Equal(b, w)
  BY <1>1, NoFileType DEF WorkerType, Equal
<1> HIDE DEF b
<1>3. Equal(a, w) /\ DOMAIN a = DOMAIN b
  BY <1>2, AppliedSame DEF Equal
<1> HIDE DEF a
<1>4. Equal(v, w)
  BY <1>2, <1>3 DEF WorkerType, Equal
<1>5. \/ \E res \in {"error", "superseded", "busy"} :
           HandleWarm(w, m, ok) \in {Says(w, WarmReply(m, res)), Says(taken, WarmReply(m, res)),
                                     Says(b, WarmReply(m, res)), Says(a, WarmReply(m, res))}
      \/ HandleWarm(w, m, ok) = Quietly(v)
  BY DEF HandleWarm, a, b
<1> HIDE DEF taken, v
<1>6. \A res \in {"error", "superseded", "busy"} : WarmReply(m, res) \in MessageType /\ WarmReply(m, res).re = "warm"
  BY DEF WarmReply, MessageType
<1>7. Equal(w, w)
  BY DEF Equal
<1> QED
  BY <1>1, <1>2, <1>3, <1>4, <1>5, <1>6, <1>7, EqualHush

LEMMA FileReplyType ==
  ASSUME NEW made \in Uniform
  PROVE  FileReply(made) \in MessageType /\ FileReply(made).re = "file"
BY DEF FileReply, MessageType

LEMMA HandleFetchHush ==
  ASSUME NEW w \in WorkerType
  PROVE  Hush(HandleFetch(w), w)
<1> DEFINE v == [w EXCEPT !.bytes = NoFile]
<1>1. Equal(v, w) /\ Equal(w, w) /\ w.bytes \in Uniform
  BY DEF WorkerType, Equal
<1>2. HandleFetch(w) = IF Replacing(w) THEN Says(w, FileReply(NoFile)) ELSE Says(v, FileReply(w.bytes))
  BY DEF HandleFetch
<1> HIDE DEF v
<1> QED
  BY <1>1, <1>2, EqualHush, FileReplyType, NoFileType

LEMMA ExportFailsHush ==
  ASSUME NEW w, NEW x, DOMAIN x = DOMAIN NoWorker, Equal(x, w)
  PROVE  Hush(ExportFails(x), w)
<1> DEFINE v == [x EXCEPT !.job = NoRun]
<1>1. DOMAIN NoWorker = {"alive", "book", "custom", "spec", "font", "token", "warm", "job", "bytes", "loads", "waiting", "woken"}
  BY DEF NoWorker
<1>2. Equal(v, w)
  BY <1>1 DEF Equal
<1>3. ExportFails(x) = Says(v, FileReply(NoFile))
  BY DEF ExportFails
<1> HIDE DEF v
<1> QED
  BY <1>2, <1>3, EqualHush, FileReplyType, NoFileType

LEMMA BeginExportHush ==
  ASSUME NEW w \in WorkerType, NEW spec, NEW ok \in BOOLEAN
  PROVE  Hush(BeginExport(w, spec, ok), w)
<1> DEFINE a == Applied(w, spec)
           v == [a EXCEPT !.job = NextSpine(a, Run(a, NoRun))]
<1>1. Equal(a, w) /\ DOMAIN a = DOMAIN NoWorker
  BY AppliedSame, WorkerDomain DEF Equal
<1>2. BeginExport(w, spec, ok) = IF ~CanApply(w, spec) THEN ExportFails(w)
                                 ELSE IF ~ok THEN ExportFails(a) ELSE Quietly(v)
  BY DEF BeginExport
<1> HIDE DEF a
<1>3. DOMAIN NoWorker = {"alive", "book", "custom", "spec", "font", "token", "warm", "job", "bytes", "loads", "waiting", "woken"}
  BY DEF NoWorker
<1>4. Equal(v, w) /\ Equal(w, w)
  BY <1>1, <1>3 DEF Equal
<1> HIDE DEF v
<1> QED
  BY <1>1, <1>2, <1>4, EqualHush, ExportFailsHush, WorkerDomain

LEMMA HandleExportHush ==
  ASSUME NEW w \in WorkerType, w.woken = << >>, NEW spec \in Settings, NEW ok \in BOOLEAN
  PROVE  Hush(HandleExport(w, spec, ok), w)
<1> DEFINE h == [cmd |-> "exportBook", spec |-> spec]
           v == [Wait(w, h) EXCEPT !.job = [NoRun EXCEPT !.on = TRUE]]
<1>1. h \in HandlerType /\ h.cmd # "loadFont"
  BY DEF HandlerType
<1>2. HandleExport(w, spec, ok) =
        IF Replacing(w) \/ w.book = None \/ w.job.on THEN Says(w, FileReply(NoFile))
        ELSE IF w.warm.on THEN Quietly(v) ELSE BeginExport(w, spec, ok)
  BY DEF HandleExport
<1> HIDE DEF h
<1>3. v.custom = w.custom /\ v.loads = w.loads /\ v.waiting = Append(w.waiting, h) /\ v.woken = << >>
  BY DEF WorkerType, Wait
<1> HIDE DEF v
<1>4. Quiet(Pending(v), Pending(w))
  BY <1>1, <1>3 DEF Quiet, Pending
<1>5. Hush(Quietly(v), w)
  BY <1>3, <1>4, SaysHush
<1>6. Equal(w, w)
  BY DEF Equal
<1> QED
  BY <1>2, <1>5, <1>6, EqualHush, FileReplyType, NoFileType, BeginExportHush

LEMMA ExportGoesOnHush ==
  ASSUME NEW w \in WorkerType, NEW ok \in BOOLEAN
  PROVE  Hush(ExportGoesOn(w, ok), w)
<1> DEFINE v == [w EXCEPT !.job = NoRun]
           u == [w EXCEPT !.job = NextSpine(w, w.job)]
<1>1. ExportGoesOn(w, ok) = IF w.job.done = Spines THEN Says(v, FileReply(w.job.made))
                            ELSE IF ok THEN Quietly(u) ELSE ExportFails(w)
  BY DEF ExportGoesOn
<1>2. Equal(v, w) /\ Equal(u, w) /\ Equal(w, w) /\ w.job.made \in Uniform
  BY DEF WorkerType, RunType, Equal
<1> HIDE DEF v, u
<1> QED
  BY <1>1, <1>2, EqualHush, FileReplyType, ExportFailsHush, WorkerDomain

\* Those that waited for the warm are about to go on: in the same order.
LEMMA WarmGoesOnHush ==
  ASSUME NEW w \in WorkerType, w.woken = << >>, NEW ok \in BOOLEAN
  PROVE  Hush(WarmGoesOn(w, ok), w)
<1> DEFINE e == EndWarm(w)
           f == EndWarm([w EXCEPT !.bytes = w.warm.made])
           v == [w EXCEPT !.warm = NextSpine(w, w.warm)]
<1>1. /\ e.custom = w.custom /\ e.loads = w.loads /\ e.waiting = << >> /\ e.woken = w.waiting
      /\ f.custom = w.custom /\ f.loads = w.loads /\ f.waiting = << >> /\ f.woken = w.waiting
  BY DEF WorkerType, EndWarm
<1>2. Equal(v, w)
  BY DEF WorkerType, Equal
<1>3. \/ \E res \in {"superseded", "error", "ready"} :
           WarmGoesOn(w, ok) \in {Says(e, WarmReply(w.warm, res)), Says(f, WarmReply(w.warm, res))}
      \/ WarmGoesOn(w, ok) = Quietly(v)
  BY DEF WarmGoesOn
<1> HIDE DEF e, f, v
<1>4. Pending(e) = Pending(w) /\ Pending(f) = Pending(w)
  BY <1>1 DEF Pending
<1>5. \A res \in {"superseded", "error", "ready"} :
        WarmReply(w.warm, res) \in MessageType /\ WarmReply(w.warm, res).re = "warm"
  <2>1. w.warm.tok \in Nat /\ w.warm.key \in Keys
    BY DEF WorkerType, RunType
  <2> QED
    BY <2>1 DEF WarmReply, MessageType
<1>6. Quiet(Pending(e), Pending(w)) /\ Quiet(Pending(f), Pending(w))
  BY <1>4 DEF Quiet
<1> QED
  BY <1>1, <1>2, <1>3, <1>5, <1>6, EqualHush, SaysHush

-----------------------------------------------------------------------------
(* Calls are asked, answered and read. *)

\* What becomes of a state of the page when the worker handles something: r is what the handler does.
Handled(t, s, r) == t.page.face = s.page.face /\ t.worker = r.w /\ t.inbox = s.inbox \o r.out

LEMMA HushCarries ==
  ASSUME NEW s, Wired(s), NEW t, NEW r, Handled(t, s, r), NEW w, Equal(w, s.worker), Hush(r, w)
  PROVE  Carries(t, s, {}, {})
<1>1. Pending(w) = Pending(s.worker)
  BY DEF Equal, Pending
<1> QED
  BY <1>1, QuietCarries DEF Hush, Handled, Equal

\* One more answer.
LEMMA SaidAt ==
  ASSUME NEW q \in Seq(MessageType), NEW m \in MessageType, NEW A
  PROVE  /\ m \notin A => At(q \o <<m>>, A) = At(q, A)
         /\ m \in A /\ At(q, A) = {} => Once(At(q \o <<m>>, A))
<1>1. q \o <<m>> = Append(q, m)
  OBVIOUS
<1>2. /\ m \notin A => At(Append(q, m), A) = At(q, A)
      /\ m \in A /\ At(q, A) = {} => At(Append(q, m), A) = {Len(q) + 1}
  BY AtAppend
<1> QED
  BY <1>1, <1>2, OnceOne

LEMMA LoadSaid ==
  ASSUME NEW i \in Preps, NEW ok \in BOOLEAN
  PROVE  LET m == LoadReply(i, ok)
         IN  /\ m \in MessageType /\ \A j : m \notin FontSays(j) /\ m \notin {FontReply(j, TRUE)}
             /\ \A k : m \in LoadSays(k) <=> k = i
BY DEF LoadReply, FontReply, MessageType, FontSays, LoadSays

LEMMA FontSaid ==
  ASSUME NEW j \in Places, NEW ok \in BOOLEAN
  PROVE  LET m == FontReply(j, ok)
         IN  /\ m \in MessageType /\ \A i : m \notin LoadSays(i)
             /\ \A k : (m \in FontSays(k) <=> k = j) /\ (m \in {FontReply(k, TRUE)} <=> k = j /\ ok)
BY DEF FontReply, MessageType, FontSays, LoadSays, Places

\* Two answers to a font that say that it was taken are answers to it.
LEMMA TakenIsSaid ==
  ASSUME NEW q \in Seq(MessageType), NEW j \in Places
  PROVE  At(q, FontSays(j)) = {} => At(q, {FontReply(j, TRUE)}) = {}
<1>1. FontReply(j, TRUE) \in FontSays(j)
  BY FontSaid
<1> QED
  BY <1>1 DEF At

\* The fonts are as they were, and no answer speaks of them.
LEMMA FontsCarried ==
  ASSUME NEW s, NEW t, t.page.face = s.page.face, t.worker.custom = s.worker.custom,
         Pending(t.worker) = Pending(s.worker),
         \A j : At(t.inbox, FontSays(j)) = At(s.inbox, FontSays(j)),
         \A j : At(t.inbox, {FontReply(j, TRUE)}) = At(s.inbox, {FontReply(j, TRUE)})
  PROVE  /\ Has(s) => Has(t)
         /\ \A j \in Places : /\ NoFont(s, j) => NoFont(t, j)
                              /\ OneFont(s, j) => OneFont(t, j)
                              /\ Up(s, j) => Up(t, j)
BY DEF Has, NoFont, OneFont, Up

LEMMA LoadsCarried ==
  ASSUME NEW s, NEW t, t.worker.loads = s.worker.loads,
         NEW i, At(t.inbox, LoadSays(i)) = At(s.inbox, LoadSays(i))
  PROVE  (NoLoad(s, i) => NoLoad(t, i)) /\ (OneLoad(s, i) => OneLoad(t, i))
BY DEF NoLoad, OneLoad

\* The book at the head of the queue has been read.
LEMMA LoadEndsCarries ==
  ASSUME NEW s, Wired(s), s.worker.loads # << >>, NEW ok \in BOOLEAN, NEW t, Handled(t, s, LoadEnds(s.worker, ok))
  PROVE  Carries(t, s, {}, {})
<1> DEFINE w == s.worker
           l == Head(w.loads)
           m == LoadReply(l.prep, ok)
           book == IF ok THEN l.book ELSE None
           font == IF ok /\ w.spec.font = "custom" THEN "custom" ELSE "kopub"
           read == [w EXCEPT !.loads = Tail(w.loads), !.book = book, !.font = font]
<1>1. w \in WorkerType /\ w.loads \in Seq(LoadType) /\ l \in LoadType /\ l.prep \in Preps
  <2>1. w \in WorkerType /\ w.loads # << >>
    BY DEF Wired
  <2>2. w.loads \in Seq(LoadType)
    BY <2>1 DEF WorkerType
  <2>3. l \in LoadType
    BY <2>1, <2>2
  <2>4. l.prep \in Preps
    BY <2>3 DEF LoadType
  <2> QED
    BY <2>1, <2>2, <2>3, <2>4
<1>2. LoadEnds(w, ok) = Says(IF Replacing(read) THEN BeginLoad(read) ELSE read, m)
  BY DEF LoadEnds
<1>3. m \in MessageType /\ (\A j : m \notin FontSays(j) /\ m \notin {FontReply(j, TRUE)}) /\ \A k : m \in LoadSays(k) <=> k = l.prep
  BY <1>1, LoadSaid
<1> HIDE DEF m, book, font, l
<1>4. LET v == BeginLoad(read)
      IN  /\ read.custom = w.custom /\ read.loads = Tail(w.loads) /\ read.waiting = w.waiting /\ read.woken = w.woken
          /\ v.custom = w.custom /\ v.loads = Tail(w.loads) /\ v.waiting = w.waiting /\ v.woken = w.woken
  BY <1>1 DEF WorkerType, BeginLoad
<1> HIDE DEF read
<1>5. /\ t.worker.custom = w.custom /\ t.worker.loads = Tail(w.loads) /\ Pending(t.worker) = Pending(w)
      /\ t.page.face = s.page.face /\ t.inbox = s.inbox \o <<m>> /\ s.inbox \in Seq(MessageType)
  BY <1>2, <1>4 DEF Handled, Says, Pending, Wired
<1> HIDE DEF w
<1>6. /\ \A j : At(t.inbox, FontSays(j)) = At(s.inbox, FontSays(j))
      /\ \A j : At(t.inbox, {FontReply(j, TRUE)}) = At(s.inbox, {FontReply(j, TRUE)})
  BY <1>3, <1>5, SaidAt
<1>7. ASSUME NEW i \in Preps PROVE (NoLoad(s, i) => NoLoad(t, i)) /\ (OneLoad(s, i) => OneLoad(t, i))
  <2> DEFINE P == At(w.loads, LoadAsks(i))
             R == At(t.worker.loads, LoadAsks(i))
             Q == At(s.inbox, LoadSays(i))
             T == At(t.inbox, LoadSays(i))
  <2>1. l \in LoadAsks(i) <=> l.prep = i
    BY <1>1 DEF LoadAsks
  <2>2. /\ l \notin LoadAsks(i) => Same(P, R)
        /\ l \in LoadAsks(i) => P # {} /\ (Once(P) => R = {})
    BY <1>1, <1>5, AtHead DEF w, l
  <2>3. /\ m \notin LoadSays(i) => T = Q
        /\ m \in LoadSays(i) /\ Q = {} => Once(T)
    BY <1>3, <1>5, SaidAt
  <2>4. m \in LoadSays(i) <=> i = l.prep
    BY <1>3
  <2> HIDE DEF P, Q, R, T
  <2>5. (Neither(P, Q) => Neither(R, T)) /\ (OneOf(P, Q) => OneOf(R, T))
    <3>1. CASE i = l.prep
      BY <2>1, <2>2, <2>3, <2>4, <3>1, OneOfMoves
    <3>2. CASE i # l.prep
      <4>1. Same(Q, T) /\ Same(P, R)
        BY <2>1, <2>2, <2>3, <2>4, <3>2 DEF Same
      <4> QED
        BY <4>1, OneOfSame
    <3> QED
      BY <3>1, <3>2
  <2> QED
    BY <2>5 DEF NoLoad, OneLoad, P, Q, R, T, w
<1>8. /\ Has(s) => Has(t)
      /\ \A j \in Places : /\ NoFont(s, j) => NoFont(t, j)
                           /\ OneFont(s, j) => OneFont(t, j)
                           /\ Up(s, j) => Up(t, j)
  <2>1. t.worker.custom = s.worker.custom /\ Pending(t.worker) = Pending(s.worker) /\ t.page.face = s.page.face
    BY <1>5 DEF w
  <2> QED
    BY <1>6, <2>1, FontsCarried
<1> QED
  BY <1>5, <1>7, <1>8 DEF Carries

\* One more answer to a font.
FontReplied(t, s, j, ok) ==
  /\ \A i \in Preps : (NoLoad(s, i) => NoLoad(t, i)) /\ (OneLoad(s, i) => OneLoad(t, i))
  /\ \A k \in Places \ {j} : /\ At(t.inbox, FontSays(k)) = At(s.inbox, FontSays(k))
                             /\ At(t.inbox, {FontReply(k, TRUE)}) = At(s.inbox, {FontReply(k, TRUE)})
  /\ At(s.inbox, FontSays(j)) = {} => Once(At(t.inbox, FontSays(j)))
  /\ ~ok => At(t.inbox, {FontReply(j, TRUE)}) = At(s.inbox, {FontReply(j, TRUE)})

LEMMA FontRepliedAt ==
  ASSUME NEW s, Wired(s), NEW j \in Places, NEW ok \in BOOLEAN, NEW t, t.worker.loads = s.worker.loads,
         t.inbox = s.inbox \o <<FontReply(j, ok)>>
  PROVE  FontReplied(t, s, j, ok)
<1> DEFINE m == FontReply(j, ok)
<1>1. /\ m \in MessageType /\ \A i : m \notin LoadSays(i)
      /\ \A k : (m \in FontSays(k) <=> k = j) /\ (m \in {FontReply(k, TRUE)} <=> k = j /\ ok)
  BY FontSaid
<1>2. s.inbox \in Seq(MessageType) /\ t.inbox = s.inbox \o <<m>>
  BY DEF Wired
<1> HIDE DEF m
<1>3. \A A : /\ m \notin A => At(t.inbox, A) = At(s.inbox, A)
             /\ m \in A /\ At(s.inbox, A) = {} => Once(At(t.inbox, A))
  BY <1>1, <1>2, SaidAt
<1>4. \A i : At(t.inbox, LoadSays(i)) = At(s.inbox, LoadSays(i))
  BY <1>1, <1>3
<1>5. \A i : (NoLoad(s, i) => NoLoad(t, i)) /\ (OneLoad(s, i) => OneLoad(t, i))
  BY <1>4, LoadsCarried
<1>6. \A k \in Places \ {j} : /\ At(t.inbox, FontSays(k)) = At(s.inbox, FontSays(k))
                              /\ At(t.inbox, {FontReply(k, TRUE)}) = At(s.inbox, {FontReply(k, TRUE)})
  <2>1. ASSUME NEW k \in Places \ {j}
        PROVE  /\ At(t.inbox, FontSays(k)) = At(s.inbox, FontSays(k))
               /\ At(t.inbox, {FontReply(k, TRUE)}) = At(s.inbox, {FontReply(k, TRUE)})
    <3>1. m \notin FontSays(k) /\ m \notin {FontReply(k, TRUE)}
      BY <1>1
    <3> QED
      BY <1>3, <3>1
  <2> QED
    BY <2>1
<1>7. At(s.inbox, FontSays(j)) = {} => Once(At(t.inbox, FontSays(j)))
  BY <1>1, <1>3
<1>8. ~ok => At(t.inbox, {FontReply(j, TRUE)}) = At(s.inbox, {FontReply(j, TRUE)})
  BY <1>1, <1>3
<1> QED
  BY <1>5, <1>6, <1>7, <1>8 DEF FontReplied

LEMMA BeginExportSame ==
  ASSUME NEW w \in WorkerType, NEW spec, NEW ok \in BOOLEAN
  PROVE  Equal(BeginExport(w, spec, ok).w, w)
<1> DEFINE a == Applied(w, spec)
           v == [a EXCEPT !.job = NextSpine(a, Run(a, NoRun))]
           x == [w EXCEPT !.job = NoRun]
           y == [a EXCEPT !.job = NoRun]
<1>1. Equal(a, w) /\ DOMAIN a = DOMAIN NoWorker
  BY AppliedSame, WorkerDomain DEF Equal
<1>2. BeginExport(w, spec, ok).w = IF ~CanApply(w, spec) THEN x ELSE IF ~ok THEN y ELSE v
  BY DEF BeginExport, ExportFails, Says, Quietly
<1> HIDE DEF a
<1>3. DOMAIN NoWorker = {"alive", "book", "custom", "spec", "font", "token", "warm", "job", "bytes", "loads", "waiting", "woken"}
  BY DEF NoWorker
<1>4. Equal(v, w) /\ Equal(y, w) /\ Equal(x, w)
  BY <1>1, <1>3 DEF Equal, WorkerType
<1> HIDE DEF v, x, y
<1> QED
  BY <1>2, <1>4

\* A handler that waited goes on, and it is not that of a font.
LEMMA ResumeHush ==
  ASSUME NEW v, Sound(v), v.woken # << >>, Head(v.woken).cmd # "loadFont", NEW ok \in BOOLEAN
  PROVE  Hush(Resume([v EXCEPT !.woken = Tail(v.woken)], Head(v.woken), ok), v)
<1> DEFINE rest == Tail(v.woken)
           h == Head(v.woken)
           w == [v EXCEPT !.woken = rest]
           d == [w EXCEPT !.bytes = NoFile]
           b == BeginLoad(d)
           r == Resume(w, h, ok)
<1>1. /\ v \in WorkerType /\ v.woken \in Seq(HandlerType) /\ v.waiting = << >>
      /\ rest \in Seq(HandlerType) /\ h \in HandlerType
  BY DEF Sound, WorkerType, Stops, Alone
<1>2. d \in WorkerType /\ d.custom = v.custom /\ d.loads = v.loads /\ d.waiting = << >> /\ d.woken = rest
  BY <1>1, NoFileType DEF WorkerType
<1>3. /\ h.cmd = "load" => r = Quietly(b)
      /\ h.cmd = "exportBook" => r = BeginExport(d, h.spec, ok)
  BY DEF Resume
<1>4. h.cmd \in {"load", "exportBook"}
  BY <1>1 DEF HandlerType
<1> HIDE DEF h, w, d, rest
<1>5. Equal(b, d)
  BY <1>2 DEF WorkerType, BeginLoad, Equal
<1> HIDE DEF b
<1>6. Equal(r.w, d) /\ Mute(r.out)
  <2>1. CASE h.cmd = "load"
    <3>1. r.w = b /\ r.out = << >>
      BY <1>3, <2>1 DEF Quietly
    <3>2. Mute(<< >>)
      BY DEF Mute
    <3> QED
      BY <1>5, <3>1, <3>2
  <2>2. CASE h.cmd = "exportBook"
    BY <1>2, <1>3, <2>2, BeginExportSame, BeginExportHush DEF Hush
  <2> QED
    BY <1>4, <2>1, <2>2
<1> HIDE DEF r
<1>7. Pending(r.w) = rest /\ Pending(v) = v.woken
  BY <1>2, <1>6 DEF Equal, Pending
<1>8. Quiet(Pending(r.w), Pending(v))
  BY <1>7 DEF Quiet, rest
<1>9. Hush(r, v)
  BY <1>2, <1>6, <1>8 DEF Hush, Equal
<1> QED
  BY <1>9 DEF r, w, h, rest

\* A font that waited goes on: it is taken, or not, and answered.
LEMMA ResumeFontCarries ==
  ASSUME NEW s, Wired(s), Sound(s.worker), s.worker.woken # << >>, Head(s.worker.woken).cmd = "loadFont",
         NEW ok \in BOOLEAN, NEW t,
         Handled(t, s, Resume([s.worker EXCEPT !.woken = Tail(s.worker.woken)], Head(s.worker.woken), ok))
  PROVE  Carries(t, s, {}, {})
<1> DEFINE q == s.worker.woken
           p == Pending(t.worker)
           h == Head(q)
           f == s.page.face
           w == [s.worker EXCEPT !.woken = Tail(q)]
           d == [w EXCEPT !.bytes = NoFile]
           e == [d EXCEPT !.custom = h.face, !.font = "custom"]
           j == h.id
<1>1. /\ s.worker \in WorkerType /\ q \in Seq(HandlerType) /\ s.worker.waiting = << >> /\ Pending(s.worker) = q
      /\ Tail(q) \in Seq(HandlerType) /\ h \in HandlerType
  BY DEF Wired, Sound, WorkerType, Stops, Alone, Pending
<1>2. j \in Places /\ h.face \in Faces /\ h.cmd = "loadFont"
  BY <1>1 DEF HandlerType, Places
<1>3. d \in WorkerType /\ d.custom = s.worker.custom /\ d.loads = s.worker.loads /\ d.waiting = << >> /\ d.woken = Tail(q)
  BY <1>1, NoFileType DEF WorkerType
<1>4. /\ t.page.face = f /\ t.worker = IF ok THEN e ELSE d
      /\ t.inbox = s.inbox \o <<FontReply(j, ok)>>
  BY <1>2 DEF Handled, Resume, TakeFont, Says
<1> HIDE DEF d, w
<1>5. e.custom = h.face /\ e.loads = s.worker.loads /\ e.waiting = << >> /\ e.woken = Tail(q)
  BY <1>3 DEF WorkerType
<1> HIDE DEF e
<1>6. /\ p = Tail(q) /\ t.worker.loads = s.worker.loads
      /\ t.worker.custom = IF ok THEN h.face ELSE s.worker.custom
  BY <1>3, <1>4, <1>5 DEF Pending
<1>7. FontReplied(t, s, j, ok)
  BY <1>2, <1>4, <1>6, FontRepliedAt
<1> HIDE DEF p
<1>8. /\ h \in OldFaces(f) <=> h.face # f
      /\ \A k : h \in FontAsks(k) <=> k = j
  BY <1>1, <1>2 DEF OldFaces, FontAsks
<1>9. /\ \A n \in At(p, OldFaces(f)) : n \in Nat /\ n + 1 \in At(q, OldFaces(f))
      /\ h \in OldFaces(f) => 1 \in At(q, OldFaces(f))
      /\ \A k : (\A n \in At(p, FontAsks(k)) : n \in Nat /\ n + 1 \in At(q, FontAsks(k)))
                /\ (h \in FontAsks(k) => 1 \in At(q, FontAsks(k)))
  BY <1>1, <1>6, AtTail
<1>10. \A k : /\ h \notin FontAsks(k) => Same(At(q, FontAsks(k)), At(p, FontAsks(k)))
              /\ h \in FontAsks(k) => At(q, FontAsks(k)) # {} /\ (Once(At(q, FontAsks(k))) => At(p, FontAsks(k)) = {})
  BY <1>1, <1>6, AtHead
<1> HIDE DEF h, q, j, f
<1>11. Has(s) => Has(t)
  <2>1. SUFFICES ASSUME s.worker.custom = f, At(q, OldFaces(f)) = {} PROVE Has(t)
    BY <1>1 DEF Has, f
  <2>2. h.face = f
    BY <1>8, <1>9, <2>1
  <2>3. At(p, OldFaces(f)) = {}
    BY <1>9, <2>1
  <2>4. t.worker.custom = f
    BY <1>6, <2>1, <2>2
  <2> QED
    BY <1>4, <2>3, <2>4 DEF Has, p
<1>12. ASSUME NEW k \in Places PROVE (NoFont(s, k) => NoFont(t, k)) /\ (OneFont(s, k) => OneFont(t, k))
  <2> DEFINE P == At(q, FontAsks(k))
             R == At(p, FontAsks(k))
             Q == At(s.inbox, FontSays(k))
             T == At(t.inbox, FontSays(k))
  <2>1. CASE k = j
    <3>1. P # {} /\ (Once(P) => R = {}) /\ (Q = {} => Once(T))
      BY <1>7, <1>8, <1>10, <2>1 DEF FontReplied
    <3> HIDE DEF P, Q, R, T
    <3>2. ~Neither(P, Q) /\ (OneOf(P, Q) => OneOf(R, T))
      BY <3>1, OneOfMoves
    <3> QED
      BY <1>1, <3>2 DEF NoFont, OneFont, P, Q, R, T, p
  <2>2. CASE k # j
    <3>1. Same(P, R) /\ Same(Q, T)
      BY <1>7, <1>8, <1>10, <2>2 DEF FontReplied, Same
    <3> HIDE DEF P, Q, R, T
    <3>2. (Neither(P, Q) => Neither(R, T)) /\ (OneOf(P, Q) => OneOf(R, T))
      BY <3>1, OneOfSame
    <3> QED
      BY <1>1, <3>2 DEF NoFont, OneFont, P, Q, R, T, p
  <2> QED
    BY <2>1, <2>2
<1>13. ASSUME NEW k \in Places, Up(s, k) PROVE Up(t, k)
  <2>1. /\ \A n \in At(q, FontAsks(k)) : \A m \in At(q, OldFaces(f)) : m < n
        /\ At(s.inbox, {FontReply(k, TRUE)}) # {} => Has(s)
    BY <1>1, <1>13 DEF Up, f
  <2>2. ASSUME NEW n \in At(p, FontAsks(k)), NEW m \in At(p, OldFaces(f)) PROVE m < n
    <3>1. m + 1 < n + 1 /\ m \in Nat /\ n \in Nat
      BY <1>9, <2>1
    <3> QED
      BY <3>1
  <2>3. ASSUME At(t.inbox, {FontReply(k, TRUE)}) # {} PROVE Has(t)
    <3>1. CASE k = j /\ ok
      <4>1. 1 \in At(q, FontAsks(k))
        BY <1>8, <1>9, <3>1
      <4>2. \A m \in At(q, OldFaces(f)) : m < 1
        BY <2>1, <4>1
      <4>3. h.face = f
        BY <1>8, <1>9, <4>2
      <4>4. At(p, OldFaces(f)) = {}
        <5>1. SUFFICES ASSUME NEW n \in At(p, OldFaces(f)) PROVE FALSE
          OBVIOUS
        <5>2. n \in Nat /\ n + 1 < 1
          BY <1>9, <4>2
        <5> QED
          BY <5>2
      <4> QED
        BY <1>4, <1>6, <3>1, <4>3, <4>4 DEF Has, p
    <3>2. CASE ~(k = j /\ ok)
      <4>1. At(t.inbox, {FontReply(k, TRUE)}) = At(s.inbox, {FontReply(k, TRUE)})
        BY <1>7, <3>2 DEF FontReplied
      <4> QED
        BY <1>11, <2>1, <2>3, <4>1
    <3> QED
      BY <3>1, <3>2
  <2> QED
    BY <1>4, <2>2, <2>3 DEF Up, p
<1> QED
  BY <1>4, <1>7, <1>11, <1>12, <1>13 DEF Carries, FontReplied, f

\* A load is called: it is refused, or stands behind those that are under way.
LEMMA HandleLoadCarries ==
  ASSUME NEW s, Wired(s), NEW w \in WorkerType, Equal(w, s.worker), w.woken = << >>,
         NEW i \in Preps, NEW b \in Books, NoLoad(s, i),
         NEW t, Handled(t, s, HandleLoad(w, i, b))
  PROVE  Carries(t, s, {i}, {}) /\ OneLoad(t, i)
<1> DEFINE l == [prep |-> i, book |-> b]
           h == [cmd |-> "load"]
           loads == Append(w.loads, l)
           q == [w EXCEPT !.loads = loads]
           v == BeginLoad(q)
           x == Wait(q, h)
           m == LoadReply(i, FALSE)
<1>1. l \in LoadType /\ h \in HandlerType /\ h.cmd # "loadFont" /\ w.loads \in Seq(LoadType)
  BY DEF LoadType, HandlerType, WorkerType
<1>2. /\ m \in MessageType /\ (\A j : m \notin FontSays(j) /\ m \notin {FontReply(j, TRUE)})
      /\ \A k : m \in LoadSays(k) <=> k = i
  BY LoadSaid
<1>3. HandleLoad(w, i, b) = IF w.job.on THEN Says(w, m)
                            ELSE Quietly(IF Replacing(w) THEN q ELSE IF q.warm.on THEN x ELSE v)
  BY DEF HandleLoad, StartLoad
<1>4. \A k : l \in LoadAsks(k) <=> k = i
  BY <1>1 DEF LoadAsks
<1>5. loads \in Seq(LoadType)
  BY <1>1
<1> HIDE DEF l, h, m, loads
<1>6. q \in WorkerType /\ q.loads = loads /\ q.custom = w.custom /\ q.waiting = w.waiting /\ q.woken = << >>
  BY <1>5 DEF WorkerType
<1> HIDE DEF q
<1>7. /\ v.loads = loads /\ v.custom = w.custom /\ v.waiting = w.waiting /\ v.woken = << >>
      /\ x.loads = loads /\ x.custom = w.custom /\ x.waiting = Append(w.waiting, h) /\ x.woken = << >>
  BY <1>6 DEF WorkerType, BeginLoad, Wait
<1> HIDE DEF v, x
<1>8. CASE w.job.on
  <2>1. /\ t.page.face = s.page.face /\ t.worker = w /\ t.inbox = s.inbox \o <<m>> /\ Pending(w) = Pending(s.worker)
        /\ s.inbox \in Seq(MessageType)
    BY <1>3, <1>8 DEF Handled, Says, Equal, Pending, Wired
  <2>2. \A A : /\ m \notin A => At(t.inbox, A) = At(s.inbox, A)
               /\ m \in A /\ At(s.inbox, A) = {} => Once(At(t.inbox, A))
    BY <1>2, <2>1, SaidAt
  <2>3. /\ Has(s) => Has(t)
        /\ \A j \in Places : /\ NoFont(s, j) => NoFont(t, j)
                             /\ OneFont(s, j) => OneFont(t, j)
                             /\ Up(s, j) => Up(t, j)
    <3>1. \A j : At(t.inbox, FontSays(j)) = At(s.inbox, FontSays(j))
      BY <1>2, <2>2
    <3>2. \A j : At(t.inbox, {FontReply(j, TRUE)}) = At(s.inbox, {FontReply(j, TRUE)})
      BY <1>2, <2>2
    <3>3. t.worker.custom = s.worker.custom /\ Pending(t.worker) = Pending(s.worker)
      BY <2>1 DEF Equal
    <3> QED
      BY <2>1, <3>1, <3>2, <3>3, FontsCarried
  <2>4. ASSUME NEW k \in Preps \ {i} PROVE (NoLoad(s, k) => NoLoad(t, k)) /\ (OneLoad(s, k) => OneLoad(t, k))
    <3>1. At(t.inbox, LoadSays(k)) = At(s.inbox, LoadSays(k))
      BY <1>2, <2>2
    <3> QED
      BY <2>1, <3>1, LoadsCarried DEF Equal
  <2>5. OneLoad(t, i)
    <3>1. t.worker.loads = s.worker.loads
      BY <2>1 DEF Equal
    <3>2. At(s.worker.loads, LoadAsks(i)) = {} /\ At(s.inbox, LoadSays(i)) = {}
      BY DEF NoLoad, Neither
    <3>3. Once(At(t.inbox, LoadSays(i)))
      BY <1>2, <2>2, <3>2
    <3> QED
      BY <3>1, <3>2, <3>3 DEF OneLoad, OneOf
  <2> QED
    BY <2>1, <2>3, <2>4, <2>5 DEF Carries
<1>9. CASE ~w.job.on
  <2> DEFINE y == [custom |-> s.worker.custom, loads |-> s.worker.loads, waiting |-> t.worker.waiting, woken |-> << >>]
             u == [page |-> s.page, worker |-> y, inbox |-> s.inbox]
  <2>1. /\ t.page.face = s.page.face /\ t.worker \in {q, x, v} /\ t.inbox = s.inbox \o << >>
        /\ s.inbox \in Seq(MessageType)
    BY <1>3, <1>9 DEF Handled, Quietly, Wired
  <2>2. /\ t.worker.loads = loads /\ t.worker.custom = s.worker.custom /\ t.worker.woken = << >>
        /\ t.worker.waiting = w.waiting \/ t.worker.waiting = Append(w.waiting, h)
    BY <1>6, <1>7, <2>1 DEF Equal
  <2>3. t.inbox = s.inbox
    BY <2>1
  <2>4. /\ u.page.face = s.page.face /\ u.worker.custom = s.worker.custom /\ u.worker.loads = s.worker.loads
        /\ u.inbox = s.inbox \o << >> /\ Pending(u.worker) = t.worker.waiting /\ Pending(t.worker) = t.worker.waiting
    BY <2>1, <2>2 DEF Pending
  <2> HIDE DEF u, y
  <2>5. Pending(s.worker) = w.waiting
    BY DEF Equal, Pending
  <2>6. Quiet(Pending(u.worker), Pending(s.worker))
    BY <1>1, <2>2, <2>4, <2>5 DEF Quiet
  <2>7. Mute(<< >>)
    BY DEF Mute
  <2>8. Carries(u, s, {}, {})
    BY <2>4, <2>6, <2>7, QuietCarries
  <2>9. t.page.face = u.page.face /\ t.worker.custom = u.worker.custom /\ Pending(t.worker) = Pending(u.worker)
        /\ t.inbox = u.inbox
    BY <2>1, <2>2, <2>3, <2>4
  <2>10. /\ Has(u) => Has(t)
         /\ \A j \in Places : /\ NoFont(u, j) => NoFont(t, j)
                              /\ OneFont(u, j) => OneFont(t, j)
                              /\ Up(u, j) => Up(t, j)
    BY <2>9, FontsCarried
  <2>11. \A k : /\ l \notin LoadAsks(k) => At(loads, LoadAsks(k)) = At(w.loads, LoadAsks(k))
                /\ l \in LoadAsks(k) /\ At(w.loads, LoadAsks(k)) = {} => Once(At(loads, LoadAsks(k)))
    <3>1. l \in LoadType /\ w.loads \in Seq(LoadType)
      BY <1>1
    <3>2. loads = Append(w.loads, l)
      BY DEF loads
    <3>3. TAKE k
    <3>4. /\ l \notin LoadAsks(k) => At(Append(w.loads, l), LoadAsks(k)) = At(w.loads, LoadAsks(k))
          /\ l \in LoadAsks(k) /\ At(w.loads, LoadAsks(k)) = {} =>
               At(Append(w.loads, l), LoadAsks(k)) = {Len(w.loads) + 1}
      BY <3>1, SingleAppend
    <3>5. Once({Len(w.loads) + 1})
      BY OnceOne
    <3> QED
      BY <3>2, <3>4, <3>5
  <2>12. \A k \in Preps \ {i} : (NoLoad(s, k) => NoLoad(t, k)) /\ (OneLoad(s, k) => OneLoad(t, k))
    <3>1. \A k \in Preps \ {i} : At(t.worker.loads, LoadAsks(k)) = At(s.worker.loads, LoadAsks(k))
      BY <1>4, <2>2, <2>11 DEF Equal
    <3> QED
      BY <2>3, <3>1 DEF NoLoad, OneLoad
  <2>13. OneLoad(t, i)
    <3>1. At(w.loads, LoadAsks(i)) = {} /\ At(t.inbox, LoadSays(i)) = {}
      BY <2>3 DEF NoLoad, Neither, Equal
    <3>2. Once(At(t.worker.loads, LoadAsks(i)))
      BY <1>4, <2>2, <2>11, <3>1
    <3> QED
      BY <3>1, <3>2 DEF OneLoad, OneOf
  <2> QED
    BY <2>1, <2>8, <2>10, <2>12, <2>13 DEF Carries
<1> QED
  BY <1>8, <1>9

\* A font is called: it is refused, or waits for the warm, or is taken.
LEMMA HandleFontCarries ==
  ASSUME NEW s, Wired(s), NEW w, Calm(w), Equal(w, s.worker), NEW j \in Places, NoFont(s, j),
         s.page.face \in Faces, NEW ok \in BOOLEAN,
         NEW t, Handled(t, s, HandleFont(w, j, s.page.face, ok))
  PROVE  Carries(t, s, {}, {j}) /\ OneFont(t, j) /\ Up(t, j)
<1> DEFINE f == s.page.face
           h == [cmd |-> "loadFont", id |-> j, face |-> f]
           e == [w EXCEPT !.custom = f, !.font = "custom"]
           x == Wait(w, h)
           r == HandleFont(w, j, f, ok)
<1>1. /\ w \in WorkerType /\ w.waiting \in Seq(HandlerType) /\ w.woken = << >> /\ (~w.warm.on => w.waiting = << >>)
      /\ Pending(s.worker) = w.waiting
  BY DEF Calm, Sound, WorkerType, Stops, Equal, Pending
<1>2. /\ h \in HandlerType /\ h \notin OldFaces(f)
      /\ \A k : h \in FontAsks(k) <=> k = j
  BY DEF HandlerType, OldFaces, FontAsks, Places
<1>3. \/ r = Says(w, FontReply(j, FALSE))
      \/ w.warm.on /\ r = Quietly(x)
      \/ ~w.warm.on /\ r = Says(e, FontReply(j, ok))
  BY DEF HandleFont, TakeFont
<1> HIDE DEF h
<1>4. /\ e.custom = f /\ e.loads = w.loads /\ e.waiting = w.waiting /\ e.woken = << >>
      /\ x.custom = w.custom /\ x.loads = w.loads /\ x.waiting = Append(w.waiting, h) /\ x.woken = << >>
  BY <1>1 DEF WorkerType, Wait
<1>5. At(w.waiting, FontAsks(j)) = {} /\ At(s.inbox, FontSays(j)) = {}
  BY <1>1 DEF NoFont, Neither
<1>6. t.page.face = f /\ t.worker = r.w /\ t.inbox = s.inbox \o r.out /\ s.inbox \in Seq(MessageType)
  BY DEF Handled, Wired
<1> HIDE DEF e, x, r, f
<1>7. ASSUME NEW k \in BOOLEAN, t.worker.loads = s.worker.loads, t.inbox = s.inbox \o <<FontReply(j, k)>>,
             Pending(t.worker) = w.waiting,
             \/ ~k /\ t.worker.custom = s.worker.custom
             \/ w.waiting = << >> /\ t.worker.custom = f
      PROVE  Carries(t, s, {}, {j}) /\ OneFont(t, j) /\ Up(t, j)
  <2>1. FontReplied(t, s, j, k)
    BY <1>7, FontRepliedAt
  <2>2. Has(s) => Has(t)
    BY <1>1, <1>6, <1>7, AtEmpty DEF Has, f
  <2>3. ASSUME NEW n \in Places, n # j
        PROVE  (NoFont(s, n) => NoFont(t, n)) /\ (OneFont(s, n) => OneFont(t, n)) /\ (Up(s, n) => Up(t, n))
    <3>1. At(t.inbox, FontSays(n)) = At(s.inbox, FontSays(n))
          /\ At(t.inbox, {FontReply(n, TRUE)}) = At(s.inbox, {FontReply(n, TRUE)})
      BY <2>1, <2>3 DEF FontReplied
    <3> QED
      BY <1>1, <1>6, <1>7, <2>2, <3>1 DEF NoFont, OneFont, Up, f
  <2>4. OneFont(t, j)
    BY <1>5, <1>7, <2>1 DEF FontReplied, OneFont, OneOf
  <2>5. Up(t, j)
    <3>1. \A n \in At(Pending(t.worker), FontAsks(j)) : \A m \in At(Pending(t.worker), OldFaces(t.page.face)) : m < n
      BY <1>5, <1>7
    <3>2. CASE ~k
      <4>1. At(t.inbox, {FontReply(j, TRUE)}) = {}
        BY <1>5, <1>6, <2>1, <3>2, TakenIsSaid DEF FontReplied
      <4> QED
        BY <3>1, <4>1 DEF Up
    <3>3. CASE k
      <4>1. Has(t)
        BY <1>6, <1>7, <3>3, AtEmpty DEF Has
      <4> QED
        BY <3>1, <4>1 DEF Up
    <3> QED
      BY <3>2, <3>3
  <2> QED
    BY <1>6, <2>1, <2>2, <2>3, <2>4, <2>5 DEF Carries, FontReplied, f
<1>8. CASE r = Says(w, FontReply(j, FALSE))
  <2>1. t.worker = w /\ t.inbox = s.inbox \o <<FontReply(j, FALSE)>>
    BY <1>6, <1>8 DEF Says
  <2>2. Pending(t.worker) = w.waiting /\ t.worker.loads = s.worker.loads /\ t.worker.custom = s.worker.custom
    BY <1>1, <2>1 DEF Pending, Equal
  <2> QED
    BY <1>7, <2>1, <2>2
<1>9. CASE ~w.warm.on /\ r = Says(e, FontReply(j, ok))
  <2>1. t.worker = e /\ t.inbox = s.inbox \o <<FontReply(j, ok)>> /\ w.waiting = << >>
    BY <1>1, <1>6, <1>9 DEF Says
  <2>2. Pending(t.worker) = w.waiting /\ t.worker.loads = s.worker.loads /\ t.worker.custom = f
    BY <1>4, <2>1 DEF Pending, Equal
  <2> QED
    BY <1>7, <2>1, <2>2
<1>10. CASE r = Quietly(x)
  <2> DEFINE p == Pending(t.worker)
  <2>1. t.worker = x /\ t.inbox = s.inbox
    BY <1>6, <1>10 DEF Quietly
  <2>2. p = Append(w.waiting, h) /\ t.worker.loads = s.worker.loads /\ t.worker.custom = s.worker.custom
    BY <1>1, <1>4, <2>1, AppendAt DEF Pending, Equal
  <2> HIDE DEF p
  <2>3. \A A : /\ h \notin A => At(p, A) = At(w.waiting, A)
               /\ h \in A => At(p, A) = At(w.waiting, A) \cup {Len(w.waiting) + 1}
    BY <1>1, <1>2, <2>2, AtAppend
  <2>4. At(p, OldFaces(f)) = At(w.waiting, OldFaces(f))
    BY <1>2, <2>3
  <2>5. Has(s) => Has(t)
    BY <1>1, <1>6, <2>2, <2>4 DEF Has, f, p
  <2>6. ASSUME NEW n \in Places, n # j
        PROVE  (NoFont(s, n) => NoFont(t, n)) /\ (OneFont(s, n) => OneFont(t, n)) /\ (Up(s, n) => Up(t, n))
    <3>1. At(p, FontAsks(n)) = At(w.waiting, FontAsks(n))
      BY <1>2, <2>3, <2>6
    <3> QED
      BY <1>1, <1>6, <2>1, <2>4, <2>5, <3>1 DEF NoFont, OneFont, Up, f, p
  <2>7. At(p, FontAsks(j)) = {Len(w.waiting) + 1}
    BY <1>2, <1>5, <2>3
  <2>8. OneFont(t, j)
    BY <1>5, <2>1, <2>7, OnceOne DEF OneFont, OneOf, p
  <2>9. Up(t, j)
    <3>1. \A m \in At(p, OldFaces(f)) : m < Len(w.waiting) + 1
      <4>1. Len(w.waiting) \in Nat /\ \A m \in At(w.waiting, OldFaces(f)) : m \in 1 .. Len(w.waiting)
        BY <1>1 DEF At
      <4> QED
        BY <2>4, <4>1
    <3>2. At(t.inbox, {FontReply(j, TRUE)}) = {}
      BY <1>5, <1>6, <2>1, TakenIsSaid
    <3> QED
      BY <1>6, <2>7, <3>1, <3>2 DEF Up, p
  <2>10. \A i \in Preps : (NoLoad(s, i) => NoLoad(t, i)) /\ (OneLoad(s, i) => OneLoad(t, i))
    BY <2>1, <2>2 DEF NoLoad, OneLoad
  <2> QED
    BY <1>6, <2>5, <2>6, <2>8, <2>9, <2>10 DEF Carries, f
<1> QED
  BY <1>3, <1>8, <1>9, <1>10

\* The page reads an answer.
ReadsOne(t, s) ==
  /\ Carries(t, s, {}, {})
  /\ \A i \in Preps : Head(s.inbox) \in LoadSays(i) /\ OneLoad(s, i) => NoLoad(t, i)
  /\ \A j \in Places : /\ Head(s.inbox) \in FontSays(j) /\ OneFont(s, j) => NoFont(t, j)
                       /\ Head(s.inbox) = FontReply(j, TRUE) /\ Up(s, j) => Has(t)

LEMMA TakenCarries ==
  ASSUME NEW s, Wired(s), s.inbox # << >>, NEW t, t.page.face = s.page.face, t.worker = s.worker,
         t.inbox = Tail(s.inbox)
  PROVE  ReadsOne(t, s)
<1> DEFINE m == Head(s.inbox)
<1>1. s.inbox \in Seq(MessageType)
  BY DEF Wired
<1>2. \A A : /\ m \notin A => Same(At(s.inbox, A), At(t.inbox, A))
             /\ m \in A => At(s.inbox, A) # {} /\ (Once(At(s.inbox, A)) => At(t.inbox, A) = {})
             /\ At(s.inbox, A) = {} => At(t.inbox, A) = {}
  BY <1>1, AtHead, SingleTail
<1> HIDE DEF m
<1>3. Has(s) <=> Has(t)
  BY DEF Has
<1>4. ASSUME NEW i \in Preps
      PROVE  /\ (NoLoad(s, i) => NoLoad(t, i)) /\ (OneLoad(s, i) => OneLoad(t, i))
             /\ m \in LoadSays(i) /\ OneLoad(s, i) => NoLoad(t, i)
  BY <1>2 DEF NoLoad, OneLoad, Neither, OneOf, Same
<1>5. ASSUME NEW j \in Places
      PROVE  /\ (NoFont(s, j) => NoFont(t, j)) /\ (OneFont(s, j) => OneFont(t, j))
             /\ m \in FontSays(j) /\ OneFont(s, j) => NoFont(t, j)
  BY <1>2 DEF NoFont, OneFont, Neither, OneOf, Same
<1>6. ASSUME NEW j \in Places
      PROVE  /\ Up(s, j) => Up(t, j)
             /\ m = FontReply(j, TRUE) /\ Up(s, j) => Has(t)
  <2>1. At(s.inbox, {FontReply(j, TRUE)}) = {} => At(t.inbox, {FontReply(j, TRUE)}) = {}
    BY <1>2
  <2>2. m \in {FontReply(j, TRUE)} => At(s.inbox, {FontReply(j, TRUE)}) # {}
    BY <1>2
  <2> QED
    BY <1>3, <2>1, <2>2 DEF Up
<1>7. Carries(t, s, {}, {})
  BY <1>3, <1>4, <1>5, <1>6 DEF Carries
<1> QED
  BY <1>4, <1>5, <1>6, <1>7 DEF ReadsOne, m

-----------------------------------------------------------------------------
(***************************************************************************)
(* What the page knows of the face of its engine.                          *)
(***************************************************************************)
\* A call of a load or of a font is under way only in the step that made it.
Asked(s, j) == IF j = 0 THEN s.page.fontRun = "sync" ELSE s.prep[j].step = "font"
Calls(s) ==
  /\ \A i \in Preps : OneLoad(s, i) /\ (s.prep[i].step # "load" => NoLoad(s, i))
  /\ \A j \in Places : OneFont(s, j) /\ (~Asked(s, j) => NoFont(s, j))

\* Only an engine that is alive answers or is ready.
Live(s) ==
  /\ s.worker.alive \/ s.worker = NoWorker
  /\ s.inbox # << >> => s.worker.alive
  /\ s.page.loaded = Ready => s.worker.alive

\* A conversion of a face that waits for the engine waits once.
Asker(s) == IF s.page.fontRun = "waiting" THEN Once(Going(s, "font")) ELSE Going(s, "font") = {}

\* The conversion of a face waits for the preparation: the hot sync is still to come.
Due(s) == s.page.fontRun = "waiting" /\ Part(s, "font", s.page.loaded) # {}

\* The engine has the face of the page or is about to, unless a hot sync is to come.
Owns(s) ==
  /\ s.page.fontRun = "sync" => Up(s, 0)
  /\ s.page.loaded \in Preps /\ ~Due(s) => Up(s, s.page.loaded)
  /\ s.page.loaded = Ready /\ s.page.fontRun \notin {"waiting", "sync"} => Has(s)
  /\ s.page.face = 0 => Has(s)

Face(s) == Calls(s) /\ Live(s) /\ Numbered(s.page) /\ Asker(s) /\ Owns(s)

\* From s to t nothing changes of what Face speaks of.
Minds(t, s) ==
  /\ Carries(t, s, {}, {}) /\ t.page.loaded = s.page.loaded
  /\ t.page.fontRun # s.page.fontRun => {t.page.fontRun, s.page.fontRun} \cap {"waiting", "sync"} = {}
  /\ \A i \in Preps : t.prep[i].step = s.prep[i].step
  /\ s.page.loaded \in Preps /\ Part(s, "font", s.page.loaded) # {} => Part(t, "font", s.page.loaded) # {}
  /\ Same(Going(s, "font"), Going(t, "font"))
  /\ (Live(s) => Live(t)) /\ (Numbered(s.page) => Numbered(t.page))

LEMMA MindsFace ==
  ASSUME NEW s, NEW t, Face(s), Minds(t, s)
  PROVE  Face(t)
<1>1. /\ Carries(t, s, {}, {}) /\ t.page.loaded = s.page.loaded /\ t.page.face = s.page.face
      /\ t.page.fontRun # s.page.fontRun => {t.page.fontRun, s.page.fontRun} \cap {"waiting", "sync"} = {}
      /\ \A i \in Preps : t.prep[i].step = s.prep[i].step
      /\ s.page.loaded \in Preps /\ Part(s, "font", s.page.loaded) # {} => Part(t, "font", s.page.loaded) # {}
      /\ Same(Going(s, "font"), Going(t, "font"))
      /\ Live(t) /\ Numbered(t.page) /\ Calls(s) /\ Asker(s) /\ Owns(s)
  BY DEF Minds, Carries, Face
<1>2. /\ Has(s) => Has(t)
      /\ \A i \in Preps : (NoLoad(s, i) => NoLoad(t, i)) /\ (OneLoad(s, i) => OneLoad(t, i))
      /\ \A j \in Places : /\ NoFont(s, j) => NoFont(t, j)
                           /\ OneFont(s, j) => OneFont(t, j)
                           /\ Up(s, j) => Up(t, j)
  BY <1>1 DEF Carries
<1>3. 0 \in Places /\ \A i \in Preps : i \in Places /\ i # 0
  BY PlacesFacts DEF Places
<1>4. \A j \in Places : Asked(t, j) => Asked(s, j)
  BY <1>1 DEF Asked, Places
<1>5. \A j \in Places : Asked(s, j) => Asked(t, j)
  BY <1>1 DEF Asked, Places
<1>6. Calls(t)
  BY <1>1, <1>2, <1>5 DEF Calls
<1>7. Asker(t)
  BY <1>1 DEF Asker, Same
<1>8. s.page.loaded \in Preps /\ Due(s) => Due(t)
  BY <1>1 DEF Due
<1>9. Owns(t)
  BY <1>1, <1>2, <1>3, <1>8 DEF Owns
<1> QED
  BY <1>1, <1>6, <1>7, <1>9 DEF Face

\* The page's variables that Face speaks of.
SameFace(p, q) ==
  p.loaded = q.loaded /\ p.fontRun = q.fontRun /\ p.face = q.face /\ p.faceFor = q.faceFor /\ p.sig = q.sig

LEMMA CarriesMinds ==
  ASSUME NEW s, NEW t, Carries(t, s, {}, {}), t.page.loaded = s.page.loaded, SameQueues(t, s),
         t.page.fontRun # s.page.fontRun => {t.page.fontRun, s.page.fontRun} \cap {"waiting", "sync"} = {},
         Numbered(s.page) => Numbered(t.page),
         t.worker.alive \/ (t.worker = s.worker /\ (s.inbox = << >> => t.inbox = << >>))
  PROVE  Minds(t, s)
<1>1. Going(t, "font") = Going(s, "font")
  BY GoingUnchanged
<1>2. Part(t, "font", s.page.loaded) = Part(s, "font", s.page.loaded)
  BY DEF Part, SameQueues
<1>3. Live(s) => Live(t)
  BY DEF Live
<1> QED
  BY <1>1, <1>2, <1>3 DEF Minds, SameQueues, Same

LEMMA PageMinds ==
  ASSUME NEW s, NEW t, SameQueues(t, s), t.worker = s.worker, t.inbox = s.inbox, t.page.loaded = s.page.loaded,
         t.page.face = s.page.face,
         t.page.fontRun # s.page.fontRun => {t.page.fontRun, s.page.fontRun} \cap {"waiting", "sync"} = {},
         Numbered(s.page) => Numbered(t.page)
  PROVE  Minds(t, s)
<1>1. Carries(t, s, {}, {})
  BY DEF Carries, Has, NoLoad, OneLoad, NoFont, OneFont, Up
<1> QED
  BY <1>1, CarriesMinds

LEMMA SameFaceMinds ==
  ASSUME NEW s, NEW t, SameQueues(t, s), t.worker = s.worker, t.inbox = s.inbox, SameFace(t.page, s.page)
  PROVE  Minds(t, s)
BY PageMinds DEF SameFace, Numbered

-----------------------------------------------------------------------------
(* Stretches of the page's code that leave the face alone. *)

LEMMA ScheduleMinds ==
  ASSUME NEW s, Good(s)
  PROVE  Minds(ScheduleWarm(s), s)
BY ScheduleFields, SameFaceMinds DEF SameRun, SameFace

LEMMA WarmEndsMinds ==
  ASSUME NEW s, Good(s)
  PROVE  Minds(WarmEnds(s), s)
BY WarmEndsFields, SameFaceMinds DEF SameRun, SameFace

LEMMA UnlockMinds ==
  ASSUME NEW s, Good(s)
  PROVE  Minds(Unlock(s), s)
BY UnlockFields, SameFaceMinds DEF SameFace

LEMMA PressMinds ==
  ASSUME NEW s, Good(s), NEW press
  PROVE  LET t == [s EXCEPT !.page.press = press]
         IN  Minds(t, s) /\ t.worker = s.worker /\ t.page.loaded = s.page.loaded /\ t.prep = s.prep
<1> DEFINE p == [s.page EXCEPT !.press = press]
           t == [s EXCEPT !.page = p]
<1>1. SameFace(p, s.page)
  BY DEF Good, States, PageType, SameFace
<1> HIDE DEF p
<1>2. t.page = p /\ t.worker = s.worker /\ t.inbox = s.inbox /\ SameQueues(t, s)
  BY DEF Good, States, SameQueues
<1> HIDE DEF t
<1>3. Minds(t, s) /\ t.page.loaded = s.page.loaded /\ t.prep = s.prep /\ t.worker = s.worker
  BY <1>1, <1>2, SameFaceMinds DEF SameFace, SameQueues
<1> QED
  BY <1>3 DEF t, p

LEMMA GoodWired ==
  ASSUME NEW s, Good(s)
  PROVE  Wired(s)
BY DEF Good, States, Wired

LEMMA InvalidateMinds ==
  ASSUME NEW s, Good(s)
  PROVE  Minds(InvalidateWarm(s), s)
<1> DEFINE t == InvalidateWarm(s)
<1>1. /\ SameRun(t.page, s.page) /\ SameQueues(t, s) /\ t.inbox = s.inbox
      /\ t.worker = IF s.worker.alive THEN HandleWarmCancel(s.worker) ELSE s.worker
  BY InvalidateFields
<1> HIDE DEF t
<1>2. ASSUME ~s.worker.alive PROVE Minds(t, s)
  <2>1. t.worker = s.worker /\ SameFace(t.page, s.page)
    BY <1>1, <1>2 DEF SameRun, SameFace
  <2> QED
    BY <1>1, <2>1, SameFaceMinds
<1>3. ASSUME s.worker.alive PROVE Minds(t, s)
  <2>1. Equal(t.worker, s.worker) /\ t.worker.alive
    BY <1>1, <1>3, CancelSame DEF Equal, Good, States
  <2>2. Pending(t.worker) = Pending(s.worker)
    BY <2>1 DEF Equal, Pending
  <2>3. s.inbox = s.inbox \o << >>
    BY DEF Good, States
  <2>4. Mute(<< >>) /\ Quiet(Pending(t.worker), Pending(s.worker))
    BY <2>2 DEF Mute, Quiet
  <2>5. Carries(t, s, {}, {})
    BY <1>1, <2>1, <2>3, <2>4, GoodWired, QuietCarries DEF Equal, SameRun
  <2>6. t.page.loaded = s.page.loaded /\ t.page.fontRun = s.page.fontRun /\ (Numbered(s.page) => Numbered(t.page))
    BY <1>1 DEF SameRun, Numbered
  <2> QED
    BY <1>1, <2>1, <2>5, <2>6, CarriesMinds
<1>4. Minds(t, s)
  BY <1>2, <1>3
<1> QED
  BY <1>4 DEF t

\* An engine that is spawned is as if it had been there with nothing to do.
LEMMA EngineEqual ==
  ASSUME NEW s, Live(s)
  PROVE  Equal(Engine(s), s.worker) /\ (Engine(s).alive \/ s.worker.alive)
<1>1. CASE s.worker.alive
  BY <1>1 DEF Engine, Equal
<1>2. CASE ~s.worker.alive
  <2>1. s.worker = NoWorker /\ Engine(s) = [NoWorker EXCEPT !.alive = TRUE]
    BY <1>2 DEF Live, Engine
  <2> QED
    BY <2>1 DEF Equal, NoWorker
<1> QED
  BY <1>1, <1>2

LEMMA CallMinds ==
  ASSUME NEW s, Good(s), Live(s), NEW r, Fine(r), Hush(r, Engine(s)), r.w.alive
  PROVE  Minds(Call(s, r), s)
<1> DEFINE t == Call(s, r)
<1>1. t.page = s.page /\ SameQueues(t, s) /\ t.worker = r.w /\ t.inbox = s.inbox \o r.out
  BY CallFields
<1> HIDE DEF t
<1>2. Carries(t, s, {}, {})
  BY <1>1, GoodWired, EngineEqual, HushCarries DEF Handled
<1>3. Minds(t, s)
  BY <1>1, <1>2, CarriesMinds
<1> QED
  BY <1>3 DEF t

LEMMA SendWarmMinds ==
  ASSUME NEW s, Sane(s), Live(s), NEW k, IsWarm(k), NEW ok \in BOOLEAN
  PROVE  Minds(SendWarm(s, k, ok), s)
<1> DEFINE m == [tok |-> k.tok, key |-> k.key, spec |-> Chosen(s.page)]
           r == HandleWarm(Engine(s), m, ok)
<1>1. m \in [tok : Nat, key : Keys, spec : Settings]
  BY ChosenOK DEF Sane, Good, States, IsWarm
<1>2. SendWarm(s, k, ok) = Call(s, r)
  BY DEF SendWarm
<1> HIDE DEF m
<1>3. Fine(r)
  BY <1>1, EngineOK, HandleWarmOK DEF Sane
<1>4. Hush(r, Engine(s)) /\ Silent(r, Engine(s))
  BY <1>1, EngineFacts, HandleWarmHush, HandleWarmSilent
<1> HIDE DEF r
<1>5. r.w.alive
  BY <1>4, EngineFacts DEF Silent
<1> QED
  BY <1>2, <1>3, <1>4, <1>5, CallMinds DEF Sane

\* What waits is as it was, or is not a font.
LEMMA AwaitMinds ==
  ASSUME NEW s, Good(s), s.page.loaded \in Preps, NEW k \in GoType, k.who # "font"
  PROVE  Minds(AwaitEngine(s, k), s)
<1> DEFINE t == AwaitEngine(s, k)
           i == s.page.loaded
<1>1. /\ t.page = s.page /\ t.worker = s.worker /\ t.inbox = s.inbox
      /\ \A j \in Preps : t.prep[j].step = s.prep[j].step
      /\ t.prep[i].waiters = Append(s.prep[i].waiters, k) /\ s.prep[i].waiters \in Seq(GoType)
  BY AwaitFields
<1>2. Going(t, "font") = Going(s, "font")
  BY AwaitAt
<1> HIDE DEF t
<1>3. Part(t, "font", i) = Part(s, "font", i)
  <2>1. k \notin Asks("font") /\ i # 0
    BY PlacesFacts DEF Asks
  <2> QED
    BY <1>1, <2>1, AtAppend DEF Part
<1>4. Carries(t, s, {}, {})
  BY <1>1 DEF Carries, Has, NoLoad, OneLoad, NoFont, OneFont, Up
<1>5. Live(s) => Live(t)
  BY <1>1 DEF Live
<1>6. Minds(t, s)
  BY <1>1, <1>2, <1>3, <1>4, <1>5 DEF Minds, Same
<1> QED
  BY <1>6 DEF t

\* A continuation leaves the queue.
LEMMA HeadMinds ==
  ASSUME NEW s, Good(s), s.micro # << >>
  PROVE  LET t == [s EXCEPT !.micro = Tail(s.micro)]
         IN  /\ Good(t) /\ t.page = s.page /\ t.prep = s.prep /\ t.worker = s.worker /\ t.inbox = s.inbox
             /\ Head(s.micro).go.who # "font" => Minds(t, s)
             /\ Head(s.micro).go.who = "font" /\ Asker(s) =>
                  s.page.fontRun = "waiting" /\ \A i \in Places : Part(t, "font", i) = {}
<1> DEFINE rest == Tail(s.micro)
           t == [s EXCEPT !.micro = rest]
           c == Head(s.micro)
<1>1. s \in States /\ s.micro \in Seq(MicroType)
  BY DEF Good, States
<1>2. c \in MicroType /\ rest \in Seq(MicroType)
  BY <1>1
<1>3. c \in Goers("font") <=> c.go.who = "font"
  BY <1>2 DEF Goers
<1>4. /\ c \notin Goers("font") => Same(At(s.micro, Goers("font")), At(rest, Goers("font")))
      /\ c \in Goers("font") => /\ At(s.micro, Goers("font")) # {}
                                /\ Once(At(s.micro, Goers("font"))) => At(rest, Goers("font")) = {}
  BY <1>1, AtHead
<1> HIDE DEF rest, c
<1>5. /\ t.page = s.page /\ t.prep = s.prep /\ t.micro = rest /\ t.worker = s.worker /\ t.inbox = s.inbox
      /\ Good(t)
  BY <1>1, <1>2 DEF Good, States
<1> HIDE DEF t
<1>6. t \in States
  BY <1>5 DEF Good
<1>7. /\ Part(s, "font", 0) = At(s.micro, Goers("font")) /\ Part(t, "font", 0) = At(rest, Goers("font"))
      /\ \A i \in Places \ {0} : Part(t, "font", i) = Part(s, "font", i)
      /\ 0 \in Places
  BY <1>5 DEF Part, Places
<1>8. ASSUME c.go.who # "font" PROVE Minds(t, s)
  <2>1. \A i \in Places : Same(Part(s, "font", i), Part(t, "font", i))
    BY <1>3, <1>4, <1>7, <1>8 DEF Same
  <2>2. Same(Going(s, "font"), Going(t, "font"))
    BY <1>1, <1>6, <2>1, GoingSame
  <2>3. Carries(t, s, {}, {})
    BY <1>5 DEF Carries, Has, NoLoad, OneLoad, NoFont, OneFont, Up
  <2>4. s.page.loaded \in Preps => Part(t, "font", s.page.loaded) = Part(s, "font", s.page.loaded)
    BY <1>7, PlacesFacts DEF Places
  <2>5. Live(s) => Live(t)
    BY <1>5 DEF Live
  <2> QED
    BY <1>5, <2>2, <2>3, <2>4, <2>5 DEF Minds
<1>9. ASSUME c.go.who = "font", Asker(s)
      PROVE  s.page.fontRun = "waiting" /\ \A i \in Places : Part(t, "font", i) = {}
  <2>1. Part(s, "font", 0) # {}
    BY <1>3, <1>4, <1>7, <1>9
  <2>2. Going(s, "font") # {}
    BY <1>1, <1>7, <2>1, GoingNone
  <2>3. s.page.fontRun = "waiting" /\ Once(Going(s, "font"))
    BY <1>9, <2>2 DEF Asker
  <2>4. PICK i \in Places : OneAt(s, "font", i)
    BY <1>1, <2>3, GoingOne
  <2>5. i = 0
    BY <1>7, <2>1, <2>4 DEF OneAt
  <2>6. \A j \in Places : Part(t, "font", j) = {}
    BY <1>3, <1>4, <1>7, <1>9, <2>4, <2>5 DEF OneAt
  <2> QED
    BY <2>3, <2>6
<1> QED
  BY <1>5, <1>8, <1>9 DEF t, c, rest

-----------------------------------------------------------------------------
(* What a call that is made, answered or rejected does to the face. *)

LEMMA NoFontUp ==
  ASSUME NEW s, Wired(s), NEW j \in Places, NoFont(s, j)
  PROVE  Up(s, j)
<1>1. FontReply(j, TRUE) \in FontSays(j)
  BY DEF FontReply, MessageType, FontSays, Places
<1>2. At(s.inbox, {FontReply(j, TRUE)}) \subseteq At(s.inbox, FontSays(j))
  BY <1>1 DEF At
<1> QED
  BY <1>2 DEF Up, NoFont, Neither

\* Somebody asks the engine to take the face of the page.
LEMMA FontCallFace ==
  ASSUME NEW s, Good(s), Face(s), NEW w, Calm(w), Equal(w, s.worker), w.alive, NEW j \in Places,
         NoFont(s, j), Asked(s, j), NEW ok \in BOOLEAN
  PROVE  Face(Call(s, HandleFont(w, j, s.page.face, ok)))
<1> DEFINE r == HandleFont(w, j, s.page.face, ok)
           t == Call(s, r)
<1>1. s.page.face \in Faces /\ w \in WorkerType /\ j \in {0} \cup Preps
  BY DEF Good, States, PageType, Calm, Sound, Places
<1>2. Fine(r) /\ r.w.alive
  BY <1>1, HandleFontOK, HandleFontSilent DEF Silent
<1>3. t.page = s.page /\ SameQueues(t, s) /\ t.worker = r.w /\ t.inbox = s.inbox \o r.out
  BY <1>2, CallFields
<1>4. Handled(t, s, r)
  BY <1>3 DEF Handled
<1> HIDE DEF t
<1>5. Carries(t, s, {}, {j}) /\ OneFont(t, j) /\ Up(t, j)
  BY <1>1, <1>4, GoodWired, HandleFontCarries
<1> HIDE DEF r
<1>6. /\ Has(s) => Has(t)
      /\ \A i \in Preps : (NoLoad(s, i) => NoLoad(t, i)) /\ (OneLoad(s, i) => OneLoad(t, i))
      /\ \A i \in Places \ {j} : /\ NoFont(s, i) => NoFont(t, i)
                                 /\ OneFont(s, i) => OneFont(t, i)
                                 /\ Up(s, i) => Up(t, i)
  BY <1>5 DEF Carries
<1>7. \A i : Asked(t, i) <=> Asked(s, i)
  BY <1>3 DEF Asked, SameQueues
<1>8. Calls(t)
  <2>1. \A i \in Preps : OneLoad(t, i) /\ (t.prep[i].step # "load" => NoLoad(t, i))
    BY <1>3, <1>6 DEF Face, Calls, SameQueues
  <2>2. ASSUME NEW i \in Places PROVE OneFont(t, i) /\ (~Asked(t, i) => NoFont(t, i))
    BY <1>5, <1>6, <1>7, <2>2 DEF Face, Calls
  <2> QED
    BY <2>1, <2>2 DEF Calls
<1>9. Live(t)
  BY <1>2, <1>3 DEF Live
<1>10. Asker(t)
  <2>1. Going(t, "font") = Going(s, "font")
    BY <1>3, GoingUnchanged
  <2> QED
    BY <1>3, <2>1 DEF Face, Asker
<1>11. Owns(t)
  <2>1. Due(t) <=> Due(s)
    BY <1>3 DEF Due, Part, SameQueues
  <2>2. \A i \in Places : Up(s, i) => Up(t, i)
    BY <1>5, <1>6
  <2>3. 0 \in Places /\ Preps \subseteq Places
    BY DEF Places
  <2> QED
    BY <1>3, <1>6, <2>1, <2>2, <2>3 DEF Face, Owns
<1> QED
  BY <1>3, <1>8, <1>9, <1>10, <1>11 DEF Face, t, r

\* The engine is gone, and with it whatever was asked of it.
LEMMA DeadFace ==
  ASSUME NEW s, s.worker = NoWorker, s.inbox = << >>, s.prep = [i \in Preps |-> NoPrep],
         s.page.loaded = None, s.page.fontRun # "sync", Numbered(s.page), Asker(s)
  PROVE  Face(s)
<1>1. /\ NoWorker.woken = << >> /\ NoWorker.waiting = << >> /\ NoWorker.loads = << >> /\ NoWorker.custom = 0
      /\ None # Ready /\ None \notin Preps
  BY PlacesFacts DEF NoWorker, None, Ready
<1>2. Pending(s.worker) = << >> /\ s.worker.loads = << >>
  BY <1>1 DEF Pending
<1>3. \A j : NoFont(s, j) /\ OneFont(s, j) /\ NoLoad(s, j) /\ OneLoad(s, j)
  BY <1>2, AtEmpty DEF NoFont, OneFont, NoLoad, OneLoad, Neither, OneOf
<1>4. Calls(s)
  BY <1>3 DEF Calls
<1>5. Live(s)
  BY <1>1 DEF Live
<1>6. Owns(s)
  BY <1>1, <1>2, AtEmpty DEF Owns, Has
<1> QED
  BY <1>4, <1>5, <1>6 DEF Face

LEMMA KillFace ==
  ASSUME NEW s, Good(s), Numbered(s.page), Asker(s)
  PROVE  Face(KillExportEngine(s))
<1> DEFINE t == KillExportEngine(s)
           more == Continued(Gone(s), FALSE)
<1>1. /\ t \in States /\ s \in States /\ Killed(t, s) /\ t.micro = s.micro \o more
  BY KillFields DEF Good, Killed
<1>2. s.page.fontRun # "sync" => Same(Going(s, "font"), Going(t, "font"))
  BY KillAt
<1> HIDE DEF t
<1>3. s.micro \in Seq(MicroType)
  BY <1>1 DEF States
<1>4. more \in Seq(MicroType) /\ At(more, Goers("font")) = At(Gone(s), Asks("font"))
  BY WaitsType, ContinuedOK, ContinuedAt
<1> HIDE DEF more
<1>5. ASSUME s.page.fontRun = "sync" PROVE Once(Going(t, "font"))
  <2>1. Going(s, "font") = {}
    BY <1>5 DEF Asker
  <2>2. \A i \in Places : Part(s, "font", i) = {}
    BY <1>1, <2>1, GoingNone
  <2>3. 0 \in Places /\ \A i \in Preps : i \in Places
    BY DEF Places
  <2>4. Once(At(Gone(s), Asks("font")))
    BY <1>5, <2>2, <2>3, GoneSync
  <2>5. Part(t, "font", 0) = At(s.micro \o more, Goers("font")) /\ At(s.micro, Goers("font")) = {}
    BY <1>1, <2>2, <2>3 DEF Part
  <2>6. Once(Part(t, "font", 0))
    BY <1>3, <1>4, <2>4, <2>5, AtConcat DEF Same
  <2>7. \A i \in Places \ {0} : Part(t, "font", i) = {}
    <3>1. NoPrep.waiters = << >>
      BY DEF NoPrep
    <3> QED
      BY <1>1, <3>1, AtEmpty DEF Part, Places, Killed
  <2>8. OneAt(t, "font", 0)
    BY <2>6, <2>7 DEF OneAt
  <2> QED
    BY <1>1, <2>3, <2>8, GoingOne
<1>6. Asker(t)
  BY <1>1, <1>2, <1>5 DEF Asker, Killed, Same
<1>7. t.page.fontRun # "sync" /\ Numbered(t.page)
  BY <1>1 DEF Killed, Numbered
<1>8. Face(t)
  BY <1>1, <1>6, <1>7, DeadFace DEF Killed
<1> QED
  BY <1>8 DEF t

\* A preparation is over.
LEMMA PrepEndsFace ==
  ASSUME NEW s, Good(s), Face(s), NEW i \in Preps, NoLoad(s, i), NoFont(s, i), NEW ok \in BOOLEAN,
         NEW loaded \in {None, Ready} \cup Preps,
         \/ loaded = None
         \/ loaded = s.page.loaded /\ loaded # i
         \/ loaded = Ready /\ s.worker.alive /\ (s.page.fontRun \in {"waiting", "sync"} \/ Has(s))
  PROVE  Face(PrepEnds(s, i, loaded, ok))
<1> DEFINE t == PrepEnds(s, i, loaded, ok)
<1>1. Ended(t, s, i, loaded, ok) /\ Same(Going(s, "font"), Going(t, "font"))
  BY PrepEndsFields, PrepEndsAt
<1> HIDE DEF t
<1>2. /\ t.worker = s.worker /\ t.inbox = s.inbox /\ t.page.face = s.page.face /\ t.page.fontRun = s.page.fontRun
      /\ t.page.loaded = loaded /\ \A j \in Preps : t.prep[j] = IF j = i THEN NoPrep ELSE s.prep[j]
      /\ t.page.faceFor = s.page.faceFor /\ t.page.sig = s.page.sig
  BY <1>1 DEF Ended
<1>3. /\ Has(s) <=> Has(t)
      /\ \A j : /\ NoLoad(s, j) <=> NoLoad(t, j)
                /\ OneLoad(s, j) <=> OneLoad(t, j)
                /\ NoFont(s, j) <=> NoFont(t, j)
                /\ OneFont(s, j) <=> OneFont(t, j)
  BY <1>2 DEF Has, NoLoad, OneLoad, NoFont, OneFont
<1>4. \A j : Up(s, j) <=> Up(t, j)
  BY <1>2, <1>3 DEF Up
<1>5. NoPrep.step = "off" /\ None # Ready /\ None \notin Preps /\ Ready \notin Preps /\ 0 \notin Preps
  BY PlacesFacts DEF NoPrep, None, Ready
<1>6. Calls(t)
  <2>1. ASSUME NEW j \in Preps PROVE OneLoad(t, j) /\ (t.prep[j].step # "load" => NoLoad(t, j))
    BY <1>2, <1>3 DEF Face, Calls
  <2>2. ASSUME NEW j \in Places PROVE OneFont(t, j) /\ (~Asked(t, j) => NoFont(t, j))
    <3>1. OneFont(t, j) /\ (~Asked(s, j) => NoFont(t, j))
      BY <1>3 DEF Face, Calls
    <3>2. CASE j = i
      BY <1>3, <3>1, <3>2
    <3>3. CASE j # i
      BY <1>2, <3>1, <3>3 DEF Asked, Places
    <3> QED
      BY <3>2, <3>3
  <2> QED
    BY <2>1, <2>2 DEF Calls
<1>7. Live(t)
  BY <1>2, <1>5 DEF Live, Face
<1>8. Asker(t) /\ Numbered(t.page)
  BY <1>1, <1>2 DEF Asker, Face, Same, Numbered
<1>9. Owns(t)
  <2>1. t.page.fontRun = "sync" => Up(t, 0)
    BY <1>2, <1>4 DEF Face, Owns
  <2>2. ASSUME t.page.loaded \in Preps, ~Due(t) PROVE Up(t, t.page.loaded)
    <3>1. loaded = s.page.loaded /\ loaded # i /\ loaded \in Preps
      BY <1>2, <1>5, <2>2
    <3>2. t.prep[loaded] = s.prep[loaded]
      BY <1>2, <3>1
    <3>3. Part(t, "font", loaded) = Part(s, "font", loaded)
      BY <1>5, <3>1, <3>2 DEF Part
    <3>4. ~Due(s)
      BY <1>2, <2>2, <3>1, <3>3 DEF Due
    <3> QED
      BY <1>2, <1>4, <3>1, <3>4 DEF Face, Owns
  <2>3. t.page.loaded = Ready /\ t.page.fontRun \notin {"waiting", "sync"} => Has(t)
    BY <1>2, <1>3, <1>5 DEF Face, Owns
  <2>4. t.page.face = 0 => Has(t)
    BY <1>2, <1>3 DEF Face, Owns
  <2> QED
    BY <2>1, <2>2, <2>3, <2>4 DEF Owns
<1> QED
  BY <1>6, <1>7, <1>8, <1>9 DEF Face, t

LEMMA PrepFailsFace ==
  ASSUME NEW s, Good(s), Face(s), NEW i \in Preps, NoLoad(s, i), NoFont(s, i)
  PROVE  Face(PrepFails(s, i))
<1>1. PrepFails(s, i) = PrepEnds(s, i, None, FALSE)
  BY DEF PrepFails, PrepEnds
<1> QED
  BY <1>1, PrepEndsFace

LEMMA PrepSucceedsFace ==
  ASSUME NEW s, Good(s), Face(s), NEW i \in Preps, NoLoad(s, i), NoFont(s, i), s.worker.alive,
         s.page.loaded = i /\ s.page.fontRun \notin {"waiting", "sync"} => Has(s)
  PROVE  Face(PrepSucceeds(s, i))
<1> DEFINE loaded == IF s.page.loaded = i THEN Ready ELSE s.page.loaded
<1>1. loaded \in {None, Ready} \cup Preps
  BY DEF Good, States, PageType
<1>2. PrepSucceeds(s, i) = PrepEnds(s, i, loaded, TRUE)
  BY DEF PrepSucceeds, PrepEnds
<1>3. \/ loaded = s.page.loaded /\ loaded # i
      \/ loaded = Ready /\ s.worker.alive /\ (s.page.fontRun \in {"waiting", "sync"} \/ Has(s))
  OBVIOUS
<1> HIDE DEF loaded
<1>4. Face(PrepEnds(s, i, loaded, TRUE))
  BY <1>1, <1>3, PrepEndsFace
<1> QED
  BY <1>2, <1>4

\* A preparation takes its second step.
LEMMA StepFace ==
  ASSUME NEW s, Sane(s), Face(s), NEW i \in Preps, NoLoad(s, i)
  PROVE  LET t == [s EXCEPT !.prep[i].step = "font"]
         IN  Face(t) /\ Good(t) /\ t.page = s.page /\ t.worker = s.worker /\ t.inbox = s.inbox /\ Asked(t, i)
<1> DEFINE t == [s EXCEPT !.prep[i].step = "font"]
<1>1. s \in States /\ Good(s) /\ s.prep \in [Preps -> PrepType]
  BY DEF Sane, Good, States
<1>2. Good(t)
  BY StepKeeps DEF Keeps, Sane
<1>3. /\ t.page = s.page /\ t.micro = s.micro /\ t.worker = s.worker /\ t.inbox = s.inbox
      /\ t.prep = [s.prep EXCEPT ![i].step = "font"]
  BY <1>1 DEF States
<1> HIDE DEF t
<1>4. /\ \A j \in Preps : t.prep[j].waiters = s.prep[j].waiters /\ (j # i => t.prep[j].step = s.prep[j].step)
      /\ t.prep[i].step = "font"
  BY <1>1, <1>3 DEF PrepType
<1>5. /\ Has(s) <=> Has(t)
      /\ \A j : /\ NoLoad(s, j) <=> NoLoad(t, j)
                /\ OneLoad(s, j) <=> OneLoad(t, j)
                /\ NoFont(s, j) <=> NoFont(t, j)
                /\ OneFont(s, j) <=> OneFont(t, j)
                /\ Up(s, j) <=> Up(t, j)
  BY <1>3 DEF Has, NoLoad, OneLoad, NoFont, OneFont, Up
<1>6. Going(t, "font") = Going(s, "font") /\ \A j \in Preps : Part(t, "font", j) = Part(s, "font", j)
  BY <1>3, <1>4, PlacesFacts DEF Going, Part
<1>7. Asked(t, i) /\ \A j \in Places : Asked(s, j) => Asked(t, j)
  BY <1>3, <1>4, PlacesFacts DEF Asked, Places
<1>8. Calls(t)
  BY <1>4, <1>5, <1>7 DEF Face, Calls
<1>9. Live(t) /\ Numbered(t.page) /\ Asker(t)
  BY <1>3, <1>6 DEF Face, Live, Asker
<1>10. Owns(t)
  BY <1>3, <1>5, <1>6 DEF Face, Owns, Due
<1> QED
  BY <1>2, <1>3, <1>7, <1>8, <1>9, <1>10 DEF Face, t

\* Another preparation: nobody waits for it yet, and whoever will, waits for the face of the page.
Prepared(t, s, b) ==
  /\ t.micro = s.micro /\ (Has(s) => Has(t)) /\ \A j \in Places : Up(s, j) => Up(t, j)
  /\ \E i \in Preps :
       /\ t.page = [s.page EXCEPT !.loaded = i] /\ t.worker = HandleLoad(Engine(s), i, b).w
       /\ t.prep[i].waiters = << >> /\ Up(t, i) /\ \A j \in Preps \ {i} : t.prep[j] = s.prep[j]

\* Its engine is given the face when the book has been read.
LEMMA PrepareFace ==
  ASSUME NEW s, Sane(s), Face(s), FreePreps(s) # {}, NEW b \in Books
  PROVE  LET t == Prepare(s, b) IN Face(t) /\ Same(Going(s, "font"), Going(t, "font")) /\ Prepared(t, s, b)
<1> DEFINE i == CHOOSE j \in FreePreps(s) : \A k \in FreePreps(s) : j <= k
           t == Prepare(s, b)
<1>0. i \in Preps /\ s.prep[i].step = "off"
  BY FreePrep
<1> HIDE DEF i
<1> DEFINE r == HandleLoad(Engine(s), i, b)
           u == [s EXCEPT !.page.loaded = i, !.prep[i] = [step |-> "load", book |-> b, waiters |-> << >>]]
<1>1. t = Call(u, r)
  BY DEF Prepare, i
<1> HIDE DEF t
<1>2. /\ u.page = [s.page EXCEPT !.loaded = i] /\ u.micro = s.micro /\ u.worker = s.worker /\ u.inbox = s.inbox
      /\ u.prep = [s.prep EXCEPT ![i] = [step |-> "load", book |-> b, waiters |-> << >>]]
      /\ DOMAIN u = DOMAIN s
  BY DEF Sane, Good, States
<1> HIDE DEF u
<1>3. Engine(s) \in WorkerType /\ Engine(s).woken = << >> /\ Engine(s).alive /\ Equal(Engine(s), s.worker)
  BY EngineFacts, EngineEqual DEF Face, Calm
<1>4. r.w.alive
  BY <1>3, HandleLoadSilent DEF Silent
<1>5. /\ t.page = u.page /\ t.prep = u.prep /\ t.micro = u.micro /\ t.worker = r.w /\ t.inbox = s.inbox \o r.out
  <2>1. DOMAIN u = {"page", "prep", "micro", "worker", "inbox"}
    BY <1>2 DEF Sane, Good, States
  <2> HIDE DEF r
  <2> QED
    BY <1>1, <1>2, <2>1 DEF Call
<1>6. /\ t.page.loaded = i /\ t.page.fontRun = s.page.fontRun /\ t.page.face = s.page.face
      /\ t.page.faceFor = s.page.faceFor /\ t.page.sig = s.page.sig
      /\ t.prep[i].step = "load" /\ t.prep[i].waiters = << >>
      /\ \A j \in Preps : j # i => t.prep[j] = s.prep[j]
  BY <1>0, <1>2, <1>5 DEF Sane, Good, States, PageType
<1>7. s.prep[i].waiters = << >>
  BY <1>0 DEF Sane, Rooms
<1>8. NoLoad(s, i) /\ NoFont(s, i) /\ i \in Places /\ i # 0 /\ i # Ready /\ Wired(s)
  BY <1>0, PlacesFacts, GoodWired DEF Face, Calls, Asked, Places, Sane, Ready
<1>9. Handled(t, s, r)
  BY <1>5, <1>6 DEF Handled
<1>10. Carries(t, s, {i}, {}) /\ OneLoad(t, i)
  BY <1>0, <1>3, <1>8, <1>9, HandleLoadCarries
<1>11. Fine(r)
  BY <1>0, EngineFacts, HandleLoadOK
<1>12. Wired(t)
  BY <1>5, <1>11 DEF Wired, Fine, Calm, Sound, Talks, Sane, Good, States
<1>a. t.worker = HandleLoad(Engine(s), i, b).w
  BY <1>5
<1> HIDE DEF r
<1>13. /\ Has(s) => Has(t)
       /\ \A j \in Preps \ {i} : (NoLoad(s, j) => NoLoad(t, j)) /\ (OneLoad(s, j) => OneLoad(t, j))
       /\ \A j \in Places : /\ NoFont(s, j) => NoFont(t, j)
                            /\ OneFont(s, j) => OneFont(t, j)
                            /\ Up(s, j) => Up(t, j)
  BY <1>10 DEF Carries
<1>14. Going(t, "font") = Going(s, "font")
  <2>1. \A j \in Preps : t.prep[j].waiters = s.prep[j].waiters
    BY <1>6, <1>7
  <2> QED
    BY <1>2, <1>5, <2>1 DEF Going
<1>15. Calls(t)
  <2>1. ASSUME NEW j \in Preps PROVE OneLoad(t, j) /\ (t.prep[j].step # "load" => NoLoad(t, j))
    BY <1>6, <1>10, <1>13 DEF Face, Calls
  <2>2. ASSUME NEW j \in Places PROVE OneFont(t, j) /\ (~Asked(t, j) => NoFont(t, j))
    <3>1. OneFont(t, j) /\ (~Asked(s, j) => NoFont(t, j))
      BY <1>13 DEF Face, Calls
    <3>2. j = i => NoFont(t, j)
      BY <1>8, <1>13
    <3>3. j # i => (Asked(t, j) <=> Asked(s, j))
      BY <1>6 DEF Asked, Places
    <3> QED
      BY <3>1, <3>2, <3>3
  <2> QED
    BY <2>1, <2>2 DEF Calls
<1>16. Live(t)
  BY <1>4, <1>5 DEF Live
<1>17. Asker(t) /\ Numbered(t.page)
  BY <1>6, <1>14 DEF Asker, Face, Numbered
<1>b. Up(t, i)
  BY <1>8, <1>12, <1>13, NoFontUp
<1>18. Owns(t)
  <2>1. 0 \in Places
    BY DEF Places
  <2> QED
    BY <1>6, <1>8, <1>13, <1>b, <2>1 DEF Face, Owns
<1>19. Prepared(t, s, b)
  <2>1. t.page = [s.page EXCEPT !.loaded = i] /\ t.micro = s.micro
    BY <1>2, <1>5
  <2> QED
    BY <1>0, <1>6, <1>13, <1>a, <1>b, <2>1 DEF Prepared
<1> QED
  BY <1>14, <1>15, <1>16, <1>17, <1>18, <1>19 DEF Face, t, Same

\* Only what is asked of the engine and what it has answered counts for Calls, and no face.
LEMMA CallsSame ==
  ASSUME NEW s, NEW t, Calls(s), t.worker = s.worker, t.inbox = s.inbox,
         \A i \in Preps : t.prep[i].step = s.prep[i].step,
         s.page.fontRun = "sync" => t.page.fontRun = "sync" \/ NoFont(s, 0)
  PROVE  Calls(t)
<1>1. \A j : /\ NoLoad(s, j) <=> NoLoad(t, j)
             /\ OneLoad(s, j) <=> OneLoad(t, j)
             /\ NoFont(s, j) <=> NoFont(t, j)
             /\ OneFont(s, j) <=> OneFont(t, j)
  BY DEF NoLoad, OneLoad, NoFont, OneFont
<1>2. \A j \in Places : ~Asked(t, j) => ~Asked(s, j) \/ NoFont(s, j)
  BY DEF Asked, Places
<1> QED
  BY <1>1, <1>2 DEF Calls

\* The engine has the face, or none is ready: the preview is painted.
LEMMA PaintingFace ==
  ASSUME NEW s, Good(s), Calls(s), Live(s), s.page.face # 0 \/ s.page.faceFor # 0 => s.page.sig # 0,
         Going(s, "font") = {}, NoFont(s, 0),
         s.page.loaded \in Preps => Up(s, s.page.loaded), s.page.loaded = Ready => Has(s),
         s.page.face = 0 => Has(s)
  PROVE  Face(Painting(s))
<1> DEFINE t == Painting(s)
<1>1. /\ t.page.fontRun = "painting" /\ t.page.loaded = s.page.loaded /\ t.page.face = s.page.face
      /\ t.page.faceFor = s.page.faceFor /\ t.page.sig = s.page.sig
      /\ SameQueues(t, s) /\ t.worker = s.worker /\ t.inbox = s.inbox
  BY DEF Good, States, PageType, Painting, SameQueues
<1> HIDE DEF t
<1>2. Calls(t)
  BY <1>1, CallsSame DEF SameQueues
<1>3. Live(t) /\ Numbered(t.page)
  BY <1>1 DEF Live, Numbered
<1>4. Asker(t)
  BY <1>1, GoingUnchanged DEF Asker
<1>5. Has(s) <=> Has(t)
  BY <1>1 DEF Has
<1>6. \A j : Up(s, j) <=> Up(t, j)
  BY <1>1, <1>5 DEF Up
<1>7. Owns(t)
  BY <1>1, <1>5, <1>6 DEF Owns
<1> QED
  BY <1>2, <1>3, <1>4, <1>7 DEF Face, t

LEMMA FontRunFields ==
  ASSUME NEW s, Sane(s), NEW f \in FontRuns
  PROVE  LET t == [s EXCEPT !.page.fontRun = f]
         IN  /\ Sane(t) /\ t.worker = s.worker /\ t.inbox = s.inbox /\ SameQueues(t, s) /\ t.page.fontRun = f
             /\ t.page.loaded = s.page.loaded /\ t.page.face = s.page.face
             /\ t.page.faceFor = s.page.faceFor /\ t.page.sig = s.page.sig
<1> DEFINE p == [s.page EXCEPT !.fontRun = f]
<1>1. /\ p \in PageType /\ p.press = s.page.press /\ p.loaded = s.page.loaded /\ p.fontRun = f
      /\ p.face = s.page.face /\ p.faceFor = s.page.faceFor /\ p.sig = s.page.sig
  BY DEF Sane, Good, States, PageType
<1> HIDE DEF p
<1>2. LET t == [s EXCEPT !.page = p]
      IN  Keeps(t, s) /\ t.worker = s.worker /\ t.page = p /\ t.inbox = s.inbox /\ SameQueues(t, s)
  BY <1>1, SetPageKeeps
<1> QED
  BY <1>1, <1>2 DEF p, Keeps

\* The hot sync failed: the engine, whose face nobody knows, goes.
LEMMA SyncFailsFace ==
  ASSUME NEW s, Sane(s), Numbered(s.page), Going(s, "font") = {}
  PROVE  Face(SyncFails(s))
<1> DEFINE v == [s EXCEPT !.page.fontRun = "waiting"]
           u == KillExportEngine(v)
           t == Painting(u)
<1>1. /\ Sane(v) /\ SameQueues(v, s) /\ v.page.fontRun = "waiting" /\ v.page.face = s.page.face
      /\ v.page.faceFor = s.page.faceFor /\ v.page.sig = s.page.sig
  BY FontRunFields DEF FontRuns
<1>2. SyncFails(s) = t
  BY DEF SyncFails
<1> HIDE DEF v
<1>3. Going(v, "font") = {}
  BY <1>1, GoingUnchanged
<1>4. Good(u) /\ Killed(u, v) /\ Going(u, "font") = {}
  BY <1>1, <1>3, KillFields, KillAt DEF Sane, Same
<1> HIDE DEF u
<1>5. /\ t.page.fontRun = "painting" /\ t.page.loaded = u.page.loaded /\ t.page.face = u.page.face
      /\ t.page.faceFor = u.page.faceFor /\ t.page.sig = u.page.sig
      /\ SameQueues(t, u) /\ t.worker = u.worker /\ t.inbox = u.inbox
  BY <1>4 DEF Good, States, PageType, Painting, SameQueues
<1> HIDE DEF t
<1>6. Asker(t)
  BY <1>4, <1>5, GoingUnchanged DEF Asker
<1>7. Numbered(t.page)
  BY <1>1, <1>4, <1>5 DEF Numbered, Killed
<1>8. Face(t)
  BY <1>4, <1>5, <1>6, <1>7, DeadFace DEF Killed, SameQueues
<1> QED
  BY <1>2, <1>8

\* The hot sync: from here on the face of the page is on its way to the engine.
LEMMA SyncFontFace ==
  ASSUME NEW s, Sane(s), Calls(s), Live(s), s.page.face # 0 \/ s.page.faceFor # 0 => s.page.sig # 0,
         s.page.fontRun # "sync", Going(s, "font") = {},
         s.page.loaded \in Preps => Up(s, s.page.loaded), s.page.face = 0 => Has(s), NEW ok \in BOOLEAN
  PROVE  Face(SyncFont(s, ok))
<1> DEFINE t == [s EXCEPT !.page.fontRun = "sync"]
           w == Engine(s)
<1>1. /\ Sane(t) /\ t.worker = s.worker /\ t.inbox = s.inbox /\ SameQueues(t, s) /\ t.page.fontRun = "sync"
      /\ t.page.loaded = s.page.loaded /\ t.page.face = s.page.face
      /\ t.page.faceFor = s.page.faceFor /\ t.page.sig = s.page.sig
  BY FontRunFields DEF FontRuns
<1>2. SyncFont(s, ok) = Call(t, HandleFont(w, 0, t.page.face, ok))
  BY <1>1 DEF SyncFont
<1> HIDE DEF t
<1>3. 0 \in Places /\ Good(t) /\ Wired(t) /\ Asked(t, 0)
  BY <1>1, GoodWired DEF Places, Sane, Asked
<1>4. Calls(t)
  BY <1>1, CallsSame DEF SameQueues
<1>5. NoFont(t, 0)
  <2>1. NoFont(s, 0)
    BY <1>3 DEF Calls, Asked
  <2> QED
    BY <1>1, <2>1 DEF NoFont
<1>6. Live(t) /\ Numbered(t.page)
  BY <1>1 DEF Live, Numbered
<1>7. Asker(t)
  BY <1>1, GoingUnchanged DEF Asker
<1>8. Has(s) <=> Has(t)
  BY <1>1 DEF Has
<1>9. \A j : Up(s, j) <=> Up(t, j)
  BY <1>1, <1>8 DEF Up
<1>10. Owns(t)
  BY <1>1, <1>3, <1>5, <1>8, <1>9, NoFontUp DEF Owns
<1>11. Face(t)
  BY <1>4, <1>6, <1>7, <1>10 DEF Face
<1>12. Calm(w) /\ w.alive /\ Equal(w, t.worker)
  BY <1>1, EngineFacts, EngineEqual
<1> HIDE DEF w
<1> QED
  BY <1>2, <1>3, <1>5, <1>11, <1>12, FontCallFace

\* The conversion of a face waits for the engine that is prepared.
LEMMA FontAwaitFace ==
  ASSUME NEW s, Sane(s), Calls(s), Live(s), Numbered(s.page), s.page.fontRun = "waiting", Going(s, "font") = {},
         s.page.loaded \in Preps, s.page.face # 0
  PROVE  Face(AwaitEngine(s, FontAsk))
<1> DEFINE t == AwaitEngine(s, FontAsk)
           i == s.page.loaded
<1>1. FontAsk \in GoType /\ FontAsk.who = "font" /\ FontAsk \in Asks("font") /\ Good(s)
  BY DEF FontAsk, GoType, Asks, Sane
<1>2. /\ t.page = s.page /\ t.worker = s.worker /\ t.inbox = s.inbox
      /\ \A j \in Preps : t.prep[j].step = s.prep[j].step
      /\ t.prep[i].waiters = Append(s.prep[i].waiters, FontAsk) /\ s.prep[i].waiters \in Seq(GoType)
  BY <1>1, AwaitFields
<1>3. Once(Going(t, "font"))
  BY <1>1, AwaitAt
<1> HIDE DEF t
<1>4. Calls(t)
  BY <1>2, CallsSame
<1>5. Live(t) /\ Numbered(t.page) /\ Asker(t)
  BY <1>2, <1>3 DEF Live, Asker
<1>6. Part(t, "font", i) # {}
  <2>1. i # 0
    BY PlacesFacts
  <2>2. \A q \in Seq(GoType) : At(Append(q, FontAsk), Asks("font")) # {}
    <3>1. \A q \in Seq(GoType) : At(Append(q, FontAsk), Asks("font")) = At(q, Asks("font")) \cup {Len(q) + 1}
      BY <1>1, AtAppend
    <3> QED
      BY <3>1
  <2> QED
    BY <1>2, <2>1, <2>2 DEF Part
<1>7. Owns(t)
  <2>1. Ready \notin Preps
    BY PlacesFacts DEF Ready
  <2> QED
    BY <1>2, <1>6, <2>1 DEF Owns, Due
<1> QED
  BY <1>4, <1>5, <1>7 DEF Face, t

LEMMA ConvertFace ==
  ASSUME NEW s, Vacant(s), Face(s), NEW pool \in BOOLEAN, NEW ok \in BOOLEAN
  PROVE  Face(Convert(s, pool, ok))
<1> DEFINE t == [s EXCEPT !.page.press = "serial"]
           u == KillExportEngine(s)
           r == HandleExport(Engine(s), Chosen(s.page), ok)
<1>0. Sane(s) /\ Good(s) /\ ~s.worker.job.on
  BY DEF Vacant, Sane
<1>1. Convert(s, pool, ok) = IF pool THEN [u EXCEPT !.page.press = "pool"] ELSE Call(t, r)
  BY DEF Convert
<1>2. CASE pool
  <2>1. Face(u) /\ Good(u)
    BY <1>0, KillFace, KillFields DEF Face
  <2> HIDE DEF u, t, r
  <2>2. Minds([u EXCEPT !.page.press = "pool"], u)
    BY <2>1, PressMinds
  <2> QED
    BY <1>1, <1>2, <2>1, <2>2, MindsFace
<1>3. CASE ~pool
  <2>1. Vacant(t) /\ t.worker = s.worker /\ Minds(t, s)
    BY <1>0, PressVacant, PressMinds DEF Presses
  <2> HIDE DEF t, u
  <2>2. Engine(t) = Engine(s) /\ Good(t) /\ Face(t)
    BY <2>1, MindsFace DEF Engine, Vacant, Sane
  <2>3. Chosen(s.page) \in Settings
    BY <1>0, ChosenOK DEF Good, States
  <2>4. Fine(r) /\ Settles(r, Engine(t)) /\ Engine(t).alive
    BY <1>0, <2>2, <2>3, EngineFacts, HandleExportOK, HandleExportSettles
  <2>5. Hush(r, Engine(t))
    BY <1>0, <2>2, <2>3, EngineFacts, HandleExportHush DEF Calm
  <2> HIDE DEF r
  <2>6. Minds(Call(t, r), t)
    BY <2>2, <2>4, <2>5, CallMinds DEF Settles, Face
  <2> QED
    BY <1>1, <1>3, <2>2, <2>6, MindsFace
<1> QED
  BY <1>2, <1>3

-----------------------------------------------------------------------------
(***************************************************************************)
(* The steps, and the face.                                                *)
(***************************************************************************)
FaceInv == LockInv /\ Face(Now)

LEMMA TurnsFace ==
  ASSUME NEW s, Face(s), Turns(s)
  PROVE  Face(Now)'
<1> DEFINE n == [page |-> page', prep |-> prep', micro |-> micro', worker |-> worker', inbox |-> inbox']
<1>1. n.page = s.page /\ SameQueues(n, s) /\ n.worker = s.worker /\ n.inbox = s.inbox
  BY DEF Turns, SameQueues
<1>2. Now' = n
  BY DEF Now
<1> HIDE DEF n
<1>3. Face(n)
  BY <1>1, SameFaceMinds, MindsFace DEF SameFace
<1> QED
  BY <1>2, <1>3

LEMMA BecomesFace ==
  ASSUME NEW s, Face(s), Becomes(s)
  PROVE  Face(Now)'
BY TurnsFace DEF Becomes

\* The page sets variables that are not of the face.
LEMMA SetPageMinds ==
  ASSUME NEW s, Sane(s), NEW p \in PageType, p.press = s.page.press, SameFace(p, s.page)
  PROVE  LET t == [s EXCEPT !.page = p]
         IN  Minds(t, s) /\ Sane(t) /\ t.page = p /\ t.worker = s.worker /\ t.prep = s.prep
<1> DEFINE t == [s EXCEPT !.page = p]
<1>1. Keeps(t, s) /\ t.page = p /\ t.worker = s.worker /\ t.inbox = s.inbox /\ SameQueues(t, s)
  BY SetPageKeeps DEF SameFace
<1> HIDE DEF t
<1>2. Minds(t, s)
  BY <1>1, SameFaceMinds
<1> QED
  BY <1>1, <1>2 DEF t, Keeps, SameQueues

LEMMA SetsFace ==
  ASSUME FaceInv, Sets
  PROVE  Face(Now)'
<1>0. PICK p \in PageType :
        /\ Aside(p)
        /\ LET t == [Now EXCEPT !.page = p]
           IN  \/ Becomes(t) \/ Becomes(InvalidateWarm(t)) \/ Becomes(ScheduleWarm(InvalidateWarm(t)))
  BY DEF Sets
<1> DEFINE t == [Now EXCEPT !.page = p]
<1>1. Sane(Now) /\ Now.page = page /\ Face(Now)
  BY NowLocked DEF Sets, Idle, FaceInv
<1>2. Keeps(t, Now) /\ t.page = p /\ t.worker = Now.worker /\ t.inbox = Now.inbox /\ SameQueues(t, Now)
  BY <1>0, <1>1, SetPageKeeps DEF Aside
<1>3. \/ Becomes(t) \/ Becomes(InvalidateWarm(t)) \/ Becomes(ScheduleWarm(InvalidateWarm(t)))
  BY <1>0
<1> HIDE DEF t
<1>4. Minds(t, Now)
  BY <1>0, <1>1, <1>2, PageMinds DEF Aside
<1>5. Face(t) /\ Sane(t)
  BY <1>1, <1>2, <1>4, MindsFace DEF Keeps
<1>6. Face(InvalidateWarm(t)) /\ Sane(InvalidateWarm(t))
  BY <1>5, InvalidateMinds, InvalidateKeeps, MindsFace DEF Keeps, Sane
<1>7. Face(ScheduleWarm(InvalidateWarm(t)))
  BY <1>6, ScheduleMinds, MindsFace DEF Sane
<1> QED
  BY <1>3, <1>5, <1>6, <1>7, BecomesFace

LEMMA ReaderFace ==
  ASSUME FaceInv, Reader
  PROVE  Face(Now)'
<1>0. LockInv /\ WarmInv
  BY DEF LockInv, FaceInv
<1>1. CASE OpenBook
  <2> DEFINE v == InvalidateWarm(Now)
             s == KillExportEngine(v)
             b == 1 + MaxOpens - left.opens
             p == [s.page EXCEPT !.opening = b]
             t == [s EXCEPT !.page = p]
  <2>1. Sane(Now) /\ Face(Now)
    BY <1>0, <1>1, NowLocked DEF OpenBook, Acts, Idle, FaceInv
  <2>2. Face(v) /\ Good(v)
    BY <2>1, InvalidateMinds, InvalidateKeeps, MindsFace DEF Keeps, Sane
  <2> HIDE DEF v
  <2>3. Face(s) /\ Good(s)
    BY <2>2, KillFace, KillFields DEF Face
  <2>4. Becomes(t)
    BY <1>1 DEF OpenBook, s, v
  <2> HIDE DEF b, s
  <2>5. SameFace(p, s.page)
    BY <2>3 DEF Good, States, PageType, SameFace
  <2> HIDE DEF p
  <2>6. t.page = p /\ t.worker = s.worker /\ t.inbox = s.inbox /\ SameQueues(t, s)
    BY <2>3 DEF Good, States, SameQueues
  <2> HIDE DEF t
  <2>7. Face(t)
    BY <2>3, <2>5, <2>6, SameFaceMinds, MindsFace
  <2> QED
    BY <2>4, <2>7, BecomesFace
<1>2. CASE Press
  <2> DEFINE p == [page EXCEPT !.press = "ping"]
             t == [Now EXCEPT !.page = p]
  <2>1. Good(Now) /\ Now.page = page /\ Face(Now)
    BY <1>0, <1>2, NowLocked DEF Press, Acts, Idle, FaceInv
  <2>2. t = [Now EXCEPT !.page.press = "ping"]
    BY <2>1
  <2>3. Turns(t)
    BY <1>2 DEF Press, Turns, Now
  <2> HIDE DEF t
  <2>4. Face(t)
    BY <2>1, <2>2, PressMinds, MindsFace
  <2> QED
    BY <2>3, <2>4, TurnsFace
<1>3. CASE TurnFontKnob \/ (\E l \in Looks : ChangeLook(l)) \/ (\E f \in {"kopub", "custom"} : ChooseFont(f))
  <2>1. Sets
    BY <1>0, <1>3, TurnFontKnobSets, ChangeLookSets, ChooseFontSets
  <2> QED
    BY <2>1, SetsFace
<1> QED
  BY <1>1, <1>2, <1>3 DEF Reader

LEMMA OpeningFace ==
  ASSUME FaceInv, OpeningEnds \/ IdleTime
  PROVE  Face(Now)'
<1>1. Sane(Now) /\ Face(Now) /\ Now.page = page /\ page \in PageType
  BY NowLocked DEF OpeningEnds, IdleTime, BookOpened, BookFails, FrameShown, IdlePrep, Idle, FaceInv, LockInv,
                   WarmInv, InTypes
<1>2. CASE BookOpened
  <2> DEFINE p == [page EXCEPT !.book = page.opening, !.opening = None]
             t == [Now EXCEPT !.page = p]
  <2>1. p \in PageType /\ p.press = page.press /\ SameFace(p, page)
    BY <1>1 DEF PageType, SameFace
  <2>2. [Now EXCEPT !.page.book = page.opening, !.page.opening = None] = t
    BY DEF Now
  <2>3. Becomes(InvalidateWarm(t))
    BY <1>2, <2>2 DEF BookOpened
  <2> HIDE DEF p
  <2>4. Minds(t, Now) /\ Sane(t)
    BY <1>1, <2>1, SetPageMinds
  <2> HIDE DEF t
  <2>5. Face(InvalidateWarm(t))
    BY <1>1, <2>4, InvalidateMinds, MindsFace DEF Sane
  <2> QED
    BY <2>3, <2>5, BecomesFace
<1>3. CASE BookFails
  <2> DEFINE p == [page EXCEPT !.book = None, !.opening = None]
             t == [Now EXCEPT !.page = p]
  <2>1. p \in PageType /\ p.press = page.press /\ SameFace(p, page)
    BY <1>1 DEF PageType, SameFace
  <2>2. [Now EXCEPT !.page.book = None, !.page.opening = None] = t
    BY DEF Now
  <2>3. Becomes(KillExportEngine(t))
    BY <1>3, <2>2 DEF BookFails
  <2> HIDE DEF p
  <2>4. Minds(t, Now) /\ Sane(t)
    BY <1>1, <2>1, SetPageMinds
  <2> HIDE DEF t
  <2>5. Face(KillExportEngine(t))
    BY <1>1, <2>4, MindsFace, KillFace DEF Sane, Face
  <2> QED
    BY <2>3, <2>5, BecomesFace
<1>4. ASSUME NEW b \in Books, FrameShown(b) PROVE Face(Now)'
  <2>1. Face(ScheduleWarm(Now))
    BY <1>1, ScheduleMinds, MindsFace DEF Sane
  <2> QED
    BY <1>4, <2>1, BecomesFace DEF FrameShown
<1>5. ASSUME NEW b \in Books, IdlePrep(b) PROVE Face(Now)'
  <2>1. Face(Prepare(Now, b))
    BY <1>1, <1>5, PrepareFace DEF IdlePrep
  <2> QED
    BY <1>5, <2>1, BecomesFace DEF IdlePrep
<1> QED
  BY <1>2, <1>3, <1>4, <1>5 DEF OpeningEnds, IdleTime

LEMMA PoolEndsFace ==
  ASSUME FaceInv, PoolEnds \/ EngineDies
  PROVE  Face(Now)'
<1>1. Good(Now) /\ Face(Now)
  BY NowLocked DEF PoolEnds, EngineDies, Idle, FaceInv
<1>2. Face(Unlock(Now)) /\ Face(KillExportEngine(Now))
  BY <1>1, UnlockMinds, MindsFace, KillFace DEF Face
<1> QED
  BY <1>2, BecomesFace DEF PoolEnds, EngineDies

LEMMA FaceAcceptedFace ==
  ASSUME FaceInv, NEW ok \in BOOLEAN, NEW sync \in BOOLEAN, FaceAccepted(ok, sync)
  PROVE  Face(Now)'
<1> DEFINE p == [page EXCEPT !.face = page.faceFor, !.faceFor = 0]
           q == [page EXCEPT !.fontRun = "idle", !.faceFor = 0]
           s == [Now EXCEPT !.page = p]
           t == [Now EXCEPT !.page = q]
           u == [s EXCEPT !.page.fontRun = "waiting"]
<1>1. /\ Sane(Now) /\ Face(Now) /\ Now.page = page /\ page \in PageType /\ 0 \in Faces
      /\ page.fontRun = "preview"
  BY NowLocked, WarmAssumption DEF FaceAccepted, Idle, Faces, FaceInv, LockInv, WarmInv, InTypes
<1>2. page.faceFor # 0 /\ page.sig # 0 /\ Going(Now, "font") = {} /\ NoFont(Now, 0) /\ Calls(Now) /\ Live(Now)
  BY <1>1 DEF Face, Numbered, Asker, Calls, Asked, Places
<1>3. /\ p \in PageType /\ p.press = page.press /\ p.loaded = page.loaded /\ p.face = page.faceFor /\ p.faceFor = 0
      /\ p.sig = page.sig /\ p.fontRun = page.fontRun
      /\ q \in PageType /\ q.press = page.press /\ q.loaded = page.loaded /\ q.face = page.face /\ q.faceFor = 0
      /\ q.sig = page.sig /\ q.fontRun = "idle"
  BY <1>1 DEF PageType, FontRuns
<1>4. [Now EXCEPT !.page.face = page.faceFor, !.page.faceFor = 0] = s
      /\ [Now EXCEPT !.page.fontRun = "idle", !.page.faceFor = 0] = t
  BY DEF Now
<1>5. FontAsk = [who |-> "font"]
  BY DEF FontAsk
<1>6. Becomes(CASE ~ok -> t
                [] ok /\ page.loaded = None -> Painting(s)
                [] ok /\ page.loaded = Ready -> SyncFont(s, sync)
                [] OTHER -> AwaitEngine(u, FontAsk))
  BY <1>4, <1>5 DEF FaceAccepted
<1> HIDE DEF p, q
<1>7. /\ Keeps(s, Now) /\ s.page = p /\ s.worker = Now.worker /\ s.inbox = Now.inbox /\ SameQueues(s, Now)
      /\ Keeps(t, Now) /\ t.page = q /\ t.worker = Now.worker /\ t.inbox = Now.inbox /\ SameQueues(t, Now)
  BY <1>1, <1>3, SetPageKeeps
<1> HIDE DEF s, t
<1>8. Sane(s) /\ Good(s) /\ Going(s, "font") = {} /\ NoFont(s, 0) /\ Live(s)
  BY <1>2, <1>3, <1>7, <1>1, GoingUnchanged DEF Keeps, Sane, NoFont, Live
<1>9. Calls(s)
  BY <1>1, <1>2, <1>7, CallsSame DEF SameQueues
<1>10. CASE ~ok
  <2>1. Numbered(q)
    BY <1>2, <1>3 DEF Numbered
  <2>2. Minds(t, Now)
    BY <1>1, <1>3, <1>7, <2>1, PageMinds
  <2> QED
    BY <1>1, <1>6, <1>10, <2>2, MindsFace, BecomesFace
<1>11. CASE ok /\ page.loaded = None
  <2>1. Becomes(Painting(s))
    BY <1>6, <1>11 DEF Ready, None
  <2>2. None \notin Preps /\ None # Ready
    BY PlacesFacts DEF None, Ready
  <2>3. Face(Painting(s))
    BY <1>2, <1>3, <1>7, <1>8, <1>9, <1>11, <2>2, PaintingFace
  <2> QED
    BY <2>1, <2>3, BecomesFace
<1>12. CASE ok /\ page.loaded = Ready
  <2>1. Becomes(SyncFont(s, sync))
    BY <1>6, <1>12 DEF Ready, None
  <2>2. Ready \notin Preps
    BY PlacesFacts DEF Ready
  <2>3. Face(SyncFont(s, sync))
    BY <1>1, <1>2, <1>3, <1>7, <1>8, <1>9, <1>12, <2>2, SyncFontFace
  <2> QED
    BY <2>1, <2>3, BecomesFace
<1>13. CASE ok /\ page.loaded # None /\ page.loaded # Ready
  <2>1. page.loaded \in Preps
    BY <1>1, <1>13 DEF PageType
  <2>2. /\ Sane(u) /\ u.worker = s.worker /\ u.inbox = s.inbox /\ SameQueues(u, s) /\ u.page.fontRun = "waiting"
        /\ u.page.loaded = s.page.loaded /\ u.page.face = s.page.face
        /\ u.page.faceFor = s.page.faceFor /\ u.page.sig = s.page.sig
    BY <1>8, FontRunFields DEF FontRuns
  <2> HIDE DEF u
  <2>3. Calls(u)
    BY <1>1, <1>3, <1>7, <1>9, <2>2, CallsSame DEF SameQueues
  <2>4. Live(u) /\ Numbered(u.page) /\ Going(u, "font") = {}
    BY <1>2, <1>3, <1>7, <1>8, <2>2, GoingUnchanged DEF Live, Numbered
  <2>5. Face(AwaitEngine(u, FontAsk))
    BY <1>2, <1>3, <1>7, <2>1, <2>2, <2>3, <2>4, FontAwaitFace
  <2>6. Becomes(AwaitEngine(u, FontAsk))
    BY <1>6, <1>13
  <2> QED
    BY <2>5, <2>6, BecomesFace
<1> QED
  BY <1>10, <1>11, <1>12, <1>13

LEMMA FireWarmFace ==
  ASSUME FaceInv, NEW ok \in BOOLEAN, FireWarm(ok)
  PROVE  Face(Now)'
<1> DEFINE p == [page EXCEPT !.settle = FALSE]
           k == [who |-> "warm", key |-> Key(page), tok |-> page.version]
           q == [p EXCEPT !.firing = k.key]
           s == [Now EXCEPT !.page = p]
           fired == [Now EXCEPT !.page = q]
           skip == \/ page.book = None \/ Exporting(page)
                   \/ k.key \in {page.warmKey, page.firing}
<1>1. Sane(Now) /\ Face(Now) /\ Now.page = page /\ page \in PageType
  BY NowLocked DEF FireWarm, Idle, FaceInv, LockInv, WarmInv, InTypes
<1>2. k \in GoType /\ IsWarm(k) /\ k.key \in Keys /\ k.who # "font"
  BY <1>1, ChosenOK DEF GoType, IsWarm, PageType
<1>3. p \in PageType /\ p.press = page.press /\ SameFace(p, page)
  BY <1>1 DEF PageType, SameFace
<1>4. [Now EXCEPT !.page.settle = FALSE] = s
      /\ [[Now EXCEPT !.page.settle = FALSE] EXCEPT !.page.firing = k.key] = fired
  BY DEF Now
<1>5. Becomes(CASE skip -> s
                [] OTHER -> CASE page.loaded = None -> WarmEnds(fired)
                              [] page.loaded = Ready -> SendWarm(fired, k, ok)
                              [] OTHER -> AwaitEngine(fired, k))
  <2> HIDE DEF p, q, k
  <2> QED
    BY <1>4 DEF FireWarm, k
<1> HIDE DEF k, skip
<1>6. q \in PageType /\ q.press = page.press /\ SameFace(q, page)
  BY <1>1, <1>2, <1>3 DEF PageType, SameFace
<1> HIDE DEF p, q
<1>7. Minds(s, Now) /\ Minds(fired, Now) /\ Sane(fired) /\ fired.page = q
  BY <1>1, <1>3, <1>6, SetPageMinds
<1> HIDE DEF s, fired
<1>8. Face(s) /\ Face(fired) /\ Good(fired)
  BY <1>1, <1>7, MindsFace DEF Sane
<1>9. CASE skip
  BY <1>5, <1>8, <1>9, BecomesFace
<1>10. CASE ~skip /\ page.loaded = None
  <2>1. Becomes(WarmEnds(fired))
    BY <1>5, <1>10 DEF Ready, None
  <2> QED
    BY <1>8, <2>1, WarmEndsMinds, MindsFace, BecomesFace
<1>11. CASE ~skip /\ page.loaded = Ready
  <2>1. Becomes(SendWarm(fired, k, ok))
    BY <1>5, <1>11 DEF Ready, None
  <2>2. Face(SendWarm(fired, k, ok))
    BY <1>2, <1>7, <1>8, SendWarmMinds, MindsFace DEF Face
  <2> QED
    BY <2>1, <2>2, BecomesFace
<1>12. CASE ~skip /\ page.loaded # None /\ page.loaded # Ready
  <2>1. fired.page.loaded \in Preps
    BY <1>1, <1>6, <1>7, <1>12 DEF PageType, SameFace
  <2>2. Becomes(AwaitEngine(fired, k))
    BY <1>5, <1>12
  <2>3. Face(AwaitEngine(fired, k))
    BY <1>2, <1>8, <2>1, AwaitMinds, MindsFace
  <2> QED
    BY <2>2, <2>3, BecomesFace
<1> QED
  BY <1>9, <1>10, <1>11, <1>12

LEMMA PingReplyFace ==
  ASSUME FaceInv, NEW pool \in BOOLEAN, NEW ok \in BOOLEAN, PingReply(pool, ok)
  PROVE  Face(Now)'
<1> DEFINE want == [book |-> page.book, spec |-> Chosen(page), face |-> page.face,
                    calm |-> ~(page.convert \/ Converting(page)), ready |-> page.loaded # None \/ page.book # None]
           p == [page EXCEPT !.want = want]
           s == [Now EXCEPT !.page = p]
           w == [s EXCEPT !.page.press = "wait"]
           f == [s EXCEPT !.page.press = "fetch"]
           k == [who |-> "export"]
<1>1. /\ Locked(Now) /\ Sane(Now) /\ Face(Now) /\ Now.page = page /\ Now.prep = prep /\ page \in PageType
      /\ page.press = "ping"
  BY NowLocked DEF PingReply, Idle, FaceInv, LockInv, WarmInv, InTypes
<1>2. want \in WantType
  BY <1>1, ChosenOK DEF WantType, PageType
<1>3. /\ page.loaded = None => FreePreps(Now) # {}
      /\ Becomes(IF page.warmKey = Key(page) THEN Call(f, HandleFetch(Engine(s))) ELSE PingAnswered(s, pool, ok))
  <2>1. [Now EXCEPT !.page.want = want] = s
    BY DEF Now
  <2> HIDE DEF s
  <2> QED
    BY <2>1 DEF PingReply
<1> HIDE DEF want
<1>4. p \in PageType /\ p.loaded = page.loaded /\ p.book = page.book /\ p.press = page.press /\ SameFace(p, page)
  BY <1>1, <1>2 DEF PageType, SameFace
<1> HIDE DEF p
<1>5. Keeps(s, Now) /\ s.page = p /\ s.prep = prep /\ Minds(s, Now)
  BY <1>1, <1>4, SetPageKeeps, SetPageMinds DEF SameQueues
<1> HIDE DEF s
<1>6. Vacant(s) /\ Good(s) /\ Face(s)
  BY <1>1, <1>5, KeepsVacant, MindsFace DEF Locked, Lock, Vacant, Sane
<1>7. /\ Vacant(w) /\ w.page.press = "wait" /\ w.page.loaded = page.loaded /\ w.page.book = page.book /\ w.prep = prep
      /\ Vacant(f) /\ f.worker = s.worker /\ Minds(w, s) /\ Minds(f, s)
  BY <1>4, <1>5, <1>6, PressVacant, PressMinds DEF Presses
<1>8. PingAnswered(s, pool, ok) =
        CASE page.loaded = Ready \/ (page.loaded = None /\ page.book = None) -> Convert(w, pool, ok)
          [] page.loaded = None /\ page.book # None -> AwaitEngine(Prepare(w, page.book), k)
          [] OTHER -> AwaitEngine(w, k)
  BY <1>4, <1>5 DEF PingAnswered
<1>9. k \in GoType /\ k.who # "font"
  BY DEF GoType
<1> HIDE DEF w, f, k
<1>10. Face(w) /\ Face(f) /\ Sane(w) /\ Good(w) /\ Good(f)
  BY <1>6, <1>7, MindsFace DEF Vacant, Sane
<1>11. Face(Call(f, HandleFetch(Engine(s))))
  <2> DEFINE r == HandleFetch(Engine(s))
  <2>1. Engine(f) = Engine(s) /\ ~s.worker.job.on /\ Sane(s)
    BY <1>6, <1>7 DEF Engine, Vacant
  <2>2. Fine(r) /\ Settles(r, Engine(f)) /\ Engine(f).alive /\ Hush(r, Engine(f))
    BY <2>1, EngineFacts, HandleFetchOK, FetchSettles, HandleFetchHush
  <2> HIDE DEF r
  <2>3. Minds(Call(f, r), f)
    BY <1>10, <2>2, CallMinds DEF Settles, Face
  <2>4. Face(Call(f, r))
    BY <1>10, <2>3, MindsFace
  <2> QED
    BY <2>4 DEF r
<1>12. Face(PingAnswered(s, pool, ok))
  <2>1. CASE page.loaded = Ready \/ (page.loaded = None /\ page.book = None)
    <3>1. PingAnswered(s, pool, ok) = Convert(w, pool, ok)
      BY <1>8, <2>1 DEF Ready, None
    <3> QED
      BY <1>7, <1>10, <3>1, ConvertFace
  <2>2. CASE ~(page.loaded = Ready \/ (page.loaded = None /\ page.book = None)) /\ page.loaded = None
    <3>1. page.book \in Books /\ FreePreps(w) # {}
      BY <1>1, <1>3, <1>7, <2>2 DEF PageType, FreePreps
    <3> DEFINE t == Prepare(w, page.book)
    <3>2. Keeps(t, w) /\ t.page.loaded \in Preps /\ Face(t)
      BY <1>10, <3>1, PrepareKeeps, PrepareFace
    <3>3. PingAnswered(s, pool, ok) = AwaitEngine(t, k)
      BY <1>8, <2>2
    <3> HIDE DEF t
    <3>4. Minds(AwaitEngine(t, k), t)
      BY <1>9, <3>2, AwaitMinds DEF Keeps, Sane
    <3> QED
      BY <3>2, <3>3, <3>4, MindsFace
  <2>3. CASE ~(page.loaded = Ready \/ (page.loaded = None /\ page.book = None)) /\ page.loaded # None
    <3>1. page.loaded \in Preps
      BY <1>1, <2>3 DEF PageType
    <3>2. PingAnswered(s, pool, ok) = AwaitEngine(w, k)
      BY <1>8, <2>3
    <3>3. Minds(AwaitEngine(w, k), w)
      BY <1>7, <1>9, <1>10, <3>1, AwaitMinds
    <3> QED
      BY <1>10, <3>2, <3>3, MindsFace
  <2> QED
    BY <2>1, <2>2, <2>3
<1> QED
  BY <1>3, <1>11, <1>12, BecomesFace

LEMMA AwaitedMinds ==
  ASSUME NEW s, Vacant(s), NEW ready \in BOOLEAN
  PROVE  Minds(Awaited(s, ready), s)
<1> DEFINE p == [s.page EXCEPT !.want = [s.page.want EXCEPT !.ready = ready]]
<1>1. /\ Awaited(s, ready) = [s EXCEPT !.page = p] /\ p \in PageType
      /\ \A v \in DOMAIN s.page : v # "want" => p[v] = s.page[v]
  BY AwaitedOK DEF Vacant, Sane
<1>2. p.press = s.page.press /\ SameFace(p, s.page)
  BY <1>1 DEF Vacant, Sane, Good, States, PageType, SameFace
<1> HIDE DEF p
<1> QED
  BY <1>1, <1>2, SetPageMinds DEF Vacant

LEMMA ContinueFace ==
  ASSUME FaceInv, NEW pool \in BOOLEAN, NEW ok \in BOOLEAN, Continue(pool, ok)
  PROVE  Face(Now)'
<1> DEFINE c == Head(micro)
           s == [Now EXCEPT !.micro = Tail(micro)]
<1>1. Locked(Now) /\ Good(Now) /\ Face(Now) /\ Now.micro = micro /\ micro # << >>
  BY NowLocked DEF Continue, FaceInv
<1>2. Becomes(CASE c.go.who = "warm" -> IF c.ok THEN SendWarm(s, c.go, ok) ELSE WarmEnds(s)
                [] c.go.who = "font" -> IF c.ok THEN SyncFont(s, ok) ELSE SyncFails(s)
                [] c.go.who = "export" -> Convert(Awaited(s, c.ok), pool, ok))
  BY DEF Continue, Now
<1>3. /\ c \in MicroType
      /\ c.go.who # "export" => Keeps(s, Now)
      /\ c.go.who = "export" => Vacant(s)
  BY <1>1, HeadGoes
<1>4. /\ Good(s) /\ s.page = Now.page /\ s.prep = Now.prep /\ s.worker = Now.worker /\ s.inbox = Now.inbox
      /\ c.go.who # "font" => Minds(s, Now)
      /\ c.go.who = "font" /\ Asker(Now) =>
           Now.page.fontRun = "waiting" /\ \A i \in Places : Part(s, "font", i) = {}
  BY <1>1, HeadMinds
<1> HIDE DEF c, s
<1>5. c.go.who # "font" => Face(s)
  BY <1>1, <1>4, MindsFace
<1>6. c.go.who # "export" => Sane(s)
  BY <1>3 DEF Keeps
<1>7. CASE c.go.who = "warm"
  <2>1. IsWarm(c.go)
    BY <1>3, <1>7 DEF MicroType, GoType, IsWarm
  <2>2. Face(SendWarm(s, c.go, ok)) /\ Face(WarmEnds(s))
    BY <1>4, <1>5, <1>6, <1>7, <2>1, SendWarmMinds, WarmEndsMinds, MindsFace DEF Face
  <2>3. Becomes(SendWarm(s, c.go, ok)) \/ Becomes(WarmEnds(s))
    BY <1>2, <1>7
  <2> QED
    BY <2>2, <2>3, BecomesFace
<1>8. CASE c.go.who = "font"
  <2>1. s.page.fontRun = "waiting" /\ \A i \in Places : Part(s, "font", i) = {}
    BY <1>1, <1>4, <1>8 DEF Face
  <2>2. Going(s, "font") = {}
    BY <1>4, <2>1, GoingNone DEF Good
  <2>3. Calls(s) /\ Live(s) /\ Numbered(s.page)
    BY <1>1, <1>4, CallsSame DEF Face, Live
  <2>4. (Has(Now) <=> Has(s)) /\ \A j : Up(Now, j) <=> Up(s, j)
    BY <1>4 DEF Has, Up
  <2>5. ASSUME s.page.loaded \in Preps PROVE Up(s, s.page.loaded)
    <3>1. s.page.loaded # 0 /\ s.page.loaded \in Places
      BY <2>5, PlacesFacts DEF Places
    <3>2. Part(Now, "font", s.page.loaded) = {}
      BY <1>4, <2>1, <3>1 DEF Part
    <3> QED
      BY <1>1, <1>4, <2>4, <2>5, <3>2 DEF Due, Face, Owns
  <2>6. s.page.face = 0 => Has(s)
    BY <1>1, <1>4, <2>4 DEF Face, Owns
  <2>7. Face(SyncFont(s, ok))
    BY <1>6, <1>8, <2>1, <2>2, <2>3, <2>5, <2>6, SyncFontFace DEF Numbered
  <2>8. Face(SyncFails(s))
    BY <1>6, <1>8, <2>2, <2>3, SyncFailsFace
  <2>9. Becomes(SyncFont(s, ok)) \/ Becomes(SyncFails(s))
    BY <1>2, <1>8
  <2> QED
    BY <2>7, <2>8, <2>9, BecomesFace
<1>9. CASE c.go.who = "export"
  <2>1. Becomes(Convert(Awaited(s, c.ok), pool, ok))
    BY <1>2, <1>9
  <2>2. Vacant(Awaited(s, c.ok)) /\ Minds(Awaited(s, c.ok), s)
    BY <1>3, <1>9, AwaitedVacant, AwaitedMinds DEF MicroType
  <2> QED
    BY <1>5, <1>9, <2>1, <2>2, MindsFace, ConvertFace, BecomesFace
<1> QED
  BY <1>3, <1>7, <1>8, <1>9 DEF MicroType, GoType

-----------------------------------------------------------------------------
LEMMA TakenFace ==
  ASSUME FaceInv, NEW re, Answered(re)
  PROVE  /\ Face(Taken) /\ Good(Taken) /\ Face(Now) /\ ReadsOne(Taken, Now)
         /\ Now.page = page /\ Now.prep = prep /\ Now.worker = worker /\ Now.inbox = inbox
         /\ Taken.page = page /\ Taken.prep = prep /\ Taken.worker = worker
         /\ inbox # << >> /\ inbox \in Seq(MessageType) /\ worker.alive /\ Calm(worker)
<1>1. /\ Face(Now) /\ Good(Now) /\ inbox # << >> /\ LockInv
      /\ Now.page = page /\ Now.prep = prep /\ Now.micro = micro /\ Now.worker = worker /\ Now.inbox = inbox
  BY NowLocked DEF Answered, Idle, FaceInv
<1>2. Taken = [Now EXCEPT !.inbox = Tail(Now.inbox)]
  BY DEF Taken
<1>3. Good(Taken) /\ Taken.page = page /\ Taken.worker = worker
  BY <1>1, TakenLocked DEF Vacant, Sane
<1>4. SameQueues(Taken, Now) /\ Taken.inbox = Tail(Now.inbox)
  BY <1>1, <1>2 DEF Good, States, SameQueues
<1>5. ReadsOne(Taken, Now)
  BY <1>1, <1>3, <1>4, GoodWired, TakenCarries
<1>6. worker.alive
  BY <1>1 DEF Face, Live
<1>7. Minds(Taken, Now)
  BY <1>1, <1>3, <1>4, <1>5, <1>6, CarriesMinds DEF ReadsOne
<1>8. Face(Taken)
  BY <1>1, <1>7, MindsFace
<1>9. inbox \in Seq(MessageType) /\ Calm(worker)
  BY <1>1 DEF Good, States
<1> QED
  BY <1>1, <1>3, <1>4, <1>5, <1>6, <1>8, <1>9 DEF SameQueues

LEMMA LoadAnsweredFace ==
  ASSUME FaceInv, NEW ok \in BOOLEAN, LoadAnswered(ok)
  PROVE  Face(Now)'
<1> DEFINE m == Head(inbox)
           i == m.id
           t == [Taken EXCEPT !.prep[i].step = "font"]
           r == HandleFont(worker, i, page.face, ok)
<1>0. LockInv /\ Answered("load")
  BY DEF FaceInv, LoadAnswered
<1>1. /\ Face(Taken) /\ Good(Taken) /\ Face(Now) /\ ReadsOne(Taken, Now)
      /\ Now.page = page /\ Now.prep = prep /\ Now.worker = worker /\ Now.inbox = inbox
      /\ Taken.page = page /\ Taken.worker = worker
      /\ inbox # << >> /\ inbox \in Seq(MessageType) /\ worker.alive /\ Calm(worker)
  BY <1>0, TakenFace
<1>2. Sane(Taken) /\ m \in MessageType /\ m.re = "load"
  BY <1>0, TakenLocked
<1>3. i \in Preps /\ i \in Places /\ m.ok \in BOOLEAN /\ m \in LoadSays(i)
  BY <1>2 DEF MessageType, LoadSays, Places
<1>4. Becomes(CASE ~m.ok -> PrepFails(Taken, i)
                [] m.ok /\ page.face = 0 -> PrepSucceeds(Taken, i)
                [] OTHER -> Call(t, r))
  BY DEF LoadAnswered
<1>5. NoLoad(Taken, i)
  BY <1>1, <1>3 DEF ReadsOne, Face, Calls
<1>6. At(inbox, LoadSays(i)) # {}
  BY <1>1, <1>3, AtHead
<1> HIDE DEF m, i
<1>7. ~NoLoad(Now, i)
  BY <1>1, <1>6 DEF NoLoad, Neither
<1>8. prep[i].step = "load"
  BY <1>1, <1>3, <1>7 DEF Face, Calls
<1>9. NoFont(Taken, i)
  <2>1. ~Asked(Now, i)
    BY <1>1, <1>3, <1>8, PlacesFacts DEF Asked
  <2>2. NoFont(Now, i)
    BY <1>1, <1>3, <2>1 DEF Face, Calls
  <2> QED
    BY <1>1, <1>3, <2>2 DEF ReadsOne, Carries
<1>10. Face(PrepFails(Taken, i))
  BY <1>1, <1>3, <1>5, <1>9, PrepFailsFace
<1>11. page.face = 0 => Face(PrepSucceeds(Taken, i))
  BY <1>1, <1>3, <1>5, <1>9, PrepSucceedsFace DEF Face, Owns
<1>12. Face(t) /\ Good(t) /\ t.page = page /\ t.worker = worker /\ t.inbox = Taken.inbox /\ Asked(t, i)
  BY <1>1, <1>2, <1>3, <1>5, StepFace
<1> HIDE DEF t
<1>13. NoFont(t, i) /\ Equal(worker, t.worker)
  BY <1>1, <1>9, <1>12 DEF NoFont, Equal
<1>14. Face(Call(t, r))
  BY <1>1, <1>3, <1>12, <1>13, FontCallFace
<1> HIDE DEF r
<1>15. \/ Becomes(PrepFails(Taken, i)) \/ (page.face = 0 /\ Becomes(PrepSucceeds(Taken, i))) \/ Becomes(Call(t, r))
  BY <1>3, <1>4
<1> QED
  BY <1>10, <1>11, <1>14, <1>15, BecomesFace

LEMMA FontAnsweredFace ==
  ASSUME FaceInv, FontAnswered
  PROVE  Face(Now)'
<1> DEFINE m == Head(inbox)
           j == m.id
<1>0. LockInv /\ Answered("loadFont")
  BY DEF FaceInv, FontAnswered
<1>1. /\ Face(Taken) /\ Good(Taken) /\ Face(Now) /\ ReadsOne(Taken, Now)
      /\ Now.page = page /\ Now.prep = prep /\ Now.worker = worker /\ Now.inbox = inbox
      /\ Taken.page = page /\ Taken.prep = prep /\ Taken.worker = worker
      /\ inbox # << >> /\ inbox \in Seq(MessageType) /\ worker.alive
  BY <1>0, TakenFace
<1>2. Sane(Taken) /\ m \in MessageType /\ m.re = "loadFont"
  BY <1>0, TakenLocked
<1>3. j \in Places /\ m.ok \in BOOLEAN /\ m \in FontSays(j) /\ (m.ok => m = FontReply(j, TRUE))
  BY <1>2 DEF MessageType, FontSays, Places, FontReply
<1>4. Becomes(CASE j # 0 /\ m.ok -> PrepSucceeds(Taken, j)
                [] j # 0 /\ ~m.ok -> PrepFails(Taken, j)
                [] j = 0 /\ m.ok -> Painting(Taken)
                [] j = 0 /\ ~m.ok -> SyncFails(Taken))
  BY DEF FontAnswered
<1>5. NoFont(Taken, j)
  BY <1>1, <1>3 DEF ReadsOne, Face, Calls
<1>6. At(inbox, FontSays(j)) # {}
  BY <1>1, <1>3, AtHead
<1>7. m.ok /\ Up(Now, j) => Has(Taken)
  BY <1>1, <1>3 DEF ReadsOne
<1> HIDE DEF m, j
<1>8. Asked(Now, j)
  BY <1>1, <1>3, <1>6 DEF NoFont, Neither, Face, Calls
<1>9. CASE j # 0
  <2>1. j \in Preps /\ prep[j].step = "font"
    BY <1>1, <1>3, <1>8, <1>9 DEF Places, Asked
  <2>2. NoLoad(Taken, j)
    BY <1>1, <2>1 DEF Face, Calls
  <2>3. Face(PrepFails(Taken, j))
    BY <1>1, <1>5, <2>1, <2>2, PrepFailsFace
  <2>4. ASSUME m.ok PROVE Face(PrepSucceeds(Taken, j))
    <3>1. page.loaded = j /\ page.fontRun \notin {"waiting", "sync"} => Has(Taken)
      BY <1>1, <1>7, <2>1, <2>4 DEF Face, Owns, Due
    <3> QED
      BY <1>1, <1>5, <2>1, <2>2, <3>1, PrepSucceedsFace
  <2>5. (m.ok /\ Becomes(PrepSucceeds(Taken, j))) \/ Becomes(PrepFails(Taken, j))
    BY <1>3, <1>4, <1>9
  <2> QED
    BY <2>3, <2>4, <2>5, BecomesFace
<1>10. CASE j = 0
  <2>1. page.fontRun = "sync"
    BY <1>1, <1>8, <1>10 DEF Asked
  <2>2. Going(Taken, "font") = {} /\ Calls(Taken) /\ Live(Taken) /\ Numbered(page)
    BY <1>1, <2>1 DEF Face, Asker
  <2>3. Face(SyncFails(Taken))
    BY <1>1, <1>2, <2>2, SyncFailsFace
  <2>4. ASSUME m.ok PROVE Face(Painting(Taken))
    <3>1. Has(Taken)
      BY <1>1, <1>7, <1>10, <2>1, <2>4 DEF Face, Owns
    <3>2. page.loaded \in Preps => Up(Taken, page.loaded)
      BY <1>1, <2>1 DEF Face, Owns, Due
    <3> QED
      BY <1>1, <1>5, <1>10, <2>2, <3>1, <3>2, PaintingFace DEF Numbered
  <2>5. (m.ok /\ Becomes(Painting(Taken))) \/ Becomes(SyncFails(Taken))
    BY <1>3, <1>4, <1>10
  <2> QED
    BY <2>3, <2>4, <2>5, BecomesFace
<1> QED
  BY <1>9, <1>10

LEMMA WarmAnsweredFace ==
  ASSUME FaceInv, WarmAnswered
  PROVE  Face(Now)'
<1> DEFINE m == Head(inbox)
           p == [Taken.page EXCEPT !.warmKey = m.key]
           t == [Taken EXCEPT !.page = p]
           s == CASE m.res = "error" -> ScheduleWarm(Taken)
                  [] m.res = "busy" /\ Current(m) -> ScheduleWarm(Taken)
                  [] m.res = "ready" /\ Current(m) -> t
                  [] OTHER -> Taken
<1>0. LockInv /\ Answered("warm")
  BY DEF FaceInv, WarmAnswered
<1>1. Face(Taken) /\ Sane(Taken) /\ m \in MessageType /\ m.re = "warm"
  BY <1>0, TakenFace, TakenLocked
<1>2. m.key \in Keys
  BY <1>1 DEF MessageType
<1>3. Becomes(WarmEnds(s))
  BY DEF WarmAnswered
<1> HIDE DEF m
<1>4. p \in PageType /\ p.press = Taken.page.press /\ SameFace(p, Taken.page)
  BY <1>1, <1>2 DEF Sane, Good, States, PageType, SameFace
<1> HIDE DEF p
<1>5. Face(t) /\ Sane(t)
  BY <1>1, <1>4, SetPageMinds, MindsFace
<1> HIDE DEF t
<1>6. Face(ScheduleWarm(Taken)) /\ Sane(ScheduleWarm(Taken))
  BY <1>1, ScheduleMinds, ScheduleKeeps, MindsFace DEF Keeps, Sane
<1>7. Face(s) /\ Sane(s)
  BY <1>1, <1>5, <1>6
<1> HIDE DEF s
<1>8. Face(WarmEnds(s))
  BY <1>7, WarmEndsMinds, MindsFace DEF Sane
<1> QED
  BY <1>3, <1>8, BecomesFace

LEMMA FileAnsweredFace ==
  ASSUME FaceInv, FileAnswered
  PROVE  Face(Now)'
<1> DEFINE p == [Taken.page EXCEPT !.warmKey = NoKey]
           t == [Taken EXCEPT !.page = p]
<1>0. LockInv /\ Answered("file")
  BY DEF FaceInv, FileAnswered
<1>1. Face(Taken) /\ Sane(Taken)
  BY <1>0, TakenFace, TakenLocked DEF Vacant
<1>2. p \in PageType /\ p.press = Taken.page.press /\ SameFace(p, Taken.page)
  BY <1>1, DefaultType DEF Sane, Good, States, PageType, SameFace
<1>3. t = [Taken EXCEPT !.page.warmKey = NoKey]
  OBVIOUS
<1> HIDE DEF p
<1>4. Face(t) /\ Sane(t)
  BY <1>1, <1>2, SetPageMinds, MindsFace
<1> HIDE DEF t
<1>5. Face(Unlock(Taken)) /\ Face(Unlock(t))
  BY <1>1, <1>4, UnlockMinds, MindsFace DEF Sane
<1>6. Turns(Unlock(Taken)) \/ Turns(Unlock(t))
  BY <1>3 DEF FileAnswered, Becomes
<1> QED
  BY <1>5, <1>6, TurnsFace

-----------------------------------------------------------------------------
\* A step of the worker: it takes a face that waited, reads a book, or has nothing to do with faces.
LEMMA WorksFace ==
  ASSUME FaceInv, NEW r, Works(r), r.w.alive, \A t : Handled(t, Now, r) => Carries(t, Now, {}, {})
  PROVE  Face(Now)' /\ Carries(Now', Now, {}, {})
<1> DEFINE n == [page |-> page', prep |-> prep', micro |-> micro', worker |-> worker', inbox |-> inbox']
<1>1. n.page = Now.page /\ SameQueues(n, Now) /\ n.worker = r.w /\ n.inbox = Now.inbox \o r.out
  BY DEF Works, Now, SameQueues
<1>2. Now' = n
  BY DEF Now
<1> HIDE DEF n
<1>3. Carries(n, Now, {}, {})
  BY <1>1 DEF Handled
<1>4. Minds(n, Now)
  BY <1>1, <1>3, CarriesMinds
<1>5. Face(n)
  BY <1>4, MindsFace DEF FaceInv
<1> QED
  BY <1>2, <1>3, <1>5

LEMMA HushWorks ==
  ASSUME FaceInv, NEW r, Works(r), Hush(r, worker), r.w.alive
  PROVE  Face(Now)' /\ Carries(Now', Now, {}, {})
<1>1. Wired(Now) /\ Now.worker = worker
  BY DEF FaceInv, LockInv, WarmInv, InTypes, Sound, Wired, Now
<1>2. Equal(worker, Now.worker)
  BY <1>1 DEF Equal
<1>3. \A t : Handled(t, Now, r) => Carries(t, Now, {}, {})
  BY <1>1, <1>2, HushCarries
<1> QED
  BY <1>3, WorksFace

LEMMA WorkerStepsFace ==
  ASSUME FaceInv, NEW ok \in BOOLEAN, WakeNext(ok) \/ BookRead(ok) \/ WarmStep(ok) \/ ExportStep(ok)
  PROVE  Face(Now)' /\ Carries(Now', Now, {}, {})
<1>0. /\ Sound(worker) /\ worker \in WorkerType /\ Wired(Now) /\ Now.worker = worker
      /\ worker.alive \/ worker = NoWorker
  <2>1. Now.worker = worker /\ Live(Now)
    BY DEF FaceInv, Face, Now
  <2> QED
    BY <2>1 DEF FaceInv, LockInv, WarmInv, InTypes, Sound, Wired, Now, Live
<1>a. worker.alive
  <2>1. NoWorker.woken = << >> /\ NoWorker.loads = << >> /\ ~NoWorker.warm.on /\ NoWorker.job.done = 0
    BY DEF NoWorker, NoRun
  <2> QED
    BY <1>0, <2>1 DEF WakeNext, BookRead, WarmStep, ExportStep, Replacing
<1>1. CASE WakeNext(ok)
  <2> DEFINE h == Head(worker.woken)
             w == [worker EXCEPT !.woken = Tail(worker.woken)]
             r == Resume(w, h, ok)
  <2>1. Works(r) /\ worker.woken \in Seq(HandlerType) /\ worker.woken # << >>
    BY <1>0, <1>1 DEF WakeNext, WorkerType
  <2>2. h \in HandlerType /\ Tail(worker.woken) \in Seq(HandlerType)
    BY <2>1
  <2>3. h.cmd # "loadFont" => Hush(r, worker)
    BY <1>0, <2>1, ResumeHush
  <2>4. h.cmd = "loadFont" => \A t : Handled(t, Now, r) => Carries(t, Now, {}, {})
    BY <1>0, <2>1, ResumeFontCarries
  <2>5. w \in WorkerType /\ w.alive
    BY <1>0, <1>a, <2>2 DEF WorkerType
  <2> HIDE DEF w, h
  <2>6. r.w.alive
    BY <2>2, <2>5, ResumeAnswers DEF Silent, Settles
  <2> HIDE DEF r
  <2> QED
    BY <2>1, <2>3, <2>4, <2>6, HushWorks, WorksFace
<1>2. CASE BookRead(ok)
  <2> DEFINE r == LoadEnds(worker, ok)
  <2>1. Works(r) /\ worker.loads # << >>
    BY <1>2 DEF BookRead, Replacing
  <2>2. r.w.alive
    BY <1>0, <1>a, LoadEndsSilent DEF Silent
  <2>3. \A t : Handled(t, Now, r) => Carries(t, Now, {}, {})
    BY <1>0, <2>1, LoadEndsCarries
  <2> HIDE DEF r
  <2> QED
    BY <2>1, <2>2, <2>3, WorksFace
<1>3. CASE WarmStep(ok)
  <2>1. Hush(WarmGoesOn(worker, ok), worker) /\ WarmGoesOn(worker, ok).w.alive
    BY <1>0, <1>a, <1>3, WarmGoesOnHush, WarmGoesOnSilent DEF WarmStep, Silent
  <2> QED
    BY <1>3, <2>1, HushWorks DEF WarmStep
<1>4. CASE ExportStep(ok)
  <2>1. worker.job.on
    BY <1>0, <1>4 DEF ExportStep, Sound, Alone
  <2>2. Hush(ExportGoesOn(worker, ok), worker) /\ ExportGoesOn(worker, ok).w.alive
    BY <1>0, <1>a, <2>1, ExportGoesOnHush, ExportGoesOnSettles DEF Settles
  <2> QED
    BY <1>4, <2>2, HushWorks DEF ExportStep
<1> QED
  BY <1>1, <1>2, <1>3, <1>4

-----------------------------------------------------------------------------
LEMMA FaceInit ==
  Init => FaceInv
<1>1. SUFFICES ASSUME Init PROVE Face(Now)
  BY LockInit DEF FaceInv
<1>2. /\ Now.worker = NoWorker /\ Now.inbox = << >> /\ Now.prep = [i \in Preps |-> NoPrep] /\ Now.micro = << >>
      /\ Now.page.loaded = None /\ Now.page.fontRun = "idle" /\ Now.page.face = 0 /\ Now.page.faceFor = 0
  BY <1>1 DEF Init, Now
<1>3. NoPrep.waiters = << >>
  BY DEF NoPrep
<1>4. Going(Now, "font") = {}
  BY <1>2, <1>3 DEF Going
<1> QED
  BY <1>2, <1>4, DeadFace DEF Asker, Numbered

LEMMA FaceStep ==
  FaceInv /\ [Next]_vars => FaceInv'
<1>1. SUFFICES ASSUME FaceInv, [Next]_vars PROVE Face(Now)'
  BY LockStep DEF FaceInv
<1>a. Pool \subseteq BOOLEAN /\ WarmInv
  BY <1>1, WarmAssumption DEF FaceInv, LockInv
<1>2. CASE Reader
  BY <1>1, <1>2, ReaderFace
<1>3. CASE OpeningEnds \/ IdleTime
  BY <1>1, <1>3, OpeningFace
<1>4. CASE Timers
  BY <1>1, <1>4, OutcomeType, FireWarmFace DEF Timers
<1>5. CASE Conversion
  BY <1>1, <1>a, <1>5, OutcomeType, SetsFace, ConvertStartsSets, FacePaintedSets, FontConvertedSets,
     FaceAcceptedFace DEF Conversion
<1>6. CASE Ping
  BY <1>1, <1>a, <1>6, OutcomeType, PingReplyFace DEF Ping
<1>7. CASE PoolEnds \/ EngineDies
  BY <1>1, <1>7, PoolEndsFace
<1>8. CASE Continues
  BY <1>1, <1>a, <1>8, OutcomeType, ContinueFace DEF Continues
<1>9. CASE Answers
  BY <1>1, <1>9, OutcomeType, LoadAnsweredFace, FontAnsweredFace, WarmAnsweredFace, FileAnsweredFace DEF Answers
<1>10. CASE Wakes \/ Reads \/ Spine
  BY <1>1, <1>10, OutcomeType, WorkerStepsFace DEF Wakes, Reads, Spine
<1>11. CASE UNCHANGED vars
  <2>1. Now' = Now
    BY <1>11 DEF vars, Now
  <2> QED
    BY <1>1, <2>1 DEF FaceInv
<1> QED
  BY <1>1, <1>2, <1>3, <1>4, <1>5, <1>6, <1>7, <1>8, <1>9, <1>10, <1>11 DEF Next

\* Whatever is converted, prepared, killed or given to the engine in between, an export engine that
\* the page believes ready (exportLoaded has resolved) holds the very face the page owns, unless a
\* hot sync of a newer one is due or under way: applyCustomFont and loadExportEngine never leave
\* behind an engine with an older face or none.
THEOREM ReadyEnginesHaveTheFace ==
  Spec => []FaceSynced
<1>1. Spec => []FaceInv
  BY FaceInit, FaceStep, PTL DEF Spec
<1>2. FaceInv => FaceSynced
  <2>1. SUFFICES ASSUME FaceInv PROVE FaceSynced
    OBVIOUS
  <2>2. Live(Now) /\ Owns(Now) /\ Now.page = page /\ Now.worker = worker
    BY <2>1 DEF FaceInv, Face, Now
  <2> QED
    BY <2>2 DEF Live, Owns, Has, FaceSynced
<1> QED
  BY <1>1, <1>2, PTL

===============================================================================
