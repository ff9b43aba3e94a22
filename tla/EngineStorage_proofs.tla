-------------------------- MODULE EngineStorage_proofs --------------------------
(***************************************************************************)
(* Proofs about the storage of an engine (stubs/HalStorage.h and .cpp, the *)
(* loads of src/wasm_api.cpp): for any paths, handles, sizes and limits,   *)
(* the budget is charged exactly and everything fits the working set, the  *)
(* registered face has its file, and a read of an external EPUB is true as *)
(* long as its reader does not fail after a short read.                    *)
(*                                                                         *)
(* The charge is a sum over the files that are alive, a recursive function *)
(* of the model: the first part says what such a sum is worth when files   *)
(* are added, dropped or grow.                                             *)
(***************************************************************************)
EXTENDS EngineStorage, Recursions, FiniteSetTheorems

Weights == [Blobs -> Nat]

(***************************************************************************)
(* Sums.                                                                   *)
(***************************************************************************)
\* The partial sums of w that Total is defined by.
Sums(w, f) ==
  /\ f \in [0 .. MaxBlobs -> Nat] /\ f[0] = 0
  /\ \A n \in Blobs : f[n] = f[n-1] + w[n]
  /\ Total(w) = f[MaxBlobs]

LEMMA SumsExist ==
  ASSUME NEW w \in Weights
  PROVE  \E f : Sums(w, f)
<1>0. MaxBlobs \in Nat
  BY StorageAssumption
<1> USE <1>0
<1> DEFINE F == [k \in Blobs |-> [x \in Nat |-> x + w[k]]]
           Sum(s) == s = [n \in 0 .. MaxBlobs |-> IF n = 0 THEN 0 ELSE s[n-1] + w[n]]
           f == CHOOSE s : Sum(s)
<1>1. Steps(F, MaxBlobs, Nat)
  BY DEF Steps, Blobs, Weights
<1>2. PICK g : Takes(g, F, 0, MaxBlobs, Nat)
  <2>1. MaxBlobs \in Nat /\ 0 \in Nat
    OBVIOUS
  <2> HIDE DEF F
  <2> QED
    BY <1>1, <2>1, RecursionExists
<1>3. \A k \in 1 .. MaxBlobs : g[k] = g[k-1] + w[k]
  <2>1. TAKE k \in 1 .. MaxBlobs
  <2>2. F[k] = [x \in Nat |-> x + w[k]]
    BY DEF Blobs
  <2> HIDE DEF F
  <2>3. k - 1 \in 0 .. MaxBlobs /\ g[k-1] \in Nat /\ g[k] = F[k][g[k-1]]
    BY <1>2 DEF Takes
  <2> QED
    BY <2>2, <2>3
<1>4. Sum(g)
  BY <1>2, <1>3 DEF Takes
<1>5. Sum(f)
  <2> HIDE DEF Sum
  <2> QED
    BY <1>4
<1>6. f[0] = 0 /\ \A k \in 1 .. MaxBlobs : f[k] = f[k-1] + w[k]
  <2> HIDE DEF f
  <2> QED
    BY <1>5
<1>7. DOMAIN f = 0 .. MaxBlobs /\ f = [n \in 0 .. MaxBlobs |-> f[n]]
  <2> HIDE DEF f
  <2> QED
    BY <1>5
<1>8. \A n \in 0 .. MaxBlobs : f[n] \in Nat
  <2> HIDE DEF f
  <2> DEFINE T == {n \in Nat : n <= MaxBlobs => f[n] \in Nat}
  <2>1. 0 \in T
    BY <1>6
  <2>2. ASSUME NEW n \in Nat, n \in T PROVE n + 1 \in T
    BY <1>6, <2>2 DEF Weights, Blobs
  <2>3. Nat \subseteq T
    <3> HIDE DEF T
    <3> QED
      BY <2>1, <2>2, NatSet
  <2> QED
    BY <2>3
<1>9. Total(w) = f[MaxBlobs]
  BY DEF Total
<1> HIDE DEF f
<1>10. Sums(w, f)
  BY <1>6, <1>7, <1>8, <1>9 DEF Sums, Blobs
<1> QED
  BY <1>10

LEMMA TotalNat ==
  ASSUME NEW w \in Weights
  PROVE  Total(w) \in Nat
BY SumsExist, StorageAssumption DEF Sums

\* The sum of two weights at each file is the sum of the sums.
Adds(u, v, w) == \A i \in Blobs : u[i] = v[i] + w[i]

LEMMA TotalAdds ==
  ASSUME NEW u \in Weights, NEW v \in Weights, NEW w \in Weights, Adds(u, v, w)
  PROVE  Total(u) = Total(v) + Total(w)
<1> USE StorageAssumption DEF Adds
<1>1. PICK f : Sums(v, f)
  BY SumsExist
<1>2. PICK g : Sums(w, g)
  BY SumsExist
<1>3. PICK h : Sums(u, h)
  BY SumsExist
<1> DEFINE T == {n \in Nat : n <= MaxBlobs => h[n] = f[n] + g[n]}
<1>4. 0 \in T
  BY <1>1, <1>2, <1>3 DEF Sums
<1>5. ASSUME NEW n \in Nat, n \in T PROVE n + 1 \in T
  <2>1. SUFFICES ASSUME n + 1 <= MaxBlobs PROVE h[n+1] = f[n+1] + g[n+1]
    OBVIOUS
  <2>2. n + 1 \in Blobs /\ n \in 0 .. MaxBlobs /\ (n + 1) - 1 = n
    BY <2>1 DEF Blobs
  <2>3. h[n+1] = h[n] + u[n+1] /\ f[n+1] = f[n] + v[n+1] /\ g[n+1] = g[n] + w[n+1]
    BY <1>1, <1>2, <1>3, <2>2 DEF Sums
  <2>4. h[n] = f[n] + g[n]
    BY <1>5, <2>1
  <2>5. f[n] \in Nat /\ g[n] \in Nat /\ v[n+1] \in Nat /\ w[n+1] \in Nat
    BY <1>1, <1>2, <2>2 DEF Sums, Weights
  <2> QED
    BY <2>2, <2>3, <2>4, <2>5
<1>6. Nat \subseteq T
  <2> HIDE DEF T
  <2> QED
    BY <1>4, <1>5, NatSet
<1> QED
  BY <1>1, <1>2, <1>3, <1>6 DEF Sums

\* A sum with one weight is that weight.
LEMMA TotalOne ==
  ASSUME NEW i \in Blobs, NEW w \in Weights, \A j \in Blobs \ {i} : w[j] = 0
  PROVE  Total(w) = w[i]
<1> USE StorageAssumption
<1>1. PICK f : Sums(w, f)
  BY SumsExist
<1> DEFINE T == {n \in Nat : n <= MaxBlobs => f[n] = IF n < i THEN 0 ELSE w[i]}
<1>2. 0 \in T
  BY <1>1 DEF Sums, Blobs
<1>3. ASSUME NEW n \in Nat, n \in T PROVE n + 1 \in T
  <2>1. SUFFICES ASSUME n + 1 <= MaxBlobs PROVE f[n+1] = IF n + 1 < i THEN 0 ELSE w[i]
    OBVIOUS
  <2>2. n + 1 \in Blobs /\ (n + 1) - 1 = n /\ i \in Nat
    BY <2>1 DEF Blobs
  <2>3. f[n+1] = f[n] + w[n+1]
    BY <1>1, <2>2 DEF Sums
  <2>4. f[n] = IF n < i THEN 0 ELSE w[i]
    BY <1>3, <2>1
  <2>5. w[i] \in Nat
    BY DEF Weights
  <2> QED
    BY <2>2, <2>3, <2>4, <2>5
<1>4. Nat \subseteq T
  <2> HIDE DEF T
  <2> QED
    BY <1>2, <1>3, NatSet
<1> QED
  BY <1>1, <1>4 DEF Sums, Blobs

LEMMA TotalZero ==
  ASSUME NEW w \in Weights, \A i \in Blobs : w[i] = 0
  PROVE  Total(w) = 0
BY TotalOne, StorageAssumption DEF Blobs

-----------------------------------------------------------------------------
(***************************************************************************)
(* The charge of a set of files.                                           *)
(***************************************************************************)
BlobType == [live : BOOLEAN, size : Nat, cap : Nat]
StoreType ==
  [files : [Names -> {None} \cup Blobs], blobs : [Blobs -> BlobType], used : Nat, limit : 0 .. DefaultLimit]
Live(s) == {i \in Blobs : s.blobs[i].live}
Weight(s, ids) == [i \in Blobs |-> IF i \in ids THEN s.blobs[i].cap ELSE 0]

LEMMA WeightType ==
  ASSUME NEW s \in StoreType, NEW ids
  PROVE  Weight(s, ids) \in Weights /\ Caps(s, ids) = Total(Weight(s, ids)) /\ Caps(s, ids) \in Nat
<1>1. \A i \in Blobs : s.blobs[i].cap \in Nat
  BY DEF StoreType, BlobType
<1>2. Weight(s, ids) \in Weights
  BY <1>1 DEF Weight, Weights
<1>3. Caps(s, ids) = Total(Weight(s, ids))
  BY DEF Caps, Weight
<1> QED
  BY <1>2, <1>3, TotalNat

\* Two charges are the same when each file contributes the same to both.
LEMMA CapsAgree ==
  ASSUME NEW s, NEW t, NEW ids, NEW jds, Weight(s, ids) = Weight(t, jds)
  PROVE  Caps(s, ids) = Caps(t, jds)
BY DEF Caps, Weight

\* What some of the files are charged for, and what the others are.
LEMMA CapsSplit ==
  ASSUME NEW s \in StoreType, NEW ids, NEW part, part \subseteq ids
  PROVE  Caps(s, ids) = Caps(s, ids \ part) + Caps(s, part)
<1>1. \A i \in Blobs : s.blobs[i].cap \in Nat
  BY DEF StoreType, BlobType
<1>2. Adds(Weight(s, ids), Weight(s, ids \ part), Weight(s, part))
  BY <1>1 DEF Weight, Adds
<1>3. /\ Weight(s, ids) \in Weights /\ Weight(s, ids \ part) \in Weights /\ Weight(s, part) \in Weights
      /\ Caps(s, ids) = Total(Weight(s, ids)) /\ Caps(s, part) = Total(Weight(s, part))
      /\ Caps(s, ids \ part) = Total(Weight(s, ids \ part))
  BY WeightType
<1> QED
  BY <1>2, <1>3, TotalAdds

LEMMA CapsOfOne ==
  ASSUME NEW s \in StoreType, NEW i \in Blobs
  PROVE  Caps(s, {i}) = s.blobs[i].cap
<1>1. Weight(s, {i})[i] = s.blobs[i].cap /\ \A j \in Blobs \ {i} : Weight(s, {i})[j] = 0
  BY DEF Weight
<1> QED
  BY <1>1, WeightType, TotalOne

LEMMA CapsOfNone ==
  ASSUME NEW s \in StoreType, NEW ids, \A i \in ids \cap Blobs : s.blobs[i].cap = 0
  PROVE  Caps(s, ids) = 0
<1>1. \A i \in Blobs : Weight(s, ids)[i] = 0
  BY DEF Weight
<1> QED
  BY <1>1, WeightType, TotalZero

-----------------------------------------------------------------------------
(***************************************************************************)
(* The store of generated files: typed, charged exactly, within its limit. *)
(***************************************************************************)
Charged(s) == s.used = Caps(s, Live(s))
StoreOK(s) ==
  /\ s \in StoreType
  /\ \A i \in Blobs : s.blobs[i].size <= s.blobs[i].cap
  /\ Charged(s) /\ s.used <= s.limit

HandleType == [Handles -> {None} \cup Blobs]
Kept(s, hs) == Mounted(s) \cup Held(hs)

\* Dropping what nothing refers to keeps the charge exact, and frees only.
LEMMA SettledOK ==
  ASSUME NEW s, StoreOK(s), NEW hs \in HandleType, Kept(s, hs) \subseteq Live(s)
  PROVE  /\ StoreOK(Settled(s, hs)) /\ Live(Settled(s, hs)) = Kept(s, hs)
         /\ Settled(s, hs).files = s.files /\ Settled(s, hs).limit = s.limit
         /\ Settled(s, hs).used <= s.used
<1> DEFINE t == Settled(s, hs)
           kept == Kept(s, hs)
           dead == Live(s) \ kept
<1>1. s \in StoreType
  BY DEF StoreOK
<1>2. /\ t = [s EXCEPT !.blobs = t.blobs, !.used = t.used]
      /\ t.files = s.files /\ t.limit = s.limit
      /\ t.blobs = [i \in Blobs |-> IF i \in kept THEN s.blobs[i] ELSE NoBlob]
      /\ t.used = Most(0, s.used - Caps(s, dead))
  <2> DEFINE blobs == [i \in Blobs |-> IF i \in kept THEN s.blobs[i] ELSE NoBlob]
             used == Most(0, s.used - Caps(s, dead))
  <2>1. t = [s EXCEPT !.blobs = blobs, !.used = used]
    BY DEF Settled, Kept, Live
  <2> HIDE DEF blobs, used, t
  <2>2. t.blobs = blobs /\ t.used = used /\ t.files = s.files /\ t.limit = s.limit
    BY <1>1, <2>1 DEF StoreType
  <2> QED
    BY <2>1, <2>2 DEF blobs, used
<1>3. t.used = Caps(s, kept) /\ t.used \in Nat /\ t.used <= s.used
  <2>1. Live(s) \ dead = kept /\ dead \subseteq Live(s)
    OBVIOUS
  <2>2. Caps(s, Live(s)) = Caps(s, kept) + Caps(s, dead)
    BY <1>1, <2>1, CapsSplit
  <2>3. s.used = Caps(s, kept) + Caps(s, dead)
    BY <2>2 DEF StoreOK, Charged
  <2>4. Caps(s, kept) \in Nat /\ Caps(s, dead) \in Nat
    BY <1>1, WeightType
  <2> QED
    BY <1>2, <2>3, <2>4 DEF Most
<1>4. NoBlob \in BlobType /\ NoBlob.size <= NoBlob.cap /\ ~NoBlob.live
  BY DEF NoBlob, BlobType
<1>5. t \in StoreType
  <2>1. t.blobs \in [Blobs -> BlobType]
    BY <1>1, <1>2, <1>4 DEF StoreType
  <2> QED
    BY <1>1, <1>2, <1>3, <2>1 DEF StoreType
<1>6. \A i \in Blobs : t.blobs[i].size <= t.blobs[i].cap
  BY <1>2, <1>4 DEF StoreOK
<1>7. Live(t) = kept
  BY <1>2, <1>4 DEF Live
<1>8. Charged(t)
  <2>1. Weight(s, kept) = Weight(t, kept)
    BY <1>2 DEF Weight
  <2> QED
    BY <1>3, <1>7, <2>1, CapsAgree DEF Charged
<1>9. t.used <= t.limit
  BY <1>1, <1>2, <1>3 DEF StoreOK, StoreType
<1> QED
  BY <1>2, <1>3, <1>5, <1>6, <1>7, <1>8, <1>9 DEF StoreOK

LEMMA WithLimitOK ==
  ASSUME NEW s, StoreOK(s), NEW limit \in 0 .. DefaultLimit
  PROVE  /\ StoreOK(WithLimit(s, limit)) /\ Live(WithLimit(s, limit)) = Live(s)
         /\ WithLimit(s, limit).files = s.files /\ WithLimit(s, limit).used = s.used
         /\ WithLimit(s, limit).limit = IF limit < s.used THEN s.limit ELSE limit
<1>1. CASE limit < s.used
  BY <1>1 DEF WithLimit
<1>2. CASE ~(limit < s.used)
  <2> DEFINE t == WithLimit(s, limit)
  <2>1. s \in StoreType
    BY DEF StoreOK
  <2>2. t = [s EXCEPT !.limit = limit]
    BY <1>2 DEF WithLimit
  <2>3. t \in StoreType /\ t.files = s.files /\ t.used = s.used /\ t.limit = limit /\ t.blobs = s.blobs
    BY <2>1, <2>2 DEF StoreType
  <2>4. Live(t) = Live(s) /\ Weight(t, Live(s)) = Weight(s, Live(s))
    BY <2>3 DEF Live, Weight
  <2>5. Charged(t)
    BY <2>3, <2>4, CapsAgree DEF Charged, StoreOK
  <2>6. t.used <= t.limit
    BY <1>2, <2>1, <2>3 DEF StoreType
  <2> QED
    BY <1>2, <2>3, <2>4, <2>5, <2>6 DEF StoreOK
<1> QED
  BY <1>1, <1>2

LEMMA NarrowedOK ==
  ASSUME NEW s, StoreOK(s), NEW resident \in Nat
  PROVE  /\ StoreOK(Narrowed(s, resident)) /\ Live(Narrowed(s, resident)) = Live(s)
         /\ Narrowed(s, resident).files = s.files /\ Narrowed(s, resident).used = s.used
         /\ s.used = 0 \/ Narrowed(s, resident).limit # s.limit =>
              Narrowed(s, resident).limit <= Most(0, Room - resident)
<1> DEFINE limit == Least(Most(0, Room - resident), DefaultLimit)
<1>1. limit \in 0 .. DefaultLimit /\ limit <= Most(0, Room - resident) /\ Most(0, Room - resident) >= 0
  BY StorageAssumption DEF Least, Most
<1>2. Narrowed(s, resident) = WithLimit(s, limit)
  BY DEF Narrowed
<1> HIDE DEF limit
<1> QED
  BY <1>1, <1>2, WithLimitOK

\* Paths are given to other files, or taken away.
LEMMA PathsOK ==
  ASSUME NEW s, StoreOK(s), NEW files \in [Names -> {None} \cup Blobs]
  PROVE  /\ StoreOK([s EXCEPT !.files = files]) /\ Live([s EXCEPT !.files = files]) = Live(s)
         /\ [s EXCEPT !.files = files].files = files
         /\ [s EXCEPT !.files = files].used = s.used /\ [s EXCEPT !.files = files].limit = s.limit
<1> DEFINE t == [s EXCEPT !.files = files]
<1>1. s \in StoreType
  BY DEF StoreOK
<1>2. t \in StoreType /\ t.files = files /\ t.blobs = s.blobs /\ t.used = s.used /\ t.limit = s.limit
  BY <1>1 DEF StoreType
<1>3. Live(t) = Live(s) /\ Weight(t, Live(s)) = Weight(s, Live(s))
  BY <1>2 DEF Live, Weight
<1>4. Charged(t)
  BY <1>2, <1>3, CapsAgree DEF Charged, StoreOK
<1> QED
  BY <1>2, <1>3, <1>4 DEF StoreOK

\* The end of a book leaves no file, no charge and the widest limit.
LEMMA EmptiedOK ==
  ASSUME NEW s, StoreOK(s)
  PROVE  /\ StoreOK(Emptied(s)) /\ Live(Emptied(s)) = {} /\ Mounted(Emptied(s)) = {}
         /\ Emptied(s).used = 0 /\ Emptied(s).limit = DefaultLimit
<1> DEFINE files == [n \in Names |-> None]
           hs == [h \in Handles |-> None]
           t == [s EXCEPT !.files = files]
           u == Settled(t, hs)
<1>1. /\ files \in [Names -> {None} \cup Blobs] /\ hs \in HandleType
      /\ {files[n] : n \in Names} \ {None} = {} /\ Held(hs) = {}
  BY DEF HandleType, Held
<1>2. Emptied(s) = WithLimit(u, DefaultLimit)
  BY DEF Emptied
<1> HIDE DEF files, hs
<1>3. StoreOK(t) /\ t.files = files
  BY <1>1, PathsOK
<1>4. Kept(t, hs) = {}
  BY <1>1, <1>3 DEF Kept, Mounted
<1> HIDE DEF t
<1>5. StoreOK(u) /\ Live(u) = {} /\ u.files = files
  BY <1>1, <1>3, <1>4, SettledOK
<1> HIDE DEF u
<1>6. u.used = 0
  BY <1>5, CapsOfNone DEF StoreOK, Charged
<1>7. DefaultLimit \in 0 .. DefaultLimit /\ ~(DefaultLimit < u.used)
  BY <1>6, StorageAssumption
<1> DEFINE v == WithLimit(u, DefaultLimit)
<1>8. /\ StoreOK(v) /\ Live(v) = Live(u) /\ v.files = u.files /\ v.used = u.used
      /\ v.limit = DefaultLimit
  BY <1>5, <1>7, WithLimitOK
<1>9. Mounted(v) = {}
  BY <1>1, <1>5, <1>8 DEF Mounted
<1> QED
  BY <1>2, <1>5, <1>6, <1>8, <1>9

\* A file that is alive gets another allocation.
LEMMA AllocationChanges ==
  ASSUME NEW s \in StoreType, Charged(s), NEW i \in Live(s),
         NEW t \in StoreType, Live(t) = Live(s), \A j \in Blobs \ {i} : t.blobs[j] = s.blobs[j]
  PROVE  /\ Caps(t, Live(t)) = s.used - s.blobs[i].cap + t.blobs[i].cap
         /\ s.used - s.blobs[i].cap \in Nat
<1> DEFINE others == Live(s) \ {i}
<1>1. i \in Blobs /\ {i} \subseteq Live(s)
  BY DEF Live
<1>2. Caps(s, Live(s)) = Caps(s, others) + s.blobs[i].cap
  <2>1. Caps(s, Live(s)) = Caps(s, others) + Caps(s, {i})
    BY <1>1, CapsSplit
  <2> QED
    BY <1>1, <2>1, CapsOfOne
<1>3. Caps(t, Live(t)) = Caps(t, others) + t.blobs[i].cap
  <2>1. Caps(t, Live(t)) = Caps(t, others) + Caps(t, {i})
    BY <1>1, CapsSplit
  <2> QED
    BY <1>1, <2>1, CapsOfOne
<1>4. Weight(s, others) = Weight(t, others)
  BY DEF Weight
<1>5. Caps(s, others) = Caps(t, others)
  BY <1>4, CapsAgree
<1>6. Caps(s, others) \in Nat /\ s.blobs[i].cap \in Nat /\ t.blobs[i].cap \in Nat
  BY <1>1, WeightType DEF StoreType, BlobType
<1> QED
  BY <1>2, <1>3, <1>5, <1>6 DEF Charged

\* What a reservation leaves: enough when it succeeds, an exact charge within the limit in any case.
ReservationOK(r, s, i, wanted) ==
  /\ StoreOK(r.s) /\ Live(r.s) = Live(s) /\ r.s.files = s.files /\ r.s.limit = s.limit
  /\ r.ok \in BOOLEAN /\ r.ok => wanted <= r.s.blobs[i].cap

LEMMA ReservedOK ==
  ASSUME NEW s, StoreOK(s), NEW i \in Live(s), NEW wanted \in Nat, NEW slack \in Nat
  PROVE  ReservationOK(Reserved(s, i, wanted, slack), s, i, wanted)
<1> USE DEF ReservationOK
<1> DEFINE b == s.blobs[i]
           other == s.used - b.cap
           available == s.limit - other
           actual == Least(Most(wanted, 2 * b.cap), available) + slack
           r == Reserved(s, i, wanted, slack)
<1>1. s \in StoreType /\ i \in Blobs /\ b \in BlobType /\ b.live
  BY DEF StoreOK, StoreType, Live
<1>2. other \in Nat
  BY <1>1, AllocationChanges DEF StoreOK
<1>3. /\ b.cap \in Nat /\ s.limit \in Nat /\ s.used \in Nat /\ s.used <= s.limit
      /\ other = s.used - b.cap /\ available = s.limit - other
  BY <1>1, StorageAssumption DEF StoreOK, StoreType, BlobType
<1>4. CASE wanted <= b.cap
  <2>1. r = [ok |-> TRUE, s |-> s]
    BY <1>3, <1>4 DEF Reserved
  <2> QED
    BY <1>4, <2>1
<1>5. CASE wanted > b.cap /\ wanted > available
  <2>1. r = [ok |-> FALSE, s |-> s]
    BY <1>3, <1>5 DEF Reserved
  <2> QED
    BY <2>1
<1>6. CASE wanted > b.cap /\ wanted <= available /\ actual > available
  <2> DEFINE t == [s EXCEPT !.blobs[i] = NewBlob, !.used = other]
  <2>1. r = [ok |-> FALSE, s |-> t]
    BY <1>3, <1>6 DEF Reserved
  <2> HIDE DEF other
  <2>2. NewBlob \in BlobType /\ NewBlob.live /\ NewBlob.cap = 0 /\ NewBlob.size = 0
    BY DEF NewBlob, NoBlob, BlobType
  <2>3. /\ t \in StoreType /\ t.files = s.files /\ t.limit = s.limit /\ t.used = other
        /\ t.blobs[i] = NewBlob /\ \A j \in Blobs \ {i} : t.blobs[j] = s.blobs[j]
    BY <1>1, <1>2, <2>2 DEF StoreType
  <2> HIDE DEF t
  <2>4. Live(t) = Live(s)
    BY <1>1, <2>2, <2>3 DEF Live
  <2>5. Caps(t, Live(t)) = other + t.blobs[i].cap
    BY <1>1, <1>3, <2>3, <2>4, AllocationChanges DEF StoreOK
  <2>6. Charged(t) /\ t.used <= t.limit
    BY <1>2, <1>3, <2>2, <2>3, <2>5 DEF Charged
  <2>7. \A j \in Blobs : t.blobs[j].size <= t.blobs[j].cap
    BY <2>2, <2>3 DEF StoreOK
  <2>8. StoreOK(t)
    BY <2>3, <2>6, <2>7 DEF StoreOK
  <2> QED
    BY <2>1, <2>3, <2>4, <2>8
<1>7. CASE wanted > b.cap /\ wanted <= available /\ actual <= available
  <2> DEFINE t == [s EXCEPT !.blobs[i].cap = actual, !.used = other + actual]
  <2>1. r = [ok |-> TRUE, s |-> t]
    <3>1. ~(wanted <= b.cap) /\ ~(wanted > available) /\ ~(actual > available)
      BY <1>3, <1>7 DEF Least, Most
    <3> QED
      BY <3>1 DEF Reserved
  <2>2. actual \in Nat /\ wanted <= actual /\ b.cap <= actual
    BY <1>3, <1>7 DEF Least, Most
  <2>3. other + actual \in Nat /\ other + actual <= s.limit
    BY <1>2, <1>3, <1>7, <2>2
  <2> HIDE DEF other, actual
  <2>4. /\ t \in StoreType /\ t.files = s.files /\ t.limit = s.limit /\ t.used = other + actual
        /\ t.blobs[i].cap = actual /\ t.blobs[i].live = b.live /\ t.blobs[i].size = b.size
        /\ \A j \in Blobs \ {i} : t.blobs[j] = s.blobs[j]
    BY <1>1, <2>2, <2>3 DEF StoreType, BlobType
  <2> HIDE DEF t
  <2>5. Live(t) = Live(s)
    BY <1>1, <2>4 DEF Live
  <2>6. Caps(t, Live(t)) = other + actual
    BY <1>1, <1>3, <2>4, <2>5, AllocationChanges DEF StoreOK
  <2>7. \A j \in Blobs : t.blobs[j].size <= t.blobs[j].cap
    <3>1. b.size \in Nat /\ b.size <= b.cap
      BY <1>1 DEF StoreOK, BlobType
    <3> QED
      BY <1>3, <2>2, <2>4, <3>1 DEF StoreOK
  <2>8. StoreOK(t)
    BY <2>3, <2>4, <2>6, <2>7 DEF StoreOK, Charged
  <2> QED
    BY <2>1, <2>2, <2>4, <2>5, <2>8
<1>8. actual \in Int /\ available \in Int
  BY <1>3 DEF Least, Most
<1> HIDE DEF actual, available, r
<1> QED
  BY <1>3, <1>4, <1>5, <1>6, <1>7, <1>8

-----------------------------------------------------------------------------
(***************************************************************************)
(* The inductive invariant.                                                *)
(***************************************************************************)
SourceType ==
  [kind : {"none", "copy", "owned", "external"}, size : {0} \cup Sizes, allocated : BOOLEAN,
   filled : BOOLEAN, start : Nat, valid : 0 .. Window, bytes : [0 .. Window - 1 -> Int]]
LoadType == [step : {"none", "reading", "opening", "open"}, buffer : {0} \cup Sizes]
FaceType == [now : 0 .. MaxFaces, files : SUBSET (1 .. MaxFaces), tries : 0 .. MaxFaces]

StoreInv == StoreOK(store) /\ handle \in HandleType /\ Kept(store, handle) \subseteq Live(store)
FaceInv == face \in FaceType /\ face.now <= face.tries /\ FaceHasFile
LoadInv ==
  /\ load \in LoadType /\ source \in SourceType
  /\ load.step = "reading" => load.buffer \in Sizes
  /\ source.kind # "none" => source.size \in Sizes
  /\ WorkingSetFits

\* A window that is filled holds the bytes it is described to hold.
WindowTrue(w) == w.filled => \A i \in 0 .. Window - 1 : i < w.valid => w.bytes[i] = w.start + i
ReadInv == ~Torn => WindowTrue(source) /\ ReadsAreTrue

StorageInv == StoreInv /\ FaceInv /\ LoadInv /\ ReadInv

\* A step that reads nothing leaves nothing to be true or false.
LEMMA NothingRead ==
  ASSUME seen' = NoRead
  PROVE  ReadsAreTrue'
<1>1. seen'.bytes = << >>
  BY DEF NoRead
<1> QED
  BY <1>1 DEF ReadsAreTrue

\* A source that has just been mounted, or none, has no window yet.
LEMMA UnreadOK ==
  ASSUME NEW kind \in {"none", "copy", "owned", "external"}, NEW size \in {0} \cup Sizes
  PROVE  LET w == Unread(kind, size)
         IN  w \in SourceType /\ WindowTrue(w) /\ w.kind = kind /\ w.size = size
<1>1. Empty \in [0 .. Window - 1 -> Int] /\ 0 \in 0 .. Window
  BY StorageAssumption DEF Empty
<1>2. Unread(kind, size) \in SourceType
  BY <1>1 DEF SourceType, Unread
<1>3. WindowTrue(Unread(kind, size))
  BY Zenon DEF WindowTrue, Unread
<1> QED
  BY <1>2, <1>3 DEF Unread

LEMMA SizesNat == {0} \cup Sizes \subseteq Nat
BY StorageAssumption

LEMMA SizesFit ==
  ASSUME NEW size \in Sizes
  PROVE  size \in Nat /\ 0 < size /\ size <= BookLimit /\ size + 0 <= size
<1>1. size \in 1 .. BookLimit /\ BookLimit \in Nat
  BY StorageAssumption
<1> QED
  BY <1>1

LEMMA TotalBytesNat ==
  ASSUME StoreOK(store), source \in SourceType, face \in FaceType
  PROVE  TotalBytes \in Nat
<1>1. Cardinality(face.files) \in Nat
  <2>1. IsFiniteSet(1 .. MaxFaces) /\ face.files \subseteq 1 .. MaxFaces
    BY FS_Interval, StorageAssumption DEF FaceType
  <2>2. IsFiniteSet(face.files)
    BY <2>1, FS_Subset
  <2> QED
    BY <2>2, FS_CardinalityType
<1>2. Caps(store, Mounted(store)) \in Nat
  BY WeightType DEF StoreOK
<1>3. source.size \in Nat
  <2>1. source.size \in {0} \cup Sizes
    BY DEF SourceType
  <2> QED
    BY <2>1, SizesNat
<1>4. (IF source.kind = "external" THEN (IF source.allocated THEN 1 ELSE 0) ELSE source.size) \in Nat
  BY <1>3
<1> QED
  BY <1>1, <1>2, <1>4 DEF TotalBytes

LEMMA FaceDroppedOK ==
  ASSUME FaceInv, FaceDropped
  PROVE  FaceInv'
<1>1. face \in FaceType
  BY DEF FaceInv
<1>2. face' = [now |-> None, files |-> {}, tries |-> face.tries]
  BY <1>1 DEF FaceDropped, NoFace, FaceType
<1> QED
  BY <1>1, <1>2, StorageAssumption DEF FaceInv, FaceHasFile, FaceType, None

\* A load drops everything of the old book and leaves the files of the new one what is left.
LEMMA BeginsOK ==
  ASSUME StorageInv, NEW resident \in Nat, Begins(resident)
  PROVE  StoreInv' /\ FaceInv' /\ ReadsAreTrue' /\ store'.limit <= Most(0, Room - resident)
<1> DEFINE s == Emptied(store)
<1>1. StoreOK(s) /\ Live(s) = {} /\ Mounted(s) = {} /\ s.used = 0
  BY EmptiedOK DEF StorageInv, StoreInv
<1>2. store' = Narrowed(s, resident) /\ handle' = [h \in Handles |-> None]
  BY DEF Begins
<1> HIDE DEF s
<1>3. StoreOK(store') /\ store'.files = s.files /\ store'.limit <= Most(0, Room - resident)
  BY <1>1, <1>2, NarrowedOK
<1>4. Mounted(store') = {} /\ handle' \in HandleType /\ Held(handle') = {}
  BY <1>1, <1>2, <1>3 DEF Mounted, Held, HandleType
<1>5. StoreInv'
  BY <1>3, <1>4 DEF StoreInv, Kept
<1> QED
  BY <1>3, <1>5, FaceDroppedOK, NothingRead DEF Begins, StorageInv

\* No book: whatever was there is gone.
LEMMA UnloadOK ==
  ASSUME StorageInv, Unload
  PROVE  StorageInv'
<1>1. StoreOK(store') /\ Mounted(store') = {}
  BY EmptiedOK DEF Unload, StorageInv, StoreInv
<1>2. handle' \in HandleType /\ Held(handle') = {}
  BY DEF Unload, Held, HandleType
<1>3. StoreInv'
  BY <1>1, <1>2 DEF StoreInv, Kept
<1>4. source' \in SourceType /\ WindowTrue(source') /\ source'.kind = "none"
  <2>1. source' = Unread("none", 0)
    BY DEF Unload, NoSource
  <2> QED
    BY <2>1, UnreadOK
<1>5. load' \in LoadType /\ load'.step = "none" /\ load'.buffer = 0
  BY DEF Unload, LoadType
<1>6. LoadInv'
  BY <1>1, <1>4, <1>5 DEF LoadInv, WorkingSetFits, Working, StoreOK
<1>7. FaceInv' /\ ReadInv'
  BY <1>4, FaceDroppedOK, NothingRead DEF Unload, StorageInv, ReadInv
<1> QED
  BY <1>3, <1>6, <1>7 DEF StorageInv

\* The book that is mounted, the copy the caller still has, and the limit of the files fit.
LEMMA MountFits ==
  ASSUME StorageInv, NEW resident \in Nat, Begins(resident), resident <= Room,
         NEW kind \in {"copy", "owned", "external"}, NEW size \in Sizes, NEW buffer \in {0} \cup Sizes,
         Mount(kind, size, buffer),
         (IF kind = "external" THEN 0 ELSE size) + buffer <= resident
  PROVE  StorageInv'
<1>1. StoreInv' /\ FaceInv' /\ ReadsAreTrue' /\ store'.limit <= Most(0, Room - resident)
  BY BeginsOK
<1>2. source' \in SourceType /\ WindowTrue(source') /\ source'.kind = kind /\ source'.size = size
  <2>1. source' = Unread(kind, size)
    BY DEF Mount
  <2>2. kind \in {"none", "copy", "owned", "external"} /\ size \in {0} \cup Sizes
    OBVIOUS
  <2> QED
    BY <2>1, <2>2, UnreadOK
<1>3. load' \in LoadType /\ load'.step = "opening" /\ load'.buffer = buffer
  BY DEF Mount, LoadType
<1>4. store'.limit \in Nat /\ store'.used <= store'.limit
  BY <1>1, StorageAssumption DEF StoreInv, StoreOK, StoreType
<1>5. (IF source'.kind = "external" THEN 0 ELSE source'.size) + load'.buffer + store'.limit <= Room
  <2>1. Room \in Nat /\ size \in Nat /\ buffer \in Nat
    BY StorageAssumption
  <2>2. store'.limit <= Room - resident
    BY <1>1, <2>1 DEF Most
  <2> QED
    BY <1>2, <1>3, <1>4, <2>1, <2>2
<1>6. LoadInv'
  BY <1>2, <1>3, <1>4, <1>5 DEF LoadInv, WorkingSetFits
<1> QED
  BY <1>1, <1>2, <1>6 DEF StorageInv, ReadInv

-----------------------------------------------------------------------------
(***************************************************************************)
(* Loads and faces preserve the invariant.                                 *)
(***************************************************************************)
LEMMA AllocateBookStep ==
  ASSUME StorageInv, NEW size \in Sizes, AllocateBook(size)
  PROVE  StorageInv'
<1>1. CASE size > OwnedLimit \/ ~Allows(size)
  BY <1>1, UnloadOK DEF AllocateBook
<1>2. CASE ~(size > OwnedLimit \/ ~Allows(size))
  <2>1. /\ load' = [step |-> "reading", buffer |-> size] /\ seen' = NoRead
        /\ UNCHANGED <<store, handle, source, face>>
    BY <1>2 DEF AllocateBook
  <2>2. StoreInv' /\ FaceInv'
    BY <2>1 DEF StorageInv, StoreInv, FaceInv, FaceHasFile
  <2>3. load'.step = "reading" /\ load'.buffer = size /\ load' \in LoadType
    BY <2>1 DEF LoadType
  <2>4. load'.buffer + TotalBytes' <= Room
    <3>1. TotalBytes' = TotalBytes
      BY <2>1 DEF TotalBytes
    <3>2. TotalBytes + size <= Room /\ TotalBytes \in Int /\ size \in Int
      BY <1>2, TotalBytesNat, StorageAssumption DEF Allows, StorageInv, StoreInv, LoadInv, FaceInv
    <3> QED
      BY <2>3, <3>1, <3>2
  <2>5. LoadInv'
    BY <2>1, <2>3, <2>4 DEF StorageInv, LoadInv, WorkingSetFits, Working
  <2>6. ReadInv'
    BY <2>1, NothingRead DEF StorageInv, ReadInv
  <2> QED
    BY <2>2, <2>5, <2>6 DEF StorageInv
<1> QED
  BY <1>1, <1>2

LEMMA LoadOwnedStep ==
  ASSUME StorageInv, LoadOwned
  PROVE  StorageInv'
<1>1. load.buffer \in Sizes /\ Begins(load.buffer) /\ Mount("owned", load.buffer, 0)
  BY DEF LoadOwned, StorageInv, LoadInv
<1>2. load.buffer \in Nat /\ load.buffer <= Room /\ load.buffer + 0 <= load.buffer
  <2>1. load.buffer + TotalBytes <= Room /\ TotalBytes \in Nat
    BY TotalBytesNat DEF LoadOwned, StorageInv, StoreInv, LoadInv, FaceInv, WorkingSetFits
  <2>2. load.buffer \in Nat /\ load.buffer + 0 <= load.buffer /\ Room \in Nat
    BY <1>1, SizesFit, StorageAssumption
  <2> QED
    BY <2>1, <2>2
<1>3. (IF "owned" = "external" THEN 0 ELSE load.buffer) + 0 <= load.buffer
  BY <1>2
<1> QED
  BY <1>1, <1>2, <1>3, MountFits

LEMMA LoadCopyStep ==
  ASSUME StorageInv, NEW size \in Sizes, LoadCopy(size)
  PROVE  StorageInv'
<1>1. CASE ~Allows(size)
  BY <1>1, UnloadOK DEF LoadCopy
<1>2. CASE Allows(size)
  <2>1. Begins(2 * size) /\ Mount("copy", size, size)
    BY <1>2 DEF LoadCopy
  <2>2. 2 * size \in Nat /\ 2 * size <= Room /\ size + size <= 2 * size
    <3>1. size \in Nat /\ CopyLimit \in Nat /\ Room \in Nat /\ size <= CopyLimit /\ 2 * CopyLimit <= Room
      BY StorageAssumption, SizesFit DEF LoadCopy
    <3> QED
      BY <3>1
  <2>3. (IF "copy" = "external" THEN 0 ELSE size) + size <= 2 * size
    BY <2>2
  <2> QED
    BY <2>1, <2>2, <2>3, MountFits
<1> QED
  BY <1>1, <1>2

LEMMA LoadExternalStep ==
  ASSUME StorageInv, NEW size \in Sizes, LoadExternal(size)
  PROVE  StorageInv'
<1>1. Begins(0) /\ Mount("external", size, 0)
  BY DEF LoadExternal
<1>2. 0 \in Nat /\ 0 <= Room /\ (IF "external" = "external" THEN 0 ELSE size) + 0 <= 0
  BY StorageAssumption
<1> QED
  BY <1>1, <1>2, MountFits

\* The limit of a copied book is relaxed, never beyond what the copy leaves.
LEMMA BookOpensStep ==
  ASSUME StorageInv, BookOpens
  PROVE  StorageInv'
<1>1. /\ load.step = "opening" /\ load' = [step |-> "open", buffer |-> 0] /\ seen' = NoRead
      /\ UNCHANGED <<handle, source, face>>
  BY DEF BookOpens
<1>2. source.size \in Nat /\ load.buffer \in Nat /\ Room \in Nat /\ store.limit \in Nat
  <2>1. source.size \in {0} \cup Sizes /\ load.buffer \in {0} \cup Sizes
    BY DEF StorageInv, LoadInv, SourceType, LoadType
  <2>2. store.limit \in Nat
    BY StorageAssumption DEF StorageInv, StoreInv, StoreOK, StoreType
  <2> QED
    BY <2>1, <2>2, SizesNat, StorageAssumption
<1>3. (IF source.kind = "external" THEN 0 ELSE source.size) + load.buffer + store.limit <= Room
  BY <1>1 DEF StorageInv, LoadInv, WorkingSetFits, Working
<1>4. /\ StoreOK(store') /\ Live(store') = Live(store) /\ store'.files = store.files
      /\ (IF source.kind = "external" THEN 0 ELSE source.size) + store'.limit <= Room
  <2>1. CASE source.kind # "copy"
    BY <1>2, <1>3, <2>1 DEF BookOpens, StorageInv, StoreInv
  <2>2. CASE source.kind = "copy"
    <3>1. store' = Narrowed(store, source.size)
      BY <2>2 DEF BookOpens
    <3>2. /\ StoreOK(store') /\ Live(store') = Live(store) /\ store'.files = store.files
          /\ store'.limit # store.limit => store'.limit <= Most(0, Room - source.size)
      BY <1>2, <3>1, NarrowedOK DEF StorageInv, StoreInv
    <3>3. source.size + load.buffer + store.limit <= Room
      BY <1>3, <2>2
    <3>4. store'.limit \in Nat
      BY <3>2, StorageAssumption DEF StoreOK, StoreType
    <3>5. source.size + store'.limit <= Room
      <4>1. CASE store'.limit = store.limit
        BY <1>2, <3>3, <4>1
      <4>2. CASE store'.limit # store.limit
        BY <1>2, <3>2, <3>3, <3>4, <4>2 DEF Most
      <4> QED
        BY <4>1, <4>2
    <3> QED
      BY <2>2, <3>2, <3>5
  <2> QED
    BY <2>1, <2>2
<1>5. StoreInv'
  BY <1>1, <1>4 DEF StorageInv, StoreInv, Kept, Mounted
<1>6. load' \in LoadType /\ load'.step = "open" /\ load'.buffer = 0
  BY <1>1 DEF LoadType
<1>7. LoadInv'
  <2>1. store'.limit \in Nat /\ store'.used <= store'.limit
    BY <1>4, StorageAssumption DEF StoreOK, StoreType
  <2>2. (IF source'.kind = "external" THEN 0 ELSE source'.size) + load'.buffer + store'.limit <= Room
    BY <1>1, <1>2, <1>4, <1>6, <2>1
  <2>3. source' \in SourceType /\ (source'.kind # "none" => source'.size \in Sizes)
    BY <1>1 DEF StorageInv, LoadInv
  <2> QED
    BY <1>6, <2>1, <2>2, <2>3 DEF LoadInv, WorkingSetFits
<1>8. FaceInv' /\ ReadInv'
  BY <1>1, NothingRead DEF StorageInv, FaceInv, FaceHasFile, ReadInv
<1> QED
  BY <1>5, <1>7, <1>8 DEF StorageInv

LEMMA LoadsStep ==
  ASSUME StorageInv, Loads
  PROVE  StorageInv'
BY AllocateBookStep, LoadOwnedStep, LoadCopyStep, LoadExternalStep, BookOpensStep, UnloadOK
   DEF Loads, ReadFails, BookFails

\* The face that is registered keeps its file, another one that is accepted takes its place.
LEMMA FacesStep ==
  ASSUME StorageInv, FaceSteps
  PROVE  StorageInv'
<1>1. MayLoad /\ seen' = NoRead /\ UNCHANGED <<store, handle, source, load>>
  BY DEF FaceSteps, LoadFace, ClearFace
<1>2. face \in FaceType /\ face.now <= face.tries /\ face.files = {face.now} \ {None}
  BY DEF StorageInv, FaceInv, FaceHasFile
<1>3. FaceInv'
  <2>1. CASE ClearFace
    <3>1. face' = [now |-> None, files |-> face.files \ {face.now}, tries |-> face.tries]
      BY <1>2, <2>1 DEF ClearFace, NoFace, FaceType
    <3> QED
      BY <1>2, <3>1, StorageAssumption DEF FaceInv, FaceHasFile, FaceType, None
  <2>2. ASSUME NEW ok \in BOOLEAN, LoadFace(ok) PROVE FaceInv'
    <3> DEFINE n == face.tries + 1
    <3>1. /\ face' = [now |-> IF ok THEN n ELSE face.now, tries |-> n,
                      files |-> IF ok THEN (face.files \cup {n}) \ {face.now} ELSE face.files]
          /\ face.tries < MaxFaces
      BY <2>2 DEF LoadFace
    <3>2. n \in 1 .. MaxFaces /\ n # face.now /\ n # None /\ face.now \in 0 .. MaxFaces /\ face.now <= n
      BY <1>2, <3>1, StorageAssumption DEF FaceType, None
    <3> HIDE DEF n
    <3>3. CASE ok
      <4>1. face' = [now |-> n, tries |-> n, files |-> (face.files \cup {n}) \ {face.now}]
        BY <3>1, <3>3
      <4>2. (face.files \cup {n}) \ {face.now} = {n} \ {None}
        BY <1>2, <3>2
      <4> QED
        BY <3>2, <4>1, <4>2 DEF FaceInv, FaceHasFile, FaceType
    <3>4. CASE ~ok
      <4>1. face' = [now |-> face.now, tries |-> n, files |-> face.files]
        BY <3>1, <3>4
      <4> QED
        BY <1>2, <3>2, <4>1 DEF FaceInv, FaceHasFile, FaceType
    <3> QED
      BY <3>3, <3>4
  <2> QED
    BY <2>1, <2>2 DEF FaceSteps
<1>4. StoreInv' /\ ReadInv'
  BY <1>1, NothingRead DEF StorageInv, StoreInv, ReadInv
<1>5. LoadInv'
  BY <1>1 DEF StorageInv, LoadInv, WorkingSetFits, Working, MayLoad
<1> QED
  BY <1>3, <1>4, <1>5 DEF StorageInv

-----------------------------------------------------------------------------
(***************************************************************************)
(* The operations on generated files preserve the invariant.               *)
(***************************************************************************)
LEMMA FilesBecomeOK ==
  ASSUME StorageInv, Working, NEW s, StoreOK(s), NEW hs \in HandleType, Kept(s, hs) \subseteq Live(s),
         s.limit = store.limit, FilesBecome(s, hs)
  PROVE  StorageInv'
<1>1. store' = Settled(s, hs) /\ handle' = hs /\ seen' = NoRead /\ UNCHANGED <<source, load, face>>
  BY DEF FilesBecome
<1>2. /\ StoreOK(store') /\ Live(store') = Kept(s, hs) /\ store'.files = s.files
      /\ store'.limit = store.limit
  BY <1>1, SettledOK
<1>3. Kept(store', handle') = Kept(s, hs)
  BY <1>1, <1>2 DEF Kept, Mounted
<1>4. StoreInv'
  BY <1>1, <1>2, <1>3 DEF StoreInv
<1>5. store'.used <= store'.limit
  BY <1>2 DEF StoreOK
<1>6. LoadInv'
  BY <1>1, <1>2, <1>5 DEF StorageInv, LoadInv, WorkingSetFits, Working
<1>7. FaceInv' /\ ReadInv'
  BY <1>1, NothingRead DEF StorageInv, FaceInv, FaceHasFile, ReadInv
<1> QED
  BY <1>4, <1>6, <1>7 DEF StorageInv

\* A new file has no charge yet, whatever it takes the path of.
LEMMA OpenForWriteStep ==
  ASSUME StorageInv, NEW h \in Handles, NEW n \in Names, OpenForWrite(h, n)
  PROVE  StorageInv'
<1> DEFINE i == Min(Unused(store))
           s == [store EXCEPT !.files[n] = i, !.blobs[i] = NewBlob]
           hs == [handle EXCEPT ![h] = i]
<1>1. Working /\ Unused(store) # {} /\ FilesBecome(s, hs)
  BY DEF OpenForWrite
<1>2. i \in Blobs /\ i \notin Live(store) /\ i # None
  <2>1. Unused(store) \subseteq Nat
    BY DEF Unused, Blobs
  <2>2. PICK x \in Unused(store) : \A y \in Unused(store) : x <= y
    BY <1>1, <2>1, LeastOfNats
  <2>3. i \in Unused(store)
    BY <2>2 DEF Min
  <2> QED
    BY <2>3, StorageAssumption DEF Unused, Live, Blobs, None
<1> HIDE DEF i
<1>3. /\ store \in StoreType /\ StoreOK(store) /\ handle \in HandleType
      /\ Kept(store, handle) \subseteq Live(store)
  BY DEF StorageInv, StoreInv, StoreOK
<1>4. NewBlob \in BlobType /\ NewBlob.live /\ NewBlob.cap = 0 /\ NewBlob.size = 0
  BY DEF NewBlob, NoBlob, BlobType
<1>5. /\ s \in StoreType /\ s.used = store.used /\ s.limit = store.limit
      /\ s.files = [store.files EXCEPT ![n] = i] /\ s.blobs = [store.blobs EXCEPT ![i] = NewBlob]
  BY <1>2, <1>3, <1>4 DEF StoreType
<1> HIDE DEF s
<1>6. s.blobs[i] = NewBlob /\ \A j \in Blobs \ {i} : s.blobs[j] = store.blobs[j]
  BY <1>2, <1>3, <1>5 DEF StoreType
<1>7. Live(s) = Live(store) \cup {i}
  BY <1>2, <1>4, <1>6 DEF Live
<1>8. Charged(s)
  <2>1. Weight(s, Live(s)) = Weight(store, Live(store))
    BY <1>2, <1>4, <1>6, <1>7 DEF Weight
  <2> QED
    BY <1>3, <1>5, <2>1, CapsAgree DEF Charged, StoreOK
<1>9. StoreOK(s)
  <2>1. \A j \in Blobs : s.blobs[j].size <= s.blobs[j].cap
    BY <1>3, <1>4, <1>6 DEF StoreOK
  <2> QED
    BY <1>3, <1>5, <1>8, <2>1 DEF StoreOK
<1>10. hs \in HandleType /\ Kept(s, hs) \subseteq Kept(store, handle) \cup {i}
  BY <1>2, <1>3, <1>5 DEF HandleType, StoreType, Kept, Mounted, Held
<1>11. Kept(s, hs) \subseteq Live(s)
  BY <1>3, <1>7, <1>10
<1> HIDE DEF hs
<1> QED
  BY <1>1, <1>5, <1>9, <1>10, <1>11, FilesBecomeOK

\* A handle lets go of a file, and takes one that has a path, if any.
LEMMA HandleStep ==
  ASSUME StorageInv, Working, NEW h \in Handles, NEW i \in {None} \cup Mounted(store),
         FilesBecome(store, [handle EXCEPT ![h] = i])
  PROVE  StorageInv'
<1> DEFINE hs == [handle EXCEPT ![h] = i]
<1>1. StoreOK(store) /\ handle \in HandleType /\ Kept(store, handle) \subseteq Live(store)
  BY DEF StorageInv, StoreInv
<1>2. Mounted(store) \subseteq Blobs
  BY <1>1 DEF StoreOK, StoreType, Mounted
<1>3. hs \in HandleType /\ Kept(store, hs) \subseteq Kept(store, handle)
  BY <1>1, <1>2 DEF HandleType, Kept, Held
<1>4. FilesBecome(store, hs)
  OBVIOUS
<1> HIDE DEF hs
<1> QED
  BY <1>1, <1>3, <1>4, FilesBecomeOK

\* Paths move or go: no file gets a reference that had none.
LEMMA PathStep ==
  ASSUME StorageInv, Working, NEW files \in [Names -> {None} \cup Blobs],
         {files[n] : n \in Names} \ {None} \subseteq Mounted(store),
         FilesBecome([store EXCEPT !.files = files], handle)
  PROVE  StorageInv'
<1> DEFINE s == [store EXCEPT !.files = files]
<1>1. /\ StoreOK(store) /\ handle \in HandleType /\ Kept(store, handle) \subseteq Live(store)
      /\ FilesBecome(s, handle)
  BY DEF StorageInv, StoreInv
<1>2. StoreOK(s) /\ Live(s) = Live(store) /\ s.files = files /\ s.limit = store.limit
  BY <1>1, PathsOK
<1> HIDE DEF s
<1>3. Kept(s, handle) \subseteq Live(s)
  BY <1>1, <1>2 DEF Kept, Mounted
<1> QED
  BY <1>1, <1>2, <1>3, FilesBecomeOK

LEMMA RemoveOrRenameStep ==
  ASSUME StorageInv, NEW n \in Names, RemoveFile(n) \/ \E m \in Names : RenameFile(n, m)
  PROVE  StorageInv'
<1>1. store \in StoreType /\ store.files \in [Names -> {None} \cup Blobs]
  BY DEF StorageInv, StoreInv, StoreOK, StoreType
<1>2. CASE RemoveFile(n)
  <2> DEFINE files == [store.files EXCEPT ![n] = None]
  <2>1. Working /\ FilesBecome([store EXCEPT !.files = files], handle)
    BY <1>1, <1>2 DEF RemoveFile, StoreType
  <2>2. files \in [Names -> {None} \cup Blobs] /\ {files[m] : m \in Names} \ {None} \subseteq Mounted(store)
    BY <1>1 DEF Mounted
  <2> HIDE DEF files
  <2> QED
    BY <2>1, <2>2, PathStep
<1>3. ASSUME NEW m \in Names, RenameFile(n, m) PROVE StorageInv'
  <2> DEFINE files == [[store.files EXCEPT ![n] = None] EXCEPT ![m] = store.files[n]]
  <2>1. Working /\ store.files[n] # None /\ FilesBecome([store EXCEPT !.files = files], handle)
    BY <1>1, <1>3 DEF RenameFile, StoreType
  <2>2. files \in [Names -> {None} \cup Blobs] /\ {files[k] : k \in Names} \ {None} \subseteq Mounted(store)
    BY <1>1, <2>1 DEF Mounted
  <2> HIDE DEF files
  <2> QED
    BY <2>1, <2>2, PathStep
<1> QED
  BY <1>2, <1>3

\* A write extends the allocation first; when that fails, the file is what it was, or empty.
LEMMA WriteStep ==
  ASSUME StorageInv, NEW h \in Handles, NEW at \in Nat, NEW count \in Nat, NEW slack \in Nat,
         Write(h, at, count, slack)
  PROVE  StorageInv'
<1> DEFINE i == handle[h]
           r == IF at + count > store.blobs[i].size THEN Reserved(store, i, at + count, slack)
                ELSE [ok |-> TRUE, s |-> store]
           t == [r.s EXCEPT !.blobs[i].size = Most(@, at + count)]
           s == IF r.ok THEN t ELSE r.s
<1>1. Working /\ i # None /\ FilesBecome(s, handle)
  BY DEF Write
<1>2. StoreOK(store) /\ handle \in HandleType /\ Kept(store, handle) \subseteq Live(store)
  BY DEF StorageInv, StoreInv
<1>3. i \in Live(store) /\ i \in Blobs
  BY <1>1, <1>2 DEF Kept, Held, Live
<1> HIDE DEF i
<1>4. at + count \in Nat
  OBVIOUS
<1>5. ReservationOK(r, store, i, at + count)
  <2>1. CASE at + count > store.blobs[i].size
    <3>1. r = Reserved(store, i, at + count, slack)
      BY <2>1
    <3> QED
      BY <1>2, <1>3, <1>4, <3>1, ReservedOK
  <2>2. CASE ~(at + count > store.blobs[i].size)
    <3>1. r = [ok |-> TRUE, s |-> store]
      BY <2>2
    <3>2. /\ store.blobs[i].size \in Nat /\ store.blobs[i].cap \in Nat
          /\ store.blobs[i].size <= store.blobs[i].cap
      BY <1>2, <1>3 DEF StoreOK, StoreType, BlobType
    <3>3. at + count <= store.blobs[i].cap
      BY <1>4, <2>2, <3>2
    <3> HIDE DEF r
    <3>4. r.ok = TRUE /\ r.s = store
      BY <3>1
    <3> QED
      BY <1>2, <3>3, <3>4 DEF ReservationOK
  <2> QED
    BY <2>1, <2>2
<1> HIDE DEF r
<1> USE DEF ReservationOK
<1>6. ASSUME r.ok
      PROVE  StoreOK(t) /\ Live(t) = Live(r.s) /\ t.files = r.s.files /\ t.limit = r.s.limit
  <2>1. /\ r.s \in StoreType /\ r.s.blobs[i] \in BlobType
        /\ r.s.blobs[i].size \in Nat /\ r.s.blobs[i].cap \in Nat /\ r.s.blobs[i].size <= r.s.blobs[i].cap
    BY <1>3, <1>5 DEF StoreOK, StoreType, BlobType
  <2> DEFINE size == Most(r.s.blobs[i].size, at + count)
  <2>2. size \in Nat /\ size <= r.s.blobs[i].cap
    BY <1>4, <1>5, <1>6, <2>1 DEF Most
  <2>3. t = [r.s EXCEPT !.blobs[i].size = size]
    OBVIOUS
  <2> HIDE DEF size, t
  <2>4. /\ t \in StoreType /\ t.files = r.s.files /\ t.limit = r.s.limit /\ t.used = r.s.used
        /\ t.blobs[i].cap = r.s.blobs[i].cap /\ t.blobs[i].live = r.s.blobs[i].live
        /\ t.blobs[i].size = size /\ \A j \in Blobs \ {i} : t.blobs[j] = r.s.blobs[j]
    BY <1>3, <2>1, <2>2, <2>3 DEF StoreType, BlobType
  <2>5. Live(t) = Live(r.s)
    BY <2>4 DEF Live
  <2>6. Weight(t, Live(t)) = Weight(r.s, Live(r.s))
    BY <2>4, <2>5 DEF Weight
  <2>7. Charged(t)
    BY <1>5, <2>4, <2>6, CapsAgree DEF Charged, StoreOK
  <2>8. \A j \in Blobs : t.blobs[j].size <= t.blobs[j].cap
    BY <1>5, <2>2, <2>4 DEF StoreOK
  <2> QED
    BY <1>5, <2>4, <2>5, <2>7, <2>8 DEF StoreOK
<1> HIDE DEF t
<1>7. StoreOK(s) /\ Live(s) = Live(store) /\ s.files = store.files /\ s.limit = store.limit
  BY <1>5, <1>6
<1> HIDE DEF s
<1>8. Kept(s, handle) \subseteq Live(s)
  BY <1>2, <1>7 DEF Kept, Mounted
<1> QED
  BY <1>1, <1>2, <1>7, <1>8, FilesBecomeOK

LEMMA FilesStep ==
  ASSUME StorageInv, FileSteps
  PROVE  StorageInv'
<1>1. ASSUME NEW h \in Handles, NEW n \in Names, OpenForRead(h, n) PROVE StorageInv'
  <2>1. /\ Working /\ store.files[n] \in {None} \cup Mounted(store)
        /\ FilesBecome(store, [handle EXCEPT ![h] = store.files[n]])
    BY <1>1 DEF OpenForRead, Mounted
  <2> QED
    BY <2>1, HandleStep
<1>2. ASSUME NEW h \in Handles, Close(h) PROVE StorageInv'
  <2>1. Working /\ None \in {None} \cup Mounted(store) /\ FilesBecome(store, [handle EXCEPT ![h] = None])
    BY <1>2 DEF Close
  <2> QED
    BY <2>1, HandleStep
<1>3. ASSUME NEW h \in Handles, NEW at \in 0 .. DefaultLimit, NEW count \in 1 .. MaxWrite,
             NEW slack \in Slacks, Write(h, at, count, slack)
      PROVE  StorageInv'
  <2>1. at \in Nat /\ count \in Nat /\ slack \in Nat
    BY StorageAssumption
  <2> QED
    BY <1>3, <2>1, WriteStep
<1> QED
  BY <1>1, <1>2, <1>3, OpenForWriteStep, RemoveOrRenameStep DEF FileSteps

-----------------------------------------------------------------------------
(***************************************************************************)
(* Reads of an external EPUB.                                              *)
(***************************************************************************)
\* The window a byte is in.
LEMMA AlignedTo ==
  ASSUME NEW at \in Nat
  PROVE  LET aligned == (at \div Window) * Window
         IN  aligned \in Nat /\ aligned <= at /\ at < aligned + Window
<1>1. Window \in Nat /\ Window > 0
  BY StorageAssumption
<1> QED
  BY <1>1

LEMMA SizeIsFetched ==
  ASSUME NEW size \in Sizes, NEW at \in Nat, at < size
  PROVE  at \div Window \in Fetches /\ Max(Sizes) \in Nat
<1>1. Sizes \subseteq 0 .. BookLimit /\ Sizes \cup {0} \subseteq 0 .. BookLimit /\ BookLimit \in Nat
  BY SizesFit, StorageAssumption
<1>2. PICK x \in Sizes \cup {0} : \A y \in Sizes \cup {0} : x >= y
  BY <1>1, GreatestOfNats
<1>3. Max(Sizes \cup {0}) \in Sizes \cup {0} /\ Max(Sizes \cup {0}) >= size
  BY <1>2 DEF Max
<1>4. Max(Sizes \cup {0}) \in Nat /\ size \in Nat
  BY <1>3, SizesNat
<1>5. at \in 0 .. Max(Sizes \cup {0})
  BY <1>3, <1>4
<1>6. PICK z \in Sizes : \A y \in Sizes : z >= y
  BY <1>1, GreatestOfNats
<1>7. Max(Sizes) \in Sizes
  BY <1>6 DEF Max
<1> QED
  BY <1>5, <1>7, SizesNat DEF Fetches

\* A fetch moves the window to the byte, whole, or leaves the old one described.
FetchOK(f, w, at) ==
  /\ f.ok \in BOOLEAN /\ f.w \in SourceType /\ f.w.kind = w.kind /\ f.w.size = w.size
  /\ f.ok => InWindow(f.w, at) /\ WindowTrue(f.w)

LEMMA FilledOK ==
  ASSUME NEW w \in SourceType, NEW at \in Nat, at < w.size, NEW got \in 0 .. Window
  PROVE  /\ FetchOK(Filled(w, at, got), w, at)
         /\ got \in {0, Window} /\ WindowTrue(w) => WindowTrue(Filled(w, at, got).w)
<1> DEFINE aligned == (at \div Window) * Window
           len == Least(w.size - aligned, Window)
           bytes == [i \in DOMAIN w.bytes |-> IF i < Least(got, len) THEN aligned + i ELSE w.bytes[i]]
           took == [w EXCEPT !.allocated = TRUE, !.bytes = bytes]
           moved == [took EXCEPT !.start = aligned, !.valid = len, !.filled = TRUE]
           f == Filled(w, at, got)
<1>1. w.size \in Nat /\ Window \in Nat /\ Window > 0 /\ got \in Nat /\ got <= Window
  <2>1. w.size \in {0} \cup Sizes
    BY DEF SourceType
  <2>2. w.size \in Nat
    BY <2>1, SizesNat
  <2>3. Window \in Nat /\ Window > 0
    BY StorageAssumption
  <2> QED
    BY <2>2, <2>3
<1>2. aligned \in Nat /\ aligned <= at /\ at < aligned + Window
  BY AlignedTo
<1>3. f = IF got < len THEN [ok |-> FALSE, w |-> took] ELSE [ok |-> TRUE, w |-> moved]
  BY DEF Filled
<1> HIDE DEF aligned, f
<1>4. len \in 1 .. Window /\ len <= w.size - aligned /\ (len = Window \/ len = w.size - aligned)
  BY <1>1, <1>2 DEF Least
<1>5. DOMAIN w.bytes = 0 .. Window - 1 /\ w.bytes \in [0 .. Window - 1 -> Int]
  BY DEF SourceType
<1> HIDE DEF len
<1>6. bytes \in [0 .. Window - 1 -> Int]
  <2> HIDE DEF took, moved
  <2>1. \A i \in 0 .. Window - 1 : aligned + i \in Int
    BY <1>1, <1>2
  <2> QED
    BY <1>5, <2>1
<1>7. CASE got < len
  <2> HIDE DEF bytes
  <2>1. /\ took \in SourceType /\ took.kind = w.kind /\ took.size = w.size /\ took.filled = w.filled
        /\ took.start = w.start /\ took.valid = w.valid /\ took.bytes = bytes
    BY <1>6 DEF SourceType
  <2> HIDE DEF took
  <2>2. f.ok = FALSE /\ f.w = took
    BY <1>3, <1>7
  <2>3. FetchOK(f, w, at)
    BY <2>1, <2>2 DEF FetchOK
  <2>4. ASSUME got \in {0, Window}, WindowTrue(w) PROVE WindowTrue(took)
    <3>1. got = 0
      BY <1>1, <1>4, <1>7, <2>4
    <3>2. \A i \in 0 .. Window - 1 : bytes[i] = w.bytes[i]
      BY <1>4, <1>5, <3>1 DEF bytes, Least
    <3> QED
      BY <2>1, <2>4, <3>2 DEF WindowTrue
  <2> QED
    BY <2>2, <2>3, <2>4 DEF f
<1>8. CASE ~(got < len)
  <2>1. \A i \in 0 .. Window - 1 : i < len => bytes[i] = aligned + i
    BY <1>1, <1>4, <1>5, <1>8 DEF Least
  <2> HIDE DEF bytes
  <2>2. took \in SourceType /\ took.kind = w.kind /\ took.size = w.size /\ took.bytes = bytes
    BY <1>6 DEF SourceType
  <2> HIDE DEF took
  <2>3. /\ moved \in SourceType /\ moved.kind = w.kind /\ moved.size = w.size /\ moved.filled = TRUE
        /\ moved.start = aligned /\ moved.valid = len /\ moved.bytes = bytes
    <3> DEFINE m1 == [took EXCEPT !.start = aligned]
               m2 == [m1 EXCEPT !.valid = len]
               m3 == [m2 EXCEPT !.filled = TRUE]
    <3>1. moved = m3
      OBVIOUS
    <3> HIDE DEF moved
    <3>2. /\ m1 \in SourceType /\ m1.kind = w.kind /\ m1.size = w.size /\ m1.bytes = bytes
          /\ m1.start = aligned
      BY <1>2, <2>2 DEF SourceType
    <3> HIDE DEF m1
    <3>3. /\ m2 \in SourceType /\ m2.kind = w.kind /\ m2.size = w.size /\ m2.bytes = bytes
          /\ m2.start = aligned /\ m2.valid = len
      <4>1. len \in 0 .. Window
        BY <1>1, <1>4
      <4> QED
        BY <3>2, <4>1 DEF SourceType
    <3> HIDE DEF m2
    <3>4. /\ m3 \in SourceType /\ m3.kind = w.kind /\ m3.size = w.size /\ m3.bytes = bytes
          /\ m3.start = aligned /\ m3.valid = len /\ m3.filled = TRUE
      BY <3>3 DEF SourceType
    <3> QED
      BY <3>1, <3>4
  <2> HIDE DEF moved
  <2>4. f.ok = TRUE /\ f.w = moved
    BY <1>3, <1>8
  <2>5. WindowTrue(moved)
    BY <2>1, <2>3 DEF WindowTrue
  <2>6. InWindow(moved, at)
    <3>1. aligned <= at /\ at < aligned + len
      BY <1>1, <1>2, <1>4
    <3> QED
      BY <2>3, <3>1 DEF InWindow
  <2>7. FetchOK(f, w, at)
    BY <2>3, <2>4, <2>5, <2>6 DEF FetchOK
  <2> QED
    BY <2>4, <2>5, <2>7 DEF f
<1> QED
  BY <1>7, <1>8

\* What a read under way of the mounted EPUB has: its window, and the bytes it has taken.
ReadState == {r \in [ok : BOOLEAN, w : SourceType, out : Seq(Int)] :
                r.w.size = source.size /\ r.w.kind = source.kind}
\* The first k bytes after off are true, and so is the window.
Taken(r, off, k) ==
  /\ WindowTrue(r.w)
  /\ r.ok => Len(r.out) = k /\ \A j \in 1 .. k : r.out[j] = off + j - 1

LEMMA ReadByteOK ==
  ASSUME NEW r \in ReadState, NEW off \in Nat, NEW k \in Nat, source.size \in Sizes,
         off + k < source.size, NEW got \in [Fetches -> Crossings]
  PROVE  /\ ReadByte(r, off + k, got) \in ReadState
         /\ ~Torn /\ Taken(r, off, k) => Taken(ReadByte(r, off + k, got), off, k + 1)
<1> DEFINE at == off + k
           fetched == got[at \div Window]
           f == IF InWindow(r.w, at) THEN [ok |-> TRUE, w |-> r.w] ELSE Filled(r.w, at, fetched)
           byte == f.w.bytes[at - f.w.start]
           b == ReadByte(r, at, got)
<1>1. at \in Nat /\ at \div Window \in Fetches
  BY SizeIsFetched
<1>2. fetched \in Crossings /\ fetched \in 0 .. Window /\ (~Torn => fetched \in {0, Window})
  <2>1. fetched \in Crossings
    BY <1>1
  <2> HIDE DEF fetched
  <2> QED
    BY <2>1, StorageAssumption DEF Crossings
<1>3. r.w \in SourceType /\ r.out \in Seq(Int) /\ r.w.size = source.size /\ r.ok \in BOOLEAN
  BY DEF ReadState
<1>4. b = IF ~r.ok THEN r
          ELSE [ok |-> f.ok, w |-> f.w, out |-> IF f.ok THEN Append(r.out, byte) ELSE r.out]
  BY DEF ReadByte
<1>5. /\ f.ok \in BOOLEAN /\ f.w \in SourceType /\ f.w.kind = r.w.kind /\ f.w.size = r.w.size
      /\ f.ok => InWindow(f.w, at)
      /\ ~Torn /\ WindowTrue(r.w) => WindowTrue(f.w)
  <2>1. CASE InWindow(r.w, at)
    <3>1. f.ok = TRUE /\ f.w = r.w
      BY <2>1
    <3> HIDE DEF f
    <3> QED
      BY <1>3, <2>1, <3>1
  <2>2. CASE ~InWindow(r.w, at)
    <3>1. f = Filled(r.w, at, fetched)
      BY <2>2
    <3> HIDE DEF f, fetched, at
    <3> QED
      BY <1>1, <1>2, <1>3, <3>1, FilledOK DEF FetchOK, at
  <2> QED
    BY <2>1, <2>2
<1> HIDE DEF f, b, fetched
<1>6. ASSUME f.ok
      PROVE  at - f.w.start \in 0 .. Window - 1 /\ at - f.w.start < f.w.valid /\ f.w.filled /\ byte \in Int
  <2>1. /\ f.w.start \in Nat /\ f.w.valid \in 0 .. Window /\ f.w.bytes \in [0 .. Window - 1 -> Int]
    BY <1>5 DEF SourceType
  <2>2. f.w.filled /\ f.w.start <= at /\ at < f.w.start + f.w.valid
    BY <1>5, <1>6 DEF InWindow
  <2>3. Window \in Nat
    BY StorageAssumption
  <2> DEFINE start == f.w.start
             valid == f.w.valid
  <2>4. at - start \in 0 .. Window - 1 /\ at - start < valid
    <3>1. start \in Nat /\ valid \in 0 .. Window /\ start <= at /\ at < start + valid /\ at \in Nat
      BY <1>1, <2>1, <2>2
    <3> HIDE DEF start, valid, at
    <3> QED
      BY <2>3, <3>1
  <2> QED
    BY <2>1, <2>2, <2>4
<1> HIDE DEF byte
<1>7. CASE ~r.ok
  <2>1. b = r
    BY <1>4, <1>7
  <2> QED
    BY <1>7, <2>1 DEF Taken, b
<1>8. CASE r.ok /\ ~f.ok
  <2>1. b = [ok |-> f.ok, w |-> f.w, out |-> r.out]
    BY <1>4, <1>8
  <2>2. b.ok = f.ok /\ b.w = f.w /\ b \in ReadState
    BY <1>3, <1>5, <2>1 DEF ReadState
  <2> QED
    BY <1>5, <1>8, <2>2 DEF Taken, b
<1>9. CASE r.ok /\ f.ok
  <2>1. b = [ok |-> f.ok, w |-> f.w, out |-> Append(r.out, byte)]
    BY <1>4, <1>9
  <2>2. Append(r.out, byte) \in Seq(Int)
    BY <1>3, <1>6, <1>9
  <2>3. b.ok = f.ok /\ b.w = f.w /\ b.out = Append(r.out, byte) /\ b \in ReadState
    BY <1>3, <1>5, <2>1, <2>2 DEF ReadState
  <2>4. ASSUME ~Torn, Taken(r, off, k) PROVE Taken(b, off, k + 1)
    <3>1. WindowTrue(f.w) /\ Len(r.out) = k /\ \A j \in 1 .. k : r.out[j] = off + j - 1
      BY <1>5, <1>9, <2>4 DEF Taken
    <3>2. byte = at
      <4>1. f.w.bytes[at - f.w.start] = f.w.start + (at - f.w.start)
        BY <1>6, <1>9, <3>1 DEF WindowTrue
      <4>2. f.w.start \in Nat
        BY <1>5 DEF SourceType
      <4> QED
        BY <1>1, <4>1, <4>2 DEF byte
    <3>3. Len(b.out) = k + 1
      BY <1>3, <1>6, <1>9, <2>3, <3>1
    <3>4. ASSUME NEW j \in 1 .. k + 1 PROVE b.out[j] = off + j - 1
      <4>1. CASE j \in 1 .. k
        <5>1. b.out[j] = r.out[j]
          BY <1>3, <1>6, <1>9, <2>3, <3>1, <4>1
        <5> QED
          BY <3>1, <4>1, <5>1
      <4>2. CASE j = k + 1
        <5>1. b.out[j] = byte
          BY <1>3, <1>6, <1>9, <2>3, <3>1, <4>2
        <5> QED
          BY <3>2, <4>2, <5>1
      <4> QED
        BY <4>1, <4>2
    <3> QED
      BY <2>3, <3>1, <3>3, <3>4 DEF Taken
  <2> QED
    BY <2>3, <2>4 DEF b
<1> QED
  BY <1>3, <1>5, <1>7, <1>8, <1>9

\* A read is a read state whatever fetches fail; what it has taken is true when no fetch is short.
LEMMA ReadExternalOK ==
  ASSUME source \in SourceType, source.size \in Sizes, NEW off \in Nat, NEW count \in Nat,
         off + count <= source.size, NEW got \in [Fetches -> Crossings]
  PROVE  /\ ReadExternal(off, count, got) \in ReadState
         /\ ~Torn /\ WindowTrue(source) => Taken(ReadExternal(off, count, got), off, count)
<1> DEFINE base == [ok |-> TRUE, w |-> source, out |-> << >>]
           F == [k \in 1 .. count |-> [r \in ReadState |-> ReadByte(r, off + k - 1, got)]]
           Meets(g) == g = [k \in 0 .. count |-> IF k = 0 THEN base ELSE ReadByte(g[k-1], off + k - 1, got)]
           read == CHOOSE g : Meets(g)
<1>1. base \in ReadState /\ (WindowTrue(source) => Taken(base, off, 0))
  BY DEF ReadState, Taken
<1>2. \A k \in 1 .. count : k - 1 \in Nat /\ off + (k - 1) = off + k - 1 /\ off + (k - 1) < source.size
  BY SizesFit
<1> HIDE DEF base
<1>3. Steps(F, count, ReadState)
  <2>1. ASSUME NEW k \in 1 .. count, NEW r \in ReadState PROVE ReadByte(r, off + k - 1, got) \in ReadState
    BY <1>2, ReadByteOK
  <2> QED
    BY <2>1 DEF Steps
<1>4. PICK g : Takes(g, F, base, count, ReadState)
  <2> HIDE DEF F
  <2> QED
    BY <1>1, <1>3, RecursionExists
<1>5. Meets(g)
  <2>1. ASSUME NEW k \in 1 .. count PROVE g[k] = ReadByte(g[k-1], off + k - 1, got)
    <3>1. F[k] = [r \in ReadState |-> ReadByte(r, off + k - 1, got)]
      OBVIOUS
    <3> HIDE DEF F
    <3>2. k - 1 \in 0 .. count /\ g[k-1] \in ReadState /\ g[k] = F[k][g[k-1]]
      BY <1>4 DEF Takes
    <3> QED
      BY <3>1, <3>2
  <2>2. DOMAIN g = 0 .. count /\ g = [k \in 0 .. count |-> g[k]] /\ g[0] = base
    BY <1>4 DEF Takes
  <2>3. \A k \in 0 .. count : g[k] = IF k = 0 THEN base ELSE ReadByte(g[k-1], off + k - 1, got)
    <3>1. TAKE k \in 0 .. count
    <3>2. CASE k = 0
      BY <2>2, <3>2
    <3>3. CASE k # 0
      <4>1. k \in 1 .. count
        BY <3>3
      <4> QED
        BY <2>1, <3>3, <4>1
    <3> QED
      BY <3>2, <3>3
  <2> QED
    BY <2>2, <2>3, Zenon
<1>6. Meets(read)
  <2> HIDE DEF Meets
  <2> QED
    BY <1>5
<1>7. ReadExternal(off, count, got) = read[count]
  BY DEF ReadExternal, base
<1> HIDE DEF read
<1>8. read[0] = base /\ \A k \in 1 .. count : read[k] = ReadByte(read[k-1], off + k - 1, got)
  BY <1>6
<1> HIDE DEF Meets
<1> DEFINE T == {k \in Nat : k <= count =>
                   read[k] \in ReadState /\ (~Torn /\ WindowTrue(source) => Taken(read[k], off, k))}
<1>9. 0 \in T
  BY <1>1, <1>8
<1>10. ASSUME NEW k \in Nat, k \in T PROVE k + 1 \in T
  <2>1. SUFFICES ASSUME k + 1 <= count
                 PROVE  /\ read[k+1] \in ReadState
                        /\ ~Torn /\ WindowTrue(source) => Taken(read[k+1], off, k + 1)
    OBVIOUS
  <2>2. read[k] \in ReadState /\ (~Torn /\ WindowTrue(source) => Taken(read[k], off, k))
    BY <1>10, <2>1
  <2>3. k + 1 \in 1 .. count /\ (k + 1) - 1 = k /\ off + (k + 1) - 1 = off + k
    BY <2>1
  <2>4. read[k+1] = ReadByte(read[k], off + k, got)
    BY <1>8, <2>3
  <2>5. off + k < source.size
    BY <1>2, <2>3
  <2> QED
    BY <2>2, <2>4, <2>5, ReadByteOK
<1>11. Nat \subseteq T
  <2> HIDE DEF T
  <2> QED
    BY <1>9, <1>10, NatSet
<1> QED
  BY <1>7, <1>11

LEMMA ReadsStep ==
  ASSUME StorageInv, Reads
  PROVE  StorageInv'
<1>1. PICK off \in 0 .. Max(Sizes), count \in 1 .. Max(Sizes), got \in [Fetches -> Crossings] :
        ReadBook(off, count, got)
  BY DEF Reads
<1> DEFINE r == ReadExternal(off, count, got)
<1>2. /\ Working /\ source.kind = "external" /\ off + count <= source.size /\ source' = r.w
      /\ seen' = IF r.ok THEN [off |-> off, bytes |-> r.out] ELSE NoRead
      /\ UNCHANGED <<store, handle, load, face>>
  BY <1>1 DEF ReadBook
<1>3. source \in SourceType /\ source.size \in Sizes
  BY <1>2 DEF StorageInv, LoadInv
<1>4. off \in Nat /\ count \in Nat
  <2>1. 0 \in Nat /\ 0 < source.size
    BY <1>3, SizesFit
  <2>2. Max(Sizes) \in Nat
    BY <1>3, <2>1, SizeIsFetched
  <2> QED
    BY <2>2
<1>5. r \in ReadState /\ (~Torn /\ WindowTrue(source) => Taken(r, off, count))
  BY <1>2, <1>3, <1>4, ReadExternalOK
<1> HIDE DEF r
<1>6. /\ source' \in SourceType /\ source'.size = source.size /\ source'.kind = source.kind
      /\ r.out \in Seq(Int)
  BY <1>2, <1>5 DEF ReadState
<1>7. StoreInv' /\ FaceInv'
  BY <1>2 DEF StorageInv, StoreInv, FaceInv, FaceHasFile
<1>8. LoadInv'
  BY <1>2, <1>6 DEF StorageInv, LoadInv, WorkingSetFits, Working
<1>9. ReadInv'
  <2>1. SUFFICES ASSUME ~Torn PROVE WindowTrue(source') /\ ReadsAreTrue'
    BY DEF ReadInv
  <2>2. Taken(r, off, count)
    BY <1>5, <2>1 DEF StorageInv, ReadInv
  <2>3. CASE ~r.ok
    BY <1>2, <2>2, <2>3, NothingRead DEF Taken
  <2>4. CASE r.ok
    <3>1. seen'.off = off /\ seen'.bytes = r.out
      BY <1>2, <2>4
    <3>2. DOMAIN r.out = 1 .. count /\ \A j \in 1 .. count : r.out[j] = off + j - 1
      BY <1>6, <2>2, <2>4 DEF Taken
    <3>3. ReadsAreTrue'
      BY <3>1, <3>2 DEF ReadsAreTrue
    <3> QED
      BY <1>2, <2>2, <3>3 DEF Taken
  <2> QED
    BY <2>3, <2>4
<1> QED
  BY <1>7, <1>8, <1>9 DEF StorageInv

-----------------------------------------------------------------------------
(***************************************************************************)
(* The invariant holds.                                                    *)
(***************************************************************************)
LEMMA StorageInit ==
  ASSUME Init
  PROVE  StorageInv
<1>1. store = [files |-> [n \in Names |-> None], blobs |-> [i \in Blobs |-> NoBlob],
               used |-> 0, limit |-> DefaultLimit]
  BY DEF Init
<1>2. NoBlob \in BlobType /\ NoBlob.cap = 0 /\ NoBlob.size = 0 /\ NoBlob.live = FALSE
  BY DEF NoBlob, BlobType
<1>3. store \in StoreType
  BY <1>1, <1>2, StorageAssumption DEF StoreType
<1>4. Live(store) = {} /\ \A i \in Blobs : store.blobs[i].size <= store.blobs[i].cap
  BY <1>1, <1>2 DEF Live
<1>5. store.used = 0 /\ store.limit = DefaultLimit /\ store.used <= store.limit
  BY <1>1, StorageAssumption
<1>6. StoreOK(store)
  BY <1>3, <1>4, <1>5, CapsOfNone DEF StoreOK, Charged
<1>7. handle \in HandleType /\ Kept(store, handle) = {}
  BY <1>1 DEF Init, HandleType, Kept, Mounted, Held
<1>8. StoreInv
  BY <1>6, <1>7 DEF StoreInv
<1>9. FaceInv
  BY StorageAssumption DEF Init, FaceInv, FaceType, FaceHasFile, None
<1>10. source \in SourceType /\ WindowTrue(source) /\ source.kind = "none"
  <2>1. source = Unread("none", 0)
    BY DEF Init, NoSource
  <2> QED
    BY <2>1, UnreadOK
<1>11. load \in LoadType /\ load.step = "none" /\ load.buffer = 0
  BY DEF Init, LoadType
<1>12. LoadInv
  BY <1>5, <1>10, <1>11 DEF LoadInv, WorkingSetFits, Working
<1>13. ReadInv
  <2>1. seen.bytes = << >>
    BY DEF Init, NoRead
  <2> QED
    BY <1>10, <2>1 DEF ReadInv, ReadsAreTrue
<1> QED
  BY <1>8, <1>9, <1>12, <1>13 DEF StorageInv

LEMMA StorageStep ==
  ASSUME StorageInv, [Next]_vars
  PROVE  StorageInv'
<1>1. CASE Next
  BY <1>1, LoadsStep, FacesStep, FilesStep, ReadsStep DEF Next
<1>2. CASE UNCHANGED vars
  <2>1. UNCHANGED <<store, handle, source, load, face, seen>>
    BY <1>2 DEF vars
  <2>2. StoreInv' /\ FaceInv'
    BY <2>1 DEF StorageInv, StoreInv, FaceInv, FaceHasFile
  <2>3. LoadInv'
    BY <2>1 DEF StorageInv, LoadInv, WorkingSetFits, Working, TotalBytes
  <2>4. ReadInv'
    BY <2>1 DEF StorageInv, ReadInv, ReadsAreTrue
  <2> QED
    BY <2>2, <2>3, <2>4 DEF StorageInv
<1> QED
  BY <1>1, <1>2

LEMMA StorageInvariant == Spec => []StorageInv
<1>1. Init => StorageInv
  BY StorageInit
<1>2. StorageInv /\ [Next]_vars => StorageInv'
  BY StorageStep
<1> QED
  BY <1>1, <1>2, PTL DEF Spec

LEMMA StorageTyped ==
  ASSUME StorageInv
  PROVE  TypeOK
<1>1. /\ store \in StoreType /\ handle \in HandleType /\ source \in SourceType
      /\ load \in LoadType /\ face \in FaceType
  BY DEF StorageInv, StoreInv, StoreOK, LoadInv, FaceInv
<1>2. store.files \in [Names -> {None} \cup Blobs] /\ store.used \in Nat /\ store.limit \in 0 .. DefaultLimit
  BY <1>1 DEF StoreType
<1>3. \A i \in Blobs : store.blobs[i].live \in BOOLEAN /\ store.blobs[i].size \in 0 .. store.blobs[i].cap
  BY <1>1 DEF StorageInv, StoreInv, StoreOK, StoreType, BlobType
<1>4. \A h \in Handles : handle[h] \in {None} \cup Blobs
  BY <1>1 DEF HandleType
<1>5. \A i \in Mounted(store) \cup Held(handle) : store.blobs[i].live
  BY DEF StorageInv, StoreInv, Kept, Live
<1>6. /\ source.kind \in {"none", "copy", "owned", "external"} /\ source.size \in {0} \cup Sizes
      /\ {source.allocated, source.filled} \subseteq BOOLEAN
      /\ source.start \in Nat /\ source.valid \in 0 .. Window
  BY <1>1 DEF SourceType
<1>7. {source.start, source.valid} \subseteq Nat
  BY <1>6, StorageAssumption
<1>8. load.step \in {"none", "reading", "opening", "open"} /\ load.buffer \in {0} \cup Sizes
  BY <1>1 DEF LoadType
<1>9. face.files \subseteq 1 .. MaxFaces /\ {face.now, face.tries} \subseteq 0 .. MaxFaces
  BY <1>1 DEF FaceType
<1> QED
  BY <1>2, <1>3, <1>4, <1>5, <1>6, <1>7, <1>8, <1>9 DEF TypeOK

-----------------------------------------------------------------------------
\* Whatever is loaded, written, truncated, renamed or removed, every path and every handle of the
\* engine refers to a file that is alive (shared_ptr<Blob> in files_ and HalFile), no file is larger
\* than its allocation, and the limit of the files is never above its default.
THEOREM StorageTypeCorrect == Spec => []TypeOK
BY StorageInvariant, StorageTyped, PTL

\* The budget (StorageBudget) is charged for the capacity of the files that are alive and nothing
\* else, through truncation of open files, removal, renaming, failed and over-generous allocations;
\* and the mounted EPUB, the caller's copy, the files and a book that is being read together never
\* exceed the working set the loaders admit (safeWasmWorkingSetAllows, setDerivedBudgetForLoad).
THEOREM MemoryIsExact == Spec => []MemoryIsAccounted
<1>1. StorageInv => MemoryIsAccounted
  BY DEF StorageInv, StoreInv, StoreOK, Charged, LoadInv, MemoryIsAccounted, ChargeIsExact, Live
<1> QED
  BY <1>1, StorageInvariant, PTL

\* The face that is registered has its file mounted, and no rejected, replaced or dropped face has
\* left one behind (ko_load_epdfont, dropRuntimeCustomFont, beginBookReplacement).
THEOREM FacesKeepTheirFile == Spec => []FaceHasFile
<1>1. StorageInv => FaceHasFile
  BY DEF StorageInv, FaceInv
<1> QED
  BY <1>1, StorageInvariant, PTL

\* As long as a fetch brings the whole window or nothing (FileReaderSync in ko_blob_read_sync), a
\* read that succeeds returns the bytes of the EPUB at its offset, across as many windows as it
\* takes and whatever fetches failed before (Blob::readExternal, fillWindow).
THEOREM WholeFetchesReadTrue == Spec => [](~Torn => ReadsAreTrue)
<1>1. StorageInv => (~Torn => ReadsAreTrue)
  BY DEF StorageInv, ReadInv
<1> QED
  BY <1>1, StorageInvariant, PTL

===============================================================================
