----------------------------- MODULE EngineStorage -----------------------------
(***************************************************************************)
(* The storage of an engine (stubs/HalStorage.h and .cpp) and the loads    *)
(* that replace what it holds (src/wasm_api.cpp, loadEngineBook of         *)
(* web/ko.worker.js): the mounted EPUB, the files the engine generates     *)
(* from it, their common budget, the registered custom face, and the       *)
(* window through which an EPUB outside the heap is read.                  *)
(*                                                                         *)
(* Sizes are in units: a unit stands for 256 MiB of memory, or, in an      *)
(* external EPUB, for a part of a window.  A file is a blob; it lives      *)
(* while a path or a handle refers to it.  What the engine writes into its *)
(* files and in which order is left open.                                  *)
(***************************************************************************)
EXTENDS Integers, Sequences, FiniteSets, FiniteSetsExt

CONSTANTS
  Names,         \* paths of generated files
  Handles,       \* handles that the objects of the open book keep
  MaxBlobs,      \* generated files alive at once
  MaxWrite,      \* the most a single write adds
  Slacks,        \* what reserve() may allocate beyond what was asked for
  Sizes,         \* sizes of EPUBs
  BookLimit,     \* MAX_WASM_BOOK_BYTES: the worker turns larger files away
  CopyLimit,     \* MAX_COPY_EPUB_BYTES
  OwnedLimit,    \* MAX_OWNED_EPUB_BYTES
  Room,          \* SAFE_WASM_WORKING_SET less FIXED_WASM_HEADROOM
  DefaultLimit,  \* StorageBudget::kDefaultLimit
  Window,        \* Blob::kWindow
  Torn,          \* may the reader of an external EPUB fail after a short read?
  MaxFaces       \* how often a custom face is offered

ASSUME StorageAssumption ==
  /\ {MaxBlobs, MaxWrite, Window} \subseteq Nat \ {0}
  /\ {BookLimit, CopyLimit, OwnedLimit, Room, DefaultLimit, MaxFaces} \subseteq Nat
  /\ Slacks \subseteq Nat /\ Slacks # {} /\ Sizes \subseteq 1 .. BookLimit /\ Torn \in BOOLEAN
  /\ 2 * CopyLimit <= Room     \* twice 512 MiB and 1.25 GiB

VARIABLES
  store,   \* files_ and the blobs of the generated files, derivedBudget_
  handle,  \* the file each handle has open
  source,  \* the mounted EPUB and its window
  load,    \* the load under way, and the allocation the worker has made for it
  face,    \* the registered custom face, the mounted face files, the attempts
  seen     \* what the last step read from the external EPUB (history)

vars == <<store, handle, source, load, face, seen>>

-----------------------------------------------------------------------------
Blobs == 1 .. MaxBlobs
None == 0
NoBlob == [live |-> FALSE, size |-> 0, cap |-> 0]
NewBlob == [NoBlob EXCEPT !.live = TRUE]
Empty == [at \in 0 .. Window - 1 |-> -1]
Unread(kind, size) ==
  [kind |-> kind, size |-> size,
   allocated |-> FALSE, filled |-> FALSE, start |-> 0, valid |-> 0, bytes |-> Empty]  \* the window
NoSource == Unread("none", 0)
NoRead == [off |-> 0, bytes |-> << >>]

Least(x, y) == IF x < y THEN x ELSE y
Most(x, y) == IF x > y THEN x ELSE y

Total(sizes) ==
  LET sum[n \in 0 .. MaxBlobs] == IF n = 0 THEN 0 ELSE sum[n-1] + sizes[n]
  IN  sum[MaxBlobs]
Caps(s, ids) == Total([i \in Blobs |-> IF i \in ids THEN s.blobs[i].cap ELSE 0])

Init ==
  /\ store = [files |-> [n \in Names |-> None], blobs |-> [i \in Blobs |-> NoBlob],
              used |-> 0, limit |-> DefaultLimit]
  /\ handle = [h \in Handles |-> None]
  /\ source = NoSource
  /\ load = [step |-> "none", buffer |-> 0]
  /\ face = [now |-> None, files |-> {}, tries |-> 0]
  /\ seen = NoRead

-----------------------------------------------------------------------------
(***************************************************************************)
(* Blobs and their budget.                                                 *)
(***************************************************************************)
Mounted(s) == {s.files[n] : n \in Names} \ {None}
Held(hs) == {hs[h] : h \in Handles} \ {None}
Unused(s) == {i \in Blobs : ~s.blobs[i].live}

\* Mutated form: a file that loses its path dies, though a handle has it open.
Settled_PathsOnly(s, hs) ==
  LET dead == {i \in Blobs : s.blobs[i].live} \ Mounted(s)
  IN  [s EXCEPT !.blobs = [i \in Blobs |-> IF i \in dead THEN NoBlob ELSE @[i]],
                !.used = Most(0, @ - Caps(s, dead))]

\* ~Blob: what nothing refers to any more gives back its charge.
Settled(s, hs) ==
  LET kept == Mounted(s) \cup Held(hs)
      dead == {i \in Blobs : s.blobs[i].live} \ kept
  IN  [s EXCEPT !.blobs = [i \in Blobs |-> IF i \in kept THEN @[i] ELSE NoBlob],
                !.used = Most(0, @ - Caps(s, dead))]

\* setDerivedByteLimit: never below what is used.
WithLimit(s, limit) == IF limit < s.used THEN s ELSE [s EXCEPT !.limit = limit]

\* setDerivedBudgetForLoad
Narrowed(s, resident) == WithLimit(s, Least(Most(0, Room - resident), DefaultLimit))

\* reserveWritableSize: capacity doubles within the limit; an allocation beyond it empties the file.
Reserved(s, i, wanted, slack) ==
  LET b == s.blobs[i]
      other == s.used - b.cap
      available == s.limit - other
      actual == Least(Most(wanted, 2 * b.cap), available) + slack
  IN  CASE wanted <= b.cap -> [ok |-> TRUE, s |-> s]
        [] wanted > b.cap /\ wanted > available -> [ok |-> FALSE, s |-> s]
        [] wanted > b.cap /\ wanted <= available /\ actual > available ->
             [ok |-> FALSE, s |-> [s EXCEPT !.blobs[i] = NewBlob, !.used = other]]
        [] OTHER -> [ok |-> TRUE, s |-> [s EXCEPT !.blobs[i].cap = actual, !.used = other + actual]]

\* HalStorage::totalBytes: what has a path.
TotalBytes ==
  (IF source.kind = "external" THEN (IF source.allocated THEN 1 ELSE 0) ELSE source.size)
    + Caps(store, Mounted(store)) + Cardinality(face.files)

\* safeWasmWorkingSetAllows, requireInputAllocationBudget
Allows(size) == TotalBytes + size <= Room

-----------------------------------------------------------------------------
(***************************************************************************)
(* Books: begin drops the old one, the end commits or leaves no book.      *)
(***************************************************************************)
NoFace(f) == [f EXCEPT !.now = None, !.files = @ \ {f.now}]

\* Mutated form: the objects of the old book outlive its files.
Emptied_HandlesKept(s) == WithLimit(Settled([s EXCEPT !.files = [n \in Names |-> None]], handle), DefaultLimit)

\* beginBookReplacement, the store: the book's objects go, then the files, then the limit.
Emptied(s) ==
  WithLimit(Settled([s EXCEPT !.files = [n \in Names |-> None]], [h \in Handles |-> None]), DefaultLimit)

\* Mutated form: the face is not dropped before the files are.
FaceDropped_Kept == face' = [face EXCEPT !.files = {}]

\* beginBookReplacement, the face: dropRuntimeCustomFont, then clearAll.
FaceDropped == face' = [NoFace(face) EXCEPT !.files = {}]

Begins(resident) ==
  /\ store' = Narrowed(Emptied(store), resident)
  /\ handle' = [h \in Handles |-> None]
  /\ FaceDropped /\ seen' = NoRead

\* abortBookOpen: ko_unload_book
Unload ==
  /\ store' = Emptied(store)
  /\ handle' = [h \in Handles |-> None]
  /\ source' = NoSource /\ load' = [step |-> "none", buffer |-> 0]
  /\ FaceDropped /\ seen' = NoRead

Mount(kind, size, buffer) ==
  /\ source' = Unread(kind, size)
  /\ load' = [step |-> "opening", buffer |-> buffer]

MayLoad == load.step \in {"none", "open"}

\* ko_epub_alloc, while the file is being read: refused above the limit, or beside what is resident
AllocateBook(size) ==
  /\ MayLoad
  /\ IF size > OwnedLimit \/ ~Allows(size) THEN Unload
     ELSE /\ load' = [step |-> "reading", buffer |-> size]
          /\ seen' = NoRead
          /\ UNCHANGED <<store, handle, source, face>>

\* ko_load_epub_owned, when the file has been read
LoadOwned ==
  /\ load.step = "reading"
  /\ Begins(load.buffer) /\ Mount("owned", load.buffer, 0)

\* The file could not be read: the allocation is freed.
ReadFails == load.step = "reading" /\ Unload

\* ko_load_epub: the caller's bytes and the copy are alive together.  Above its limit the
\* request is turned away before anything changes (validateBookInput).
LoadCopy(size) ==
  /\ MayLoad /\ size <= CopyLimit
  /\ IF Allows(size) THEN Begins(2 * size) /\ Mount("copy", size, size) ELSE Unload

\* ko_load_epub_external: the only load without a limit of its own
LoadExternal(size) ==
  /\ MayLoad
  /\ Begins(0) /\ Mount("external", size, 0)

\* openEpub succeeds; the limit of a copied book is relaxed.
BookOpens ==
  /\ load.step = "opening"
  /\ load' = [step |-> "open", buffer |-> 0]
  /\ store' = IF source.kind = "copy" THEN Narrowed(store, source.size) ELSE store
  /\ seen' = NoRead
  /\ UNCHANGED <<handle, source, face>>

\* openEpub fails and removes the mount; the worker unloads what is left.
BookFails == load.step = "opening" /\ Unload

-----------------------------------------------------------------------------
(***************************************************************************)
(* Faces.                                                                  *)
(***************************************************************************)
\* ko_load_epdfont: the candidate is mounted and parsed before the old face goes.
LoadFace(ok) ==
  /\ MayLoad /\ face.tries < MaxFaces
  /\ LET n == face.tries + 1
     IN face' = [now |-> IF ok THEN n ELSE face.now, tries |-> n,
                 files |-> IF ok THEN (face.files \cup {n}) \ {face.now} ELSE face.files]
  /\ seen' = NoRead
  /\ UNCHANGED <<store, handle, source, load>>

\* ko_clear_custom_font
ClearFace ==
  /\ MayLoad /\ face.now # None
  /\ face' = NoFace(face) /\ seen' = NoRead
  /\ UNCHANGED <<store, handle, source, load>>

-----------------------------------------------------------------------------
(***************************************************************************)
(* Generated files, while a book is parsed or open.                        *)
(***************************************************************************)
Working == load.step \in {"opening", "open"}
FilesBecome(s, hs) ==
  /\ store' = Settled(s, hs) /\ handle' = hs /\ seen' = NoRead
  /\ UNCHANGED <<source, load, face>>

\* openFileForWrite: a new file takes the path; handles of the old one keep it alive.
OpenForWrite(h, n) ==
  /\ Working /\ Unused(store) # {}
  /\ LET i == Min(Unused(store))
     IN FilesBecome([store EXCEPT !.files[n] = i, !.blobs[i] = NewBlob],
                    [handle EXCEPT ![h] = i])

\* openFileForRead
OpenForRead(h, n) ==
  /\ Working /\ store.files[n] # None
  /\ FilesBecome(store, [handle EXCEPT ![h] = store.files[n]])

Close(h) ==
  /\ Working /\ handle[h] # None
  /\ FilesBecome(store, [handle EXCEPT ![h] = None])

\* HalFile::write, wherever seek and read have moved the handle to in its file
Write(h, at, count, slack) ==
  /\ Working /\ handle[h] # None /\ at <= store.blobs[handle[h]].size
  /\ LET i == handle[h]
         r == IF at + count > store.blobs[i].size THEN Reserved(store, i, at + count, slack)
              ELSE [ok |-> TRUE, s |-> store]
     IN FilesBecome(IF r.ok THEN [r.s EXCEPT !.blobs[i].size = Most(@, at + count)] ELSE r.s, handle)

RemoveFile(n) ==
  /\ Working /\ store.files[n] # None
  /\ FilesBecome([store EXCEPT !.files[n] = None], handle)

RenameFile(n, m) ==
  /\ Working /\ store.files[n] # None
  /\ FilesBecome([store EXCEPT !.files = [[@ EXCEPT ![n] = None] EXCEPT ![m] = store.files[n]]], handle)

-----------------------------------------------------------------------------
(***************************************************************************)
(* The window of an external EPUB.                                         *)
(***************************************************************************)
InWindow(w, at) == w.filled /\ w.start <= at /\ at < w.start + w.valid

\* Mutated form: the window is described before it has been fetched.
Filled_Early(w, at, got) ==
  LET aligned == (at \div Window) * Window
      len == Least(w.size - aligned, Window)
  IN  [ok |-> got >= len,
       w |-> [w EXCEPT !.allocated = TRUE, !.start = aligned, !.valid = len, !.filled = TRUE,
                       !.bytes = [i \in DOMAIN @ |-> IF i < got THEN aligned + i ELSE @[i]]]]

\* fillWindow: got bytes cross before the reader fails; if it does not, the window moves.
Filled(w, at, got) ==
  LET aligned == (at \div Window) * Window
      len == Least(w.size - aligned, Window)
      took == [w EXCEPT !.allocated = TRUE,
                       !.bytes = [i \in DOMAIN @ |-> IF i < Least(got, len) THEN aligned + i ELSE @[i]]]
  IN  IF got < len THEN [ok |-> FALSE, w |-> took]
      ELSE [ok |-> TRUE, w |-> [took EXCEPT !.start = aligned, !.valid = len, !.filled = TRUE]]

\* What crosses in one fetch: a browser's reader returns the whole window or fails.
Crossings == IF Torn THEN 0 .. Window ELSE {0, Window}
Fetches == {at \div Window : at \in 0 .. Max(Sizes \cup {0})}

\* The next byte, from the window or through a new one; r is what was read so far.
ReadByte(r, at, got) ==
  LET f == IF InWindow(r.w, at) THEN [ok |-> TRUE, w |-> r.w]
           ELSE Filled(r.w, at, got[at \div Window])
  IN  IF ~r.ok THEN r
      ELSE [ok |-> f.ok, w |-> f.w,
            out |-> IF f.ok THEN Append(r.out, f.w.bytes[at - f.w.start]) ELSE r.out]

\* readExternal: byte after byte, through as many windows as it takes.
ReadExternal(off, count, got) ==
  LET read[k \in 0 .. count] ==
        IF k = 0 THEN [ok |-> TRUE, w |-> source, out |-> << >>]
        ELSE ReadByte(read[k-1], off + k - 1, got)
  IN  read[count]

\* HalFile::read of the EPUB
ReadBook(off, count, got) ==
  /\ Working /\ source.kind = "external" /\ off + count <= source.size
  /\ LET r == ReadExternal(off, count, got)
     IN /\ source' = r.w
        /\ seen' = IF r.ok THEN [off |-> off, bytes |-> r.out] ELSE NoRead
  /\ UNCHANGED <<store, handle, load, face>>

-----------------------------------------------------------------------------
Loads ==
  \/ \E size \in Sizes : AllocateBook(size) \/ LoadCopy(size) \/ LoadExternal(size)
  \/ LoadOwned \/ ReadFails \/ BookOpens \/ BookFails
FaceSteps == ClearFace \/ \E ok \in BOOLEAN : LoadFace(ok)
FileSteps ==
  \/ \E h \in Handles, n \in Names : OpenForWrite(h, n) \/ OpenForRead(h, n)
  \/ \E h \in Handles, at \in 0 .. DefaultLimit, count \in 1 .. MaxWrite, slack \in Slacks :
       Write(h, at, count, slack)
  \/ \E h \in Handles : Close(h)
  \/ \E n \in Names : RemoveFile(n) \/ \E m \in Names : RenameFile(n, m)
Reads ==
  \E off \in 0 .. Max(Sizes), count \in 1 .. Max(Sizes), got \in [Fetches -> Crossings] :
    ReadBook(off, count, got)

Next == Loads \/ FaceSteps \/ FileSteps \/ Reads
Spec == Init /\ [][Next]_vars

-----------------------------------------------------------------------------
\* Every variable has its type: a path or a handle refers to a blob that is alive, and no file is
\* larger than its allocation.
TypeOK ==
  /\ store.files \in [Names -> {None} \cup Blobs] /\ store.used \in Nat /\ store.limit \in 0 .. DefaultLimit
  /\ \A i \in Blobs : store.blobs[i].live \in BOOLEAN /\ store.blobs[i].size \in 0 .. store.blobs[i].cap
  /\ \A h \in Handles : handle[h] \in {None} \cup Blobs
  /\ \A i \in Mounted(store) \cup Held(handle) : store.blobs[i].live
  /\ source.kind \in {"none", "copy", "owned", "external"} /\ source.size \in {0} \cup Sizes
  /\ {source.allocated, source.filled} \subseteq BOOLEAN /\ {source.start, source.valid} \subseteq Nat
  /\ load.step \in {"none", "reading", "opening", "open"} /\ load.buffer \in {0} \cup Sizes
  /\ face.files \subseteq 1 .. MaxFaces /\ {face.now, face.tries} \subseteq 0 .. MaxFaces

\* The budget is charged for what the files that are alive have allocated, also those that lost
\* their path while they were open, and for nothing else.
ChargeIsExact == store.used = Caps(store, {i \in Blobs : store.blobs[i].live})

\* The mounted EPUB, the caller's copy of it while it is being parsed, and all generated files
\* stay within the working set; so does the allocation for a book that is still being read.
WorkingSetFits ==
  /\ store.used <= store.limit
  /\ Working => (IF source.kind = "external" THEN 0 ELSE source.size) + load.buffer + store.limit <= Room
  /\ load.step = "reading" => load.buffer + TotalBytes <= Room
  /\ load.step \in {"none", "open"} => load.buffer = 0

MemoryIsAccounted == ChargeIsExact /\ WorkingSetFits

\* The registered face has its file, and no other face has left one behind.
FaceHasFile == face.files = {face.now} \ {None}

\* A read of an external EPUB that succeeds returns its bytes at that offset, whatever fetches
\* failed before.
ReadsAreTrue == \A k \in DOMAIN seen.bytes : seen.bytes[k] = seen.off + k - 1

===============================================================================
