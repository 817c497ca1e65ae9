----------------------------- MODULE FileCache -----------------------------
(***************************************************************************)
(* fsHandler (fasthttp/fs.go): files that are served from a cache, and     *)
(* closed by a cleaner when they have been in it for CacheDuration and     *)
(* nobody reads them.  The model has one path, with a plain and a          *)
(* compressed form; the compressed one is made when it is asked for.       *)
(***************************************************************************)
EXTENDS Integers, FiniteSets

CONSTANTS
  Calls,       \* calls of handleRequest, by goroutines
  Forms,       \* the caches: those calls ask for, of "plain" and "gzip"
  Files,       \* bound: the fsFiles that are made, 1 .. Files
  None

VARIABLES
  big,         \* whether the content is read through files of the readers' own
  cache,       \* of each form: an fsFile or None
  made,        \* how many fsFiles there were
  readers,     \* readersCount of each
  open,        \* those whose f is open
  bigFiles,    \* of each, how many readers it keeps for later
  opened,      \* history: of each, how many files of readers are open
  old,         \* those that are in the cache for longer than CacheDuration
  pending,     \* pendingFiles
  release,     \* filesToRelease, while the cleaner closes them
  at,          \* where each call is
  form,        \* fileCache
  file,        \* ff, when the call has one
  other,       \* ff1
  disk,        \* the compressed file: none, fresh, or stale
  lock,        \* the file lock of its name: a call or None
  indexes,     \* history: the fsFiles of directories, which have no f
  lost         \* history: those whose f was open when their call failed

caches == <<big, cache, made, readers, open, bigFiles, opened, old>>
cleaning == <<pending, release>>
call == <<at, form, file, other>>
system == <<disk, lock, indexes, lost>>
vars == <<caches, cleaning, call, system>>

Objects == 1 .. Files

Init ==
  /\ big \in BOOLEAN /\ cache = [f \in Forms |-> None] /\ made = 0
  /\ readers = [o \in Objects |-> 0] /\ open = {} /\ old = {}
  /\ bigFiles = [o \in Objects |-> 0] /\ opened = bigFiles
  /\ pending = {} /\ release = {}
  /\ at = [c \in Calls |-> "start"] /\ form = [c \in Calls |-> None]
  /\ file = form /\ other = form
  /\ disk \in {"none", "fresh", "stale"} /\ lock = None
  /\ indexes = {} /\ lost = {}

Goto(c, place) == at' = [at EXCEPT ![c] = place]

-----------------------------------------------------------------------------
(* handleRequest, to the file *)

Lookup(c) ==
  /\ at[c] = "start"
  /\ \E f \in Forms :
       /\ form' = [form EXCEPT ![c] = f] /\ file' = [file EXCEPT ![c] = cache[f]]
       /\ IF cache[f] = None
          THEN UNCHANGED readers /\ Goto(c, IF f = "plain" THEN "open" ELSE "compressed")
          ELSE readers' = [readers EXCEPT ![cache[f]] = @ + 1] /\ Goto(c, "have")
  /\ UNCHANGED <<big, cache, made, open, bigFiles, opened, old, cleaning, other, system>>

(* newFSFile: its f is left open when the type of the content cannot be read. *)
New(c) ==
  /\ made < Files /\ made' = made + 1 /\ open' = open \cup {made'}
  /\ \/ file' = [file EXCEPT ![c] = made'] /\ Goto(c, "insert") /\ UNCHANGED lost
     \/ Goto(c, "start") /\ lost' = lost \cup {made'} /\ UNCHANGED file
  /\ UNCHANGED <<big, cache, readers, bigFiles, opened, old, cleaning, form, other, disk, indexes>>

(* openFSFile of the plain file: it is there, or it is not. *)
Open(c) == at[c] = "open" /\ New(c) /\ UNCHANGED lock
Missing(c) ==
  /\ at[c] = "open" /\ Goto(c, "start")
  /\ UNCHANGED <<caches, cleaning, form, file, other, system>>

(* openIndexFile, createDirIndex: the fsFile of an index has no f.  (An index *)
(* that is a file is opened as the plain one.)                                *)
OpenIndex(c) ==
  /\ at[c] = "open" /\ ~ big /\ made < Files /\ made' = made + 1
  /\ indexes' = indexes \cup {made'}
  /\ file' = [file EXCEPT ![c] = made'] /\ Goto(c, "insert")
  /\ UNCHANGED <<big, cache, readers, open, bigFiles, opened, old, cleaning, form, other, disk>>
  /\ UNCHANGED <<lock, lost>>

-----------------------------------------------------------------------------
(* openFSFile of the compressed file, compressAndOpenFSFile and            *)
(* compressFileNolock                                                      *)

(* It is opened with no lock.  It may be replaced by then, but what was    *)
(* opened is one file, whole: it gets its name when it is complete.        *)
OpenCompressed(c) == at[c] = "compressed" /\ disk = "fresh" /\ New(c) /\ UNCHANGED lock

(* It is not there, or older than the plain file, which may be one that is *)
(* not to be compressed.                                                   *)
NotUsable(c) ==
  /\ at[c] = "compressed"
  /\ \/ disk = "none" /\ (Goto(c, "lock") \/ Goto(c, "open"))
     \/ disk = "stale" /\ Goto(c, "remove")
  /\ UNCHANGED <<caches, cleaning, form, file, other, system>>

(* What was stale may be what another call has made anew. *)
Remove(c) ==
  /\ at[c] = "remove" /\ disk' = "none" /\ (Goto(c, "lock") \/ Goto(c, "open"))
  /\ UNCHANGED <<caches, cleaning, form, file, other, lock, indexes, lost>>

Lock(c) ==
  /\ at[c] = "lock" /\ lock = None /\ lock' = c
  /\ Goto(c, IF disk = "none" THEN "compress" ELSE "reopen")
  /\ UNCHANGED <<caches, cleaning, form, file, other, disk, indexes, lost>>

(* Compress: into a file of another name, which is renamed at last and has *)
(* the time of the plain one as it was when it was opened.                 *)
Compress(c) ==
  /\ at[c] = "compress" /\ disk' \in {"fresh", "stale"} /\ Goto(c, "reopen")
  /\ UNCHANGED <<caches, cleaning, form, file, other, lock, indexes, lost>>

(* Without the permission to create files the plain one is served. *)
CannotCompress(c) ==
  /\ at[c] = "compress" /\ lock' = None
  /\ Goto(c, "open") \/ Goto(c, "start")
  /\ UNCHANGED <<caches, cleaning, form, file, other, disk, indexes, lost>>

(* newCompressedFSFile: what was made under the lock may have been removed *)
(* without it, and the call fails.                                         *)
Reopen(c) ==
  /\ at[c] = "reopen" /\ lock' = None
  /\ \/ disk # "none" /\ New(c)
     \/ /\ disk = "none" /\ Goto(c, "start")
        /\ UNCHANGED <<caches, cleaning, form, file, other, disk, indexes, lost>>

-----------------------------------------------------------------------------
(* handleRequest, with the file *)

(* Who comes second uses the first's, and closes its own. *)
Insert(c) ==
  /\ at[c] = "insert"
  /\ LET cached == cache[form[c]] IN
     IF cached = None
     THEN /\ cache' = [cache EXCEPT ![form[c]] = file[c]]
          /\ readers' = [readers EXCEPT ![file[c]] = @ + 1]
          /\ Goto(c, "have") /\ UNCHANGED other
     ELSE /\ readers' = [readers EXCEPT ![cached] = @ + 1] /\ Goto(c, "second")
          /\ other' = [other EXCEPT ![c] = cached] /\ UNCHANGED cache
  /\ UNCHANGED <<big, made, open, bigFiles, opened, old, cleaning, form, file, system>>

(* Release *)
Release(o) ==
  /\ open' = open \ {o}
  /\ opened' = IF o \in open /\ big THEN [opened EXCEPT ![o] = @ - bigFiles[o]] ELSE opened

Second(c) ==
  /\ at[c] = "second" /\ Release(file[c]) /\ Goto(c, "have")
  /\ file' = [file EXCEPT ![c] = other[c]] /\ other' = [other EXCEPT ![c] = None]
  /\ UNCHANGED <<big, cache, made, readers, bigFiles, old, cleaning, form, system>>

(* decReadersCount *)
Leave(c) ==
  /\ readers' = [readers EXCEPT ![file[c]] = @ - 1]
  /\ file' = [file EXCEPT ![c] = None] /\ Goto(c, "start")
  /\ UNCHANGED <<form, other>>

NotModified(c) ==
  /\ at[c] = "have" /\ Leave(c)
  /\ UNCHANGED <<big, cache, made, open, bigFiles, opened, old, cleaning, system>>

(* NewReader: a kept one, or a new one. *)
Read(c) ==
  /\ at[c] = "have" /\ Goto(c, "read")
  /\ IF ~ big THEN UNCHANGED <<bigFiles, opened>>
     ELSE IF bigFiles[file[c]] > 0
     THEN bigFiles' = [bigFiles EXCEPT ![file[c]] = @ - 1] /\ UNCHANGED opened
     ELSE opened' = [opened EXCEPT ![file[c]] = @ + 1] /\ UNCHANGED bigFiles
  /\ UNCHANGED <<big, cache, made, readers, open, old, cleaning, form, file, other, system>>

CannotRead(c) ==
  /\ at[c] = "have" /\ big /\ bigFiles[file[c]] = 0 /\ Leave(c)
  /\ UNCHANGED <<big, cache, made, open, bigFiles, opened, old, cleaning, system>>

(* Close of the reader: by handleRequest, for HEAD or a range that is not  *)
(* there, or when the response is written.  A big one is kept first.       *)
Keep(c) ==
  /\ at[c] = "read" /\ big /\ Goto(c, "leave")
  /\ \/ bigFiles' = [bigFiles EXCEPT ![file[c]] = @ + 1] /\ UNCHANGED opened
     \/ opened' = [opened EXCEPT ![file[c]] = @ - 1] /\ UNCHANGED bigFiles
  /\ UNCHANGED <<big, cache, made, readers, open, old, cleaning, form, file, other, system>>

Close(c) ==
  /\ at[c] = "leave" \/ (at[c] = "read" /\ ~ big)
  /\ Leave(c)
  /\ UNCHANGED <<big, cache, made, open, bigFiles, opened, old, cleaning, system>>

-----------------------------------------------------------------------------
(* cleanCache, by the goroutine of the handler *)

Clean ==
  /\ release = {}
  /\ LET stale == {o \in old : \E f \in Forms : cache[f] = o} IN
     /\ stale # {} \/ \E o \in pending : readers[o] = 0
     /\ release' = {o \in stale \cup pending : readers[o] = 0}
     /\ cache' = [f \in Forms |-> IF cache[f] \in stale THEN None ELSE cache[f]]
     /\ pending' = (stale \cup pending) \ release'
  /\ UNCHANGED <<big, made, readers, open, bigFiles, opened, old, call, system>>

CleanerReleases(o) ==
  /\ o \in release /\ release' = release \ {o} /\ Release(o)
  /\ UNCHANGED <<big, cache, made, readers, bigFiles, old, pending, call, system>>

-----------------------------------------------------------------------------
Grow ==
  /\ \E f \in Forms : cache[f] # None /\ cache[f] \notin old /\ old' = old \cup {cache[f]}
  /\ UNCHANGED <<big, cache, made, readers, open, bigFiles, opened, cleaning, call, system>>

(* The plain file is written. *)
Modify ==
  /\ disk = "fresh" /\ disk' = "stale"
  /\ UNCHANGED <<caches, cleaning, call, lock, indexes, lost>>

CallStep(c) ==
  \/ Lookup(c) \/ Open(c) \/ Missing(c) \/ OpenIndex(c)
  \/ OpenCompressed(c) \/ NotUsable(c) \/ Remove(c) \/ Lock(c) \/ Compress(c)
  \/ CannotCompress(c) \/ Reopen(c)
  \/ Insert(c) \/ Second(c) \/ NotModified(c) \/ Read(c) \/ CannotRead(c) \/ Keep(c) \/ Close(c)
Next ==
  \/ \E c \in Calls : CallStep(c)
  \/ Clean \/ Grow \/ Modify
  \/ \E o \in Objects : CleanerReleases(o)

Spec == Init /\ [][Next]_vars

-----------------------------------------------------------------------------
Holds(c, o) == \/ file[c] = o /\ at[c] \in {"have", "read", "leave"}
               \/ other[c] = o
Holders(o) == {c \in Calls : Holds(c, o)}
Cached == {o \in Objects : \E f \in Forms : cache[f] = o}

(* A file that a call reads is open, however long the call takes and       *)
(* whatever the cleaner has found, as readersCount is the number of calls  *)
(* that have it (fs.go:751-797, 905-911).                                  *)
ReadersAreCounted == \A o \in Objects : readers[o] = Cardinality(Holders(o))
ReadFilesAreOpen ==
  ReadersAreCounted /\ \A o \in Objects : readers[o] > 0 => o \in open \cup indexes

(* A file that is open will be closed: the cache or the cleaner has it, or *)
(* the call that opened it, unless that call has failed with it open; and  *)
(* with it go the files its readers have left (fs.go:589-601, 645-662).    *)
FilesAreClosed ==
  \A o \in Objects :
    IF o \in open
    THEN \/ o \in lost \cup pending \cup release \cup Cached
         \/ \E c \in Calls : file[c] = o /\ at[c] \in {"insert", "second"}
    ELSE opened[o] = 0

-----------------------------------------------------------------------------
(* Why they hold.  Files of readers are kept by the file, or read.         *)
Reading(o) == {c \in Calls : file[c] = o /\ at[c] = "read"}
Made == 1 .. made

TypeOK ==
  /\ big \in BOOLEAN /\ made \in 0 .. Files
  /\ cache \in [Forms -> Made \cup {None}]
  /\ readers \in [Objects -> Int] /\ bigFiles \in [Objects -> Nat]
  /\ opened \in [Objects -> Int]
  /\ open \subseteq Made /\ old \subseteq Made /\ indexes \subseteq Made
  /\ pending \subseteq Made /\ release \subseteq Made
  /\ at \in [Calls -> {"start", "open", "compressed", "remove", "lock", "compress",
                       "reopen", "insert", "second", "have", "read", "leave"}]
  /\ form \in [Calls -> Forms \cup {None}] /\ file \in [Calls -> Made \cup {None}]
  /\ other \in [Calls -> Made \cup {None}]
  /\ \A o \in Objects \ Made : bigFiles[o] = 0

(* A call has a file from when it has made or found it; the one it has     *)
(* made is its own until it is in the cache or closed.                     *)
CallsHaveFiles ==
  \A c \in Calls :
    /\ file[c] # None <=> at[c] \in {"insert", "second", "have", "read", "leave"}
    /\ other[c] # None <=> at[c] = "second"
    /\ at[c] = "insert" => form[c] # None
    /\ at[c] \in {"open", "compressed", "remove", "lock", "compress", "reopen"} => form[c] # None
NewFilesAreOwn ==
  \A c \in Calls : at[c] \in {"insert", "second"} =>
    /\ file[c] \in (open \cup indexes) \ (Cached \cup pending \cup release)
    /\ \A d \in Calls : other[d] # file[c] /\ (d # c => file[d] # file[c])

(* What is read is in the cache or waits for its last reader.              *)
HeldFilesAreKept ==
  /\ \A c \in Calls, o \in Objects : Holds(c, o) => o \in Cached \cup pending
  /\ Cached \cup pending \subseteq open \cup indexes
  /\ Cached \cap pending = {} /\ (Cached \cup pending) \cap release = {}

BigFilesAreCounted ==
  IF big
  THEN /\ indexes = {}
       /\ \A o \in open : opened[o] = bigFiles[o] + Cardinality(Reading(o))
  ELSE \A o \in Objects : opened[o] = 0 /\ bigFiles[o] = 0

Inv ==
  /\ TypeOK /\ CallsHaveFiles /\ NewFilesAreOwn /\ HeldFilesAreKept /\ BigFilesAreCounted
  /\ ReadFilesAreOpen /\ FilesAreClosed
=============================================================================
