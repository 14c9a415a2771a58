------------------------------ MODULE FileNode ------------------------------
(***************************************************************************)
(* One path of the file system: the nodes made for it                      *)
(* (src/src/marc_file_node.cpp), the callbacks that drive them or create   *)
(* and remove the path (src/src/fuse_hooks.cpp), the size the stat cache   *)
(* remembers for it, and what the cloud stores under its names.            *)
(*                                                                         *)
(* A file above MaxFileSize is stored as numbered parts, any other under   *)
(* its own name.  A node remembers the size the path had (oldFileSize) and *)
(* derives from it which names to download or remove.  A flush removes the *)
(* old names one request at a time and then uploads the new ones, so every *)
(* request is a step of its own and other threads may act in between.  A   *)
(* request may fail before or after the cloud has carried it out;          *)
(* doWithRetry then runs the whole lambda again or gives up.               *)
(***************************************************************************)
EXTENDS Compound

CONSTANTS Nodes,         \* MarcFileNode objects that may be alive at once
          Listers,       \* threads that list the directory of the path
          Bytes,         \* what a byte of the file may be
          Zero,          \* the byte a storage is padded with
          MaxSize,       \* bound: size of the file
          TruncateSizes, \* the sizes truncate may ask for
          Retries,       \* attempts of doWithRetry
          MaxFaults,     \* bound: failed requests
          MaxTempFiles,  \* bound: files in the cache directory
          Concurrent     \* what may overlap a transfer: "write", "list"

ASSUME FileNodeAssumption ==
    /\ Zero \in Bytes
    /\ MaxSize \in Nat
    /\ TruncateSizes \subseteq 0..MaxSize
    /\ Retries \in Nat \ {0}
    /\ MaxFaults \in Nat
    /\ MaxTempFiles \in Nat
    /\ Concurrent \subseteq {"write", "list"}

VARIABLES cloud,          \* function from the names stored to their contents
          role,           \* what each node object was made for
          cachedContent,  \* its backing storage
          dirty,          \* it needs an upload
          oldFileSize,    \* the size it believes the cloud has
          job,            \* the doWithRetry call that is using it
          flushed,        \* the kernel has sent a flush since the last write
          statSize,       \* st_size of the path in the stat cache
          listing,        \* a lister's answer from ls, not yet in the cache
          tempFiles,      \* files of FileStorage in the cache directory
          faults,         \* failed requests so far
          gaveUp,         \* history: some call has returned an error
          halfDone        \* history: and nobody has made up for it

nodeVars == <<role, cachedContent, dirty, oldFileSize, flushed>>
vars == <<cloud, role, cachedContent, dirty, oldFileSize, job, flushed,
          statSize, listing, tempFiles, faults, gaveUp, halfDone>>

-----------------------------------------------------------------------------
(* Names and contents. *)

(***************************************************************************)
(* What upload sends as the i-th piece of s, in a loop laid out for size.  *)
(***************************************************************************)
Piece(s, size, i) ==
    LET end == (i + 1) * MaxFileSize
    IN  IF IsCompound(size)
        THEN SubSeq(s, i * MaxFileSize + 1, IF Len(s) < end THEN Len(s) ELSE end)
        ELSE s

Stored(name, s) ==
    [x \in DOMAIN cloud \cup {name} |-> IF x = name THEN s ELSE cloud[x]]
Removed(name) == [x \in DOMAIN cloud \ {name} |-> cloud[x]]

(***************************************************************************)
(* The storage: truncate pads with zero bytes, and so does a write beyond  *)
(* the end.  A write of one byte stands for writes of any length.          *)
(***************************************************************************)
Resized(s, n) == [i \in 1..n |-> IF i <= Len(s) THEN s[i] ELSE Zero]
WriteAt(s, off, b) ==
    [Resized(s, IF off < Len(s) THEN Len(s) ELSE off + 1) EXCEPT ![off + 1] = b]

-----------------------------------------------------------------------------
(***************************************************************************)
(* job[h]: the phase of the lambda, the next request of the phase's loop,  *)
(* the size that laid the loop out, the attempts left, and the size a      *)
(* truncate by path asks for.                                              *)
(***************************************************************************)
Phases == {"idle", "open", "remove", "upload", "cleanup", "unlink"}
Jobs == [phase : Phases, idx : Nat, size : Nat, left : 0..Retries, trunc : Nat]
NoJob == [phase |-> "idle", idx |-> 0, size |-> 0, left |-> 0, trunc |-> 0]
NewJob(p, size, n) ==
    [phase |-> p, idx |-> 0, size |-> size, left |-> Retries, trunc |-> n]

TypeOK ==
    /\ DOMAIN cloud \subseteq Names
    /\ \A x \in DOMAIN cloud : cloud[x] \in Seq(Bytes)
    /\ role \in [Nodes -> {"none", "handle", "truncate", "unlink"}]
    /\ cachedContent \in [Nodes -> Seq(Bytes)]
    /\ dirty \in [Nodes -> BOOLEAN]
    /\ oldFileSize \in [Nodes -> Nat]
    /\ job \in [Nodes -> Jobs]
    /\ flushed \in [Nodes -> BOOLEAN]
    /\ statSize \in Nat \cup {NoEntry}
    /\ listing \in [Listers -> Nat \cup {NoEntry}]
    /\ tempFiles \in 0..MaxTempFiles
    /\ faults \in 0..MaxFaults
    /\ gaveUp \in BOOLEAN /\ halfDone \in BOOLEAN

Init ==
    /\ cloud = [x \in {} |-> <<>>]
    /\ role = [h \in Nodes |-> "none"]
    /\ cachedContent = [h \in Nodes |-> <<>>]
    /\ dirty = [h \in Nodes |-> FALSE]
    /\ oldFileSize = [h \in Nodes |-> 0]
    /\ job = [h \in Nodes |-> NoJob]
    /\ flushed = [h \in Nodes |-> FALSE]
    /\ statSize = NoEntry
    /\ listing = [r \in Listers |-> NoEntry]
    /\ tempFiles = 0
    /\ faults = 0
    /\ gaveUp = FALSE /\ halfDone = FALSE

Idle(h) == job[h].phase = "idle"
Name(h) == NameAt(job[h].size, job[h].idx)
LastRequest(h) == job[h].idx + 1 = Count(job[h].size)

(* Transfers and listings keep apart unless they may overlap. *)
NoTransfer == "list" \in Concurrent \/ \A h \in Nodes : Idle(h)
NoListing == "list" \in Concurrent \/ \A r \in Listers : listing[r] = NoEntry

(* The kernel lets nothing else run on a path that is being unlinked. *)
Unlinking == \E h \in Nodes : role[h] = "unlink"
Unused == \A h \in Nodes : role[h] = "none"

NextRequest(h) == [job EXCEPT ![h].idx = @ + 1]
Loop(h, p, size) == [job EXCEPT ![h].phase = p, ![h].idx = 0, ![h].size = size]

(***************************************************************************)
(* CacheManager::update changes an entry and never makes one.              *)
(***************************************************************************)
Updated(size) == IF statSize = NoEntry THEN NoEntry ELSE size

(* MarcFileNode::getSize *)
GetSize(s, old) == IF s # <<>> THEN Len(s) ELSE old

DropNode(h) ==
    /\ role' = [role EXCEPT ![h] = "none"]
    /\ cachedContent' = [cachedContent EXCEPT ![h] = <<>>]
    /\ dirty' = [dirty EXCEPT ![h] = FALSE]
    /\ oldFileSize' = [oldFileSize EXCEPT ![h] = 0]
    /\ flushed' = [flushed EXCEPT ![h] = FALSE]
    /\ job' = [job EXCEPT ![h] = NoJob]

-----------------------------------------------------------------------------
(* Faulty variants of the steps below, which show that the properties have *)
(* teeth: a truncate that does not set dirty, ...                          *)
TruncateForgetsDirty(h, n) ==
    /\ role[h] = "handle" /\ Idle(h)
    /\ cachedContent' = [cachedContent EXCEPT ![h] = Resized(@, n)]
    /\ oldFileSize' = [oldFileSize EXCEPT ![h] = n]
    /\ statSize' = Updated(n)
    /\ UNCHANGED <<cloud, role, dirty, job, flushed, listing, tempFiles,
                   faults, gaveUp, halfDone>>

(* ... a flush that does not remove the old names, that does not record    *)
(* the new size in the cache, or that starts over instead of ending, ...   *)
FlushWithoutRemove(h) ==
    /\ role[h] = "handle" /\ Idle(h) /\ dirty[h]
    /\ NoListing
    /\ job' = [job EXCEPT ![h] = NewJob("upload", Len(cachedContent[h]), 0)]
    /\ flushed' = [flushed EXCEPT ![h] = TRUE]
    /\ UNCHANGED <<cloud, role, cachedContent, dirty, oldFileSize, statSize,
                   listing, tempFiles, faults, gaveUp, halfDone>>

CleanupWithoutUpdate(h) ==
    /\ job[h].phase = "cleanup" /\ role[h] = "handle"
    /\ dirty' = [dirty EXCEPT ![h] = FALSE]
    /\ oldFileSize' = [oldFileSize EXCEPT ![h] = Len(cachedContent[h])]
    /\ job' = [job EXCEPT ![h] = NoJob]
    /\ UNCHANGED <<cloud, role, cachedContent, flushed, statSize, listing,
                   tempFiles, faults, gaveUp, halfDone>>

FlushUntilClean(h) ==
    /\ job[h].phase = "cleanup" /\ role[h] = "handle"
    /\ oldFileSize' = [oldFileSize EXCEPT ![h] = Len(cachedContent[h])]
    /\ job' = Loop(h, "remove", Len(cachedContent[h]))
    /\ UNCHANGED <<cloud, role, cachedContent, dirty, flushed, statSize, listing,
                   tempFiles, faults, gaveUp, halfDone>>

(* ... a release that leaves the temporary file, an unlink that asks a     *)
(* default node for its names, a failed flush that takes the new size for  *)
(* the size the cloud has.                                                 *)
ReleaseLeavesFile(h) ==
    /\ role[h] = "handle" /\ Idle(h) /\ flushed[h]
    /\ DropNode(h)
    /\ halfDone' = (halfDone \/ dirty[h])
    /\ UNCHANGED <<cloud, statSize, listing, tempFiles, faults, gaveUp>>

UnlinkWithFreshNode(h) ==
    /\ Unused /\ NoListing /\ statSize # NoEntry
    /\ role' = [role EXCEPT ![h] = "unlink"]
    /\ job' = [job EXCEPT ![h] = NewJob("unlink", 0, 0)]
    /\ UNCHANGED <<cloud, cachedContent, dirty, oldFileSize, flushed, statSize,
                   listing, tempFiles, faults, gaveUp, halfDone>>

-----------------------------------------------------------------------------
(***************************************************************************)
(* mknodCallback, for a path the kernel knows to be absent.                *)
(***************************************************************************)
Mknod ==
    /\ Unused
    /\ NoListing
    /\ statSize = NoEntry
    /\ ListedSize(cloud) = NoEntry
    /\ cloud' = Stored(Whole, <<>>)
    /\ UNCHANGED <<nodeVars, job, statSize, listing, tempFiles, faults, gaveUp, halfDone>>

(***************************************************************************)
(* getattrCallback on a cache miss, or readdirCallback: ls answers, and    *)
(* later the size is put in the cache.  A listing without the file leaves  *)
(* the cache alone.                                                        *)
(***************************************************************************)
Ls(r) ==
    /\ NoTransfer
    /\ listing[r] = NoEntry
    /\ ListedSize(cloud) # NoEntry
    /\ listing' = [listing EXCEPT ![r] = ListedSize(cloud)]
    /\ UNCHANGED <<cloud, nodeVars, job, statSize, tempFiles, faults, gaveUp, halfDone>>

PutListing(r) ==
    /\ listing[r] # NoEntry
    /\ statSize' = listing[r]
    /\ listing' = [listing EXCEPT ![r] = NoEntry]
    /\ UNCHANGED <<cloud, nodeVars, job, tempFiles, faults, gaveUp, halfDone>>

(***************************************************************************)
(* openCallback makes a node of the cached size, whose storage opens a     *)
(* temporary file.  The kernel has looked the path up before.              *)
(***************************************************************************)
BeginOpen(h) ==
    /\ role[h] = "none"
    /\ ~Unlinking
    /\ NoListing
    /\ statSize # NoEntry
    /\ tempFiles < MaxTempFiles
    /\ role' = [role EXCEPT ![h] = "handle"]
    /\ oldFileSize' = [oldFileSize EXCEPT ![h] = statSize]
    /\ job' = [job EXCEPT ![h] = NewJob("open", statSize, 0)]
    /\ tempFiles' = tempFiles + 1
    /\ UNCHANGED <<cloud, cachedContent, dirty, flushed, statSize, listing,
                   faults, gaveUp, halfDone>>

(***************************************************************************)
(* truncateCallback without a handle: a temporary node, whose oldFileSize  *)
(* is 0, downloads the file, is truncated, flushed and released.           *)
(***************************************************************************)
BeginTruncate(h, n) ==
    /\ role[h] = "none"
    /\ ~Unlinking
    /\ NoListing
    /\ statSize # NoEntry
    /\ tempFiles < MaxTempFiles
    /\ role' = [role EXCEPT ![h] = "truncate"]
    /\ job' = [job EXCEPT ![h] = NewJob("open", 0, n)]
    /\ tempFiles' = tempFiles + 1
    /\ UNCHANGED <<cloud, cachedContent, dirty, oldFileSize, flushed, statSize,
                   listing, faults, gaveUp, halfDone>>

(***************************************************************************)
(* MarcFileNode::open: one download appends one piece to the storage.      *)
(* After the last one a handle is open; a temporary node is truncated and  *)
(* goes on to flush.                                                       *)
(***************************************************************************)
Download(h) ==
    /\ job[h].phase = "open"
    /\ Name(h) \in DOMAIN cloud
    /\ LET s == cachedContent[h] \o cloud[Name(h)]
           n == job[h].trunc
       IN  \/ /\ ~LastRequest(h)
              /\ cachedContent' = [cachedContent EXCEPT ![h] = s]
              /\ job' = NextRequest(h)
              /\ UNCHANGED <<dirty, oldFileSize>>
           \/ /\ LastRequest(h) /\ role[h] = "handle"
              /\ cachedContent' = [cachedContent EXCEPT ![h] = s]
              /\ job' = [job EXCEPT ![h] = NoJob]
              /\ UNCHANGED <<dirty, oldFileSize>>
           \/ /\ LastRequest(h) /\ role[h] = "truncate"
              /\ cachedContent' = [cachedContent EXCEPT ![h] = Resized(s, n)]
              /\ oldFileSize' = [oldFileSize EXCEPT ![h] = n]
              /\ dirty' = [dirty EXCEPT ![h] = TRUE]
              /\ job' = Loop(h, "remove", n)
    /\ UNCHANGED <<cloud, role, flushed, statSize, listing, tempFiles,
                   faults, gaveUp, halfDone>>

(***************************************************************************)
(* writeCallback and truncateCallback on an open handle.  Neither takes    *)
(* netMutex, so either may run while another thread flushes the handle.    *)
(***************************************************************************)
Writable(h) ==
    /\ role[h] = "handle"
    /\ Idle(h) \/ ("write" \in Concurrent /\ job[h].phase # "open")

Write(h, off, b) ==
    /\ Writable(h)
    /\ cachedContent' = [cachedContent EXCEPT ![h] = WriteAt(@, off, b)]
    /\ dirty' = [dirty EXCEPT ![h] = TRUE]
    /\ flushed' = [flushed EXCEPT ![h] = FALSE]
    /\ UNCHANGED <<cloud, role, oldFileSize, job, statSize, listing, tempFiles,
                   faults, gaveUp, halfDone>>

TruncateOpen(h, n) ==
    /\ Writable(h)
    /\ cachedContent' = [cachedContent EXCEPT ![h] = Resized(@, n)]
    /\ oldFileSize' = [oldFileSize EXCEPT ![h] = n]
    /\ dirty' = [dirty EXCEPT ![h] = TRUE]
    /\ flushed' = [flushed EXCEPT ![h] = FALSE]
    /\ statSize' = Updated(n)
    /\ UNCHANGED <<cloud, role, job, listing, tempFiles, faults, gaveUp, halfDone>>

(***************************************************************************)
(* flushCallback: a clean node only updates the cache, a dirty one starts  *)
(* to remove the names its oldFileSize stands for.                         *)
(***************************************************************************)
FlushClean(h) ==
    /\ role[h] = "handle" /\ Idle(h) /\ ~dirty[h]
    /\ statSize' = Updated(GetSize(cachedContent[h], oldFileSize[h]))
    /\ flushed' = [flushed EXCEPT ![h] = TRUE]
    /\ UNCHANGED <<cloud, role, cachedContent, dirty, oldFileSize, job, listing,
                   tempFiles, faults, gaveUp, halfDone>>

BeginFlush(h) ==
    /\ role[h] = "handle" /\ Idle(h) /\ dirty[h]
    /\ NoListing
    /\ job' = [job EXCEPT ![h] = NewJob("remove", oldFileSize[h], 0)]
    /\ flushed' = [flushed EXCEPT ![h] = TRUE]
    /\ UNCHANGED <<cloud, role, cachedContent, dirty, oldFileSize, statSize,
                   listing, tempFiles, faults, gaveUp, halfDone>>

(***************************************************************************)
(* One remove request of a flush; after the last one the uploads begin,    *)
(* laid out for the size of the content at that moment.  The cloud may     *)
(* accept the removal of a name it does not have (Refused: or not).        *)
(***************************************************************************)
Remove(h) ==
    /\ job[h].phase = "remove"
    /\ cloud' = Removed(Name(h))
    /\ job' = IF LastRequest(h) THEN Loop(h, "upload", Len(cachedContent[h]))
                                ELSE NextRequest(h)
    /\ UNCHANGED <<nodeVars, statSize, listing, tempFiles, faults, gaveUp, halfDone>>

Upload(h) ==
    /\ job[h].phase = "upload"
    /\ cloud' = Stored(Name(h), Piece(cachedContent[h], job[h].size, job[h].idx))
    /\ job' = IF LastRequest(h) THEN Loop(h, "cleanup", 0) ELSE NextRequest(h)
    /\ UNCHANGED <<nodeVars, statSize, listing, tempFiles, faults, gaveUp, halfDone>>

(***************************************************************************)
(* The end of flush, and the cache update that follows it.  A temporary    *)
(* node is released: its storage is cleared and its file deleted.          *)
(***************************************************************************)
Cleanup(h) ==
    /\ job[h].phase = "cleanup"
    /\ statSize' = Updated(Len(cachedContent[h]))
    /\ \/ /\ role[h] = "handle"
          /\ dirty' = [dirty EXCEPT ![h] = FALSE]
          /\ oldFileSize' = [oldFileSize EXCEPT ![h] = Len(cachedContent[h])]
          /\ job' = [job EXCEPT ![h] = NoJob]
          /\ UNCHANGED <<role, cachedContent, flushed, tempFiles>>
       \/ /\ role[h] = "truncate"
          /\ DropNode(h)
          /\ tempFiles' = tempFiles - 1
    /\ UNCHANGED <<cloud, listing, faults, gaveUp, halfDone>>

(***************************************************************************)
(* releaseCallback: the kernel sends it after the flush of the last close, *)
(* which may have failed: then nobody will flush the content again.        *)
(***************************************************************************)
Release(h) ==
    /\ role[h] = "handle" /\ Idle(h) /\ flushed[h]
    /\ DropNode(h)
    /\ tempFiles' = tempFiles - 1
    /\ halfDone' = (halfDone \/ dirty[h])
    /\ UNCHANGED <<cloud, statSize, listing, faults, gaveUp>>

(***************************************************************************)
(* unlinkCallback: a node of the cached size removes its names, then the   *)
(* entry leaves the cache.  libfuse hides an open file instead.            *)
(***************************************************************************)
BeginUnlink(h) ==
    /\ Unused
    /\ NoListing
    /\ statSize # NoEntry
    /\ role' = [role EXCEPT ![h] = "unlink"]
    /\ oldFileSize' = [oldFileSize EXCEPT ![h] = statSize]
    /\ job' = [job EXCEPT ![h] = NewJob("unlink", statSize, 0)]
    /\ UNCHANGED <<cloud, cachedContent, dirty, flushed, statSize, listing,
                   tempFiles, faults, gaveUp, halfDone>>

Unlink(h) ==
    /\ job[h].phase = "unlink"
    /\ cloud' = Removed(Name(h))
    /\ \/ /\ ~LastRequest(h)
          /\ job' = NextRequest(h)
          /\ UNCHANGED <<nodeVars, statSize>>
       \/ /\ LastRequest(h)
          /\ DropNode(h)
          /\ statSize' = NoEntry
    /\ UNCHANGED <<listing, tempFiles, faults, gaveUp, halfDone>>

-----------------------------------------------------------------------------
(***************************************************************************)
(* doWithRetry returns an error.  A handle that was being flushed stays    *)
(* open and dirty; any other node is gone, and nobody deletes the          *)
(* temporary file of a node that was not released.  The handle can still   *)
(* be flushed; a truncate or an unlink is left half done.                  *)
(***************************************************************************)
GiveUp(h) ==
    /\ gaveUp' = TRUE
    /\ halfDone' = (halfDone \/ role[h] \in {"truncate", "unlink"})
    /\ \/ /\ role[h] = "handle" /\ job[h].phase # "open"
          /\ job' = [job EXCEPT ![h] = NoJob]
          /\ UNCHANGED nodeVars
       \/ /\ ~(role[h] = "handle" /\ job[h].phase # "open")
          /\ DropNode(h)

(***************************************************************************)
(* doWithRetry runs the lambda again: open makes another node from the     *)
(* cached size and another temporary file, truncate starts with a fresh    *)
(* node, flush finds the node still dirty, unlink starts over.             *)
(***************************************************************************)
Retry(h) ==
    LET again == [job[h] EXCEPT !.left = @ - 1, !.idx = 0]
    IN  /\ job[h].left > 1
        /\ \/ /\ role[h] = "handle" /\ job[h].phase = "open"
              /\ statSize # NoEntry
              /\ tempFiles < MaxTempFiles
              /\ cachedContent' = [cachedContent EXCEPT ![h] = <<>>]
              /\ oldFileSize' = [oldFileSize EXCEPT ![h] = statSize]
              /\ job' = [job EXCEPT ![h] = [again EXCEPT !.size = statSize]]
              /\ tempFiles' = tempFiles + 1
              /\ UNCHANGED <<role, dirty, flushed>>
           \/ /\ role[h] = "truncate"
              /\ tempFiles < MaxTempFiles
              /\ cachedContent' = [cachedContent EXCEPT ![h] = <<>>]
              /\ oldFileSize' = [oldFileSize EXCEPT ![h] = 0]
              /\ dirty' = [dirty EXCEPT ![h] = FALSE]
              /\ job' = [job EXCEPT ![h] =
                             [again EXCEPT !.phase = "open", !.size = 0]]
              /\ tempFiles' = tempFiles + 1
              /\ UNCHANGED <<role, flushed>>
           \/ /\ role[h] = "handle" /\ job[h].phase # "open"
              /\ job' = [job EXCEPT ![h] =
                    [again EXCEPT !.phase = "remove", !.size = oldFileSize[h]]]
              /\ UNCHANGED <<nodeVars, tempFiles>>
           \/ /\ role[h] = "unlink"
              /\ job' = [job EXCEPT ![h] = again]
              /\ UNCHANGED <<nodeVars, tempFiles>>

(* What the request in flight does to the cloud, if it gets there. *)
Effect(h) ==
    IF job[h].phase \in {"remove", "unlink"} THEN Removed(Name(h))
    ELSE IF job[h].phase = "upload"
    THEN Stored(Name(h), Piece(cachedContent[h], job[h].size, job[h].idx))
    ELSE cloud

(***************************************************************************)
(* The cloud refuses to serve a name it does not have: an error below 500. *)
(***************************************************************************)
Refused(h) ==
    /\ job[h].phase \in {"open", "remove", "unlink"}
    /\ Name(h) \notin DOMAIN cloud
    /\ GiveUp(h)
    /\ UNCHANGED <<cloud, statSize, listing, tempFiles, faults>>

(***************************************************************************)
(* A request fails; the cloud may have carried it out all the same.        *)
(***************************************************************************)
Fault(h) ==
    /\ job[h].phase \in {"open", "remove", "upload", "unlink"}
    /\ faults < MaxFaults
    /\ faults' = faults + 1
    /\ cloud' \in {cloud, Effect(h)}
    /\ \/ Retry(h) /\ UNCHANGED <<gaveUp, halfDone>>
       \/ GiveUp(h) /\ UNCHANGED tempFiles
    /\ UNCHANGED <<statSize, listing>>

(* The requests of a job and the steps that end it. *)
Request(h) ==
    \/ Download(h)
    \/ Remove(h)
    \/ Upload(h)
    \/ Cleanup(h)
    \/ Unlink(h)
    \/ Refused(h)

Next ==
    \/ Mknod
    \/ \E r \in Listers : Ls(r) \/ PutListing(r)
    \/ \E h \in Nodes :
          \/ BeginOpen(h)
          \/ \E n \in TruncateSizes : BeginTruncate(h, n) \/ TruncateOpen(h, n)
          \/ \E off \in 0..(MaxSize - 1), b \in Bytes : Write(h, off, b)
          \/ FlushClean(h)
          \/ BeginFlush(h)
          \/ Release(h)
          \/ BeginUnlink(h)
          \/ Request(h)
          \/ Fault(h)

Safety == Init /\ [][Next]_vars

(***************************************************************************)
(* A request is always answered in the end; nothing forces one to be made. *)
(***************************************************************************)
Spec == Safety /\ \A h \in Nodes : WF_vars(Request(h))

-----------------------------------------------------------------------------
(* A call that was given up between two requests, and that nobody repeats, *)
(* may leave the parts of two layouts behind.  A file that is never split  *)
(* has one name only.                                                      *)
NothingHalfDone == ~halfDone \/ ~IsCompound(MaxSize)

(***************************************************************************)
(* A node that is open, at rest and not dirty shows exactly what the cloud *)
(* stores for the path: nothing of the old file is left over, no piece is  *)
(* missing, and joining the pieces again gives the content back.  Failed   *)
(* requests do not change this as long as a retry or a later flush of the  *)
(* handle makes up for them, and never for a file of one piece.            *)
(***************************************************************************)
FlushedIsDurable ==
    \A h \in Nodes :
        NothingHalfDone /\ role[h] = "handle" /\ Idle(h) /\ ~dirty[h]
            => cloud = StoredAs(cachedContent[h])

(***************************************************************************)
(* When unlink succeeds no name of the path is left, so that the next      *)
(* listing cannot bring the file back, also after retries of any call.     *)
(***************************************************************************)
UnlinkLeavesNothing ==
    [][\A h \in Nodes :
          NothingHalfDone /\ role[h] = "unlink" /\ statSize' = NoEntry
              => DOMAIN cloud' = {}]_vars

(***************************************************************************)
(* Every temporary file belongs to a node whose storage is open, so the    *)
(* cache directory is empty once all files are closed.  A failed download  *)
(* abandons its node and the file, so this speaks of healthy mounts.       *)
(***************************************************************************)
CacheDirTidy ==
    faults = 0 /\ ~gaveUp =>
        tempFiles = Cardinality({h \in Nodes : role[h] \in {"handle", "truncate"}})

(***************************************************************************)
(* Between operations the size in the stat cache, which decides the names  *)
(* the next open or unlink uses, is the size the cloud would list, also    *)
(* after failed calls that were made up for.                               *)
(***************************************************************************)
StatIsListed ==
    ~halfDone /\ Unused /\ statSize # NoEntry
        => statSize = ListedSize(cloud)

(***************************************************************************)
(* Every open, flush, truncate and unlink comes to an end.                 *)
(***************************************************************************)
JobsEnd == \A h \in Nodes : ~Idle(h) ~> Idle(h)
=============================================================================
