----------------------------- MODULE StatCache -----------------------------
(***************************************************************************)
(* CacheManager (src/src/mru_cache.cpp) under the callbacks that use it    *)
(* from several threads, with time: an entry expires Ttl after it was put, *)
(* and the kernel trusts an answer of getattr for AttrTimeout more         *)
(* (initCallback, src/src/fuse_hooks.cpp).                                 *)
(*                                                                         *)
(* put, update and remove are one critical section each.  get has two: it  *)
(* finds the entry under the shared lock and, when that has expired, lets  *)
(* go, takes the lock alone and erases by the iterator it still has.  A    *)
(* caller reads the entry get returned when no lock is held any more.      *)
(*                                                                         *)
(* A path is a size here; how a file is stored, and written beside its own *)
(* flush, is in FileNode.  A rename works on two paths: each of its halves *)
(* is a call of its own.  Another device may change the cloud at any time. *)
(***************************************************************************)
EXTENDS Integers, FiniteSets

CONSTANTS Threads,      \* threads of libfuse
          Paths,        \* the files of one directory
          Sizes,        \* sizes a file may have
          NoEntry,      \* no entry in the cache, no file of that name
          Ttl,          \* cacheTtl
          AttrTimeout,  \* entry_timeout, attr_timeout and negative_timeout
          MaxCall       \* assumption: how long a callback may take

ASSUME StatCacheAssumption ==
    /\ 0 \in Sizes /\ Sizes \subseteq Nat
    /\ NoEntry \notin Sizes
    /\ Ttl \in Nat /\ AttrTimeout \in Nat /\ MaxCall \in Nat

VARIABLES statCache,  \* the map: a size and its age, by path
          cloud,      \* what the cloud would list
          handle,     \* the node open on a path, its size and dirty flag
          call,       \* the callback each thread is in
          kernel,     \* the kernel's own cache: a size and how long it is good
          alive,      \* the process has not crashed
          behind,     \* history: the time since a path had a size
          disturbed   \* history: paths whose entry may have missed a change

cacheVars == <<statCache, disturbed>>
worldVars == <<cloud, handle, behind>>
vars == <<statCache, cloud, handle, call, kernel, alive, behind, disturbed>>

-----------------------------------------------------------------------------
Answers == Sizes \cup {NoEntry}
Entries == [size : Sizes, age : 0..(Ttl + 1)]
Handles == [size : Sizes, dirty : BOOLEAN]
NoTrust == [size |-> NoEntry, left |-> 0]

ASSUME NoEntryAssumption == NoEntry \notin Entries \cup Handles

(* The longest a size may be shown after the file has lost it. *)
Limit == Ttl + AttrTimeout + 2 * MaxCall

(***************************************************************************)
(* A call: the callback and the step it is at, the path, how long it has   *)
(* run, the size it has from the cache or is to give the file, whether the *)
(* CacheNode it holds is still the one in the map, whether its iterator    *)
(* still points into the map, the answer of ls and what is left to put.    *)
(* Nothing but a listing runs beside an op of Alone; at a step of Changes  *)
(* the callback is changing the file or is about to tell the cache.        *)
(***************************************************************************)
Alone == {"unlink", "rmdir", "rename"}
Ops == Alone \cup {"getattr", "readdir", "open", "flush", "truncate"}
Steps == {"get", "erase", "hit", "null", "ls", "put", "remove", "forget",
          "drop", "move", "upload", "reupload", "update"}
Changes == {"remove", "forget", "drop", "move", "upload", "reupload", "update"}
Calls == [op : Ops, pc : Steps, path : Paths, age : 0..MaxCall,
          size : Answers, linked : BOOLEAN, valid : BOOLEAN,
          listing : [Paths -> Answers], todo : SUBSET Paths]
NoCall == [pc |-> "idle"]
NewCall(op, pc, p, s) ==
    [op |-> op, pc |-> pc, path |-> p, age |-> 0, size |-> s,
     linked |-> FALSE, valid |-> FALSE,
     listing |-> [q \in Paths |-> NoEntry], todo |-> {}]

(***************************************************************************)
(* Types.  A put never stores a path the listing did not have.             *)
(***************************************************************************)
TypeOK ==
    /\ statCache \in [Paths -> Entries \cup {NoEntry}]
    /\ cloud \in [Paths -> Answers]
    /\ handle \in [Paths -> Handles \cup {NoEntry}]
    /\ call \in [Threads -> Calls \cup {NoCall}]
    /\ kernel \in [Paths -> [size : Answers, left : 0..(AttrTimeout + 1)]]
    /\ alive \in BOOLEAN
    /\ behind \in [Paths -> [Answers -> 0..(Limit + 1)]]
    /\ disturbed \in SUBSET Paths

Init ==
    /\ statCache = [p \in Paths |-> NoEntry]
    /\ cloud \in [Paths -> Answers]
    /\ handle = [p \in Paths |-> NoEntry]
    /\ call = [t \in Threads |-> NoCall]
    /\ kernel = [p \in Paths |-> NoTrust]
    /\ alive = TRUE
    /\ behind = [p \in Paths |-> [s \in Answers |->
                    IF s = cloud[p] THEN 0 ELSE Limit + 1]]
    /\ disturbed = {}

Idle(t) == call[t].pc = "idle"
At(t, pc) == alive /\ call[t].pc = pc
Goto(t, pc) == call' = [call EXCEPT ![t].pc = pc]
InCall(ops, p) ==
    \E t \in Threads : ~Idle(t) /\ call[t].op \in ops /\ call[t].path = p
Listing(p) ==
    \E t \in Threads : call[t].pc = "put" /\ p \in call[t].todo

(* The sizes p has now: in the cloud, and in a node that is open. *)
HasSize(c, h, p, s) == c[p] = s \/ (h[p] # NoEntry /\ h[p].size = s)
World(c, h) ==
    /\ cloud' = c /\ handle' = h
    /\ behind' = [p \in Paths |-> [s \in Answers |->
                     IF HasSize(c, h, p, s) THEN 0 ELSE behind[p][s]]]

(***************************************************************************)
(* The threads after the node of p has left the map (its iterators are     *)
(* dead and a CacheNode somebody holds is a copy of its own), after put    *)
(* has given it another CacheNode, and after update has written into it.   *)
(***************************************************************************)
Others(t, f(_)) ==
    [u \in Threads |-> IF u = t \/ Idle(u) THEN call[u] ELSE f(u)]
Unlinked(p, u) == IF call[u].path = p THEN [call[u] EXCEPT !.linked = FALSE]
                                      ELSE call[u]
Erased(p, u) ==
    IF call[u].path = p
    THEN [call[u] EXCEPT !.linked = FALSE, !.valid = FALSE] ELSE call[u]
Written(p, s, u) == IF call[u].path = p /\ call[u].linked
                    THEN [call[u] EXCEPT !.size = s] ELSE call[u]

-----------------------------------------------------------------------------
(* Faulty variants: an entry that is never out of date, ...                *)
NeverExpired(e) == FALSE

(* ... a listing that puts paths it has not found, an update left out.     *)
LsPutsEverything(t) ==
    /\ \/ At(t, "ls")
       \/ At(t, "null") /\ call[t].op # "open"
    /\ call' = [call EXCEPT ![t].pc = "put", ![t].listing = cloud,
                            ![t].todo = Paths]
    /\ UNCHANGED <<cacheVars, worldVars, kernel, alive>>

EndFlushWithoutUpdate(t) ==
    /\ At(t, "update") /\ call[t].op = "flush"
    /\ call' = [call EXCEPT ![t] = NoCall]
    /\ UNCHANGED <<cacheVars, worldVars, kernel, alive>>

-----------------------------------------------------------------------------
(* Time, and the rest of the world. *)

(***************************************************************************)
(* Time passes by a unit; a call takes at most MaxCall.  Every age stops   *)
(* to grow where nothing depends on it any more.                           *)
(***************************************************************************)
Older(age, top) == IF age < top THEN age + 1 ELSE top

Tick ==
    /\ alive
    /\ \A t \in Threads : ~Idle(t) => call[t].age < MaxCall
    /\ statCache' = [p \in Paths |->
           IF statCache[p] = NoEntry THEN NoEntry
           ELSE [statCache[p] EXCEPT !.age = Older(@, Ttl + 1)]]
    /\ call' = [t \in Threads |->
           IF Idle(t) THEN NoCall ELSE [call[t] EXCEPT !.age = @ + 1]]
    /\ kernel' = [p \in Paths |->
           IF kernel[p].left <= 1 THEN NoTrust
           ELSE [kernel[p] EXCEPT !.left = @ - 1]]
    /\ behind' = [p \in Paths |-> [s \in Answers |->
           IF HasSize(cloud, handle, p, s) THEN 0
           ELSE Older(behind[p][s], Limit + 1)]]
    /\ UNCHANGED <<cloud, handle, alive, disturbed>>

(***************************************************************************)
(* Another device of the account uploads, changes or removes the file.     *)
(***************************************************************************)
OtherDevice(p, s) ==
    /\ alive
    /\ cloud[p] # s
    /\ World([cloud EXCEPT ![p] = s], handle)
    /\ disturbed' = disturbed \cup {p}
    /\ UNCHANGED <<statCache, call, kernel, alive>>

-----------------------------------------------------------------------------
(* CacheManager::get *)

Expired(e) == e.age > Ttl

(***************************************************************************)
(* The first critical section.                                             *)
(***************************************************************************)
Find(t) ==
    /\ At(t, "get")
    /\ LET e == statCache[call[t].path]
       IN  \/ /\ e = NoEntry
              /\ Goto(t, "null")
           \/ /\ e # NoEntry /\ ~Expired(e)
              /\ call' = [call EXCEPT ![t].pc = "hit", ![t].size = e.size,
                                      ![t].linked = TRUE]
           \/ /\ e # NoEntry /\ Expired(e)
              /\ call' = [call EXCEPT ![t].pc = "erase", ![t].valid = TRUE]
    /\ UNCHANGED <<cacheVars, worldVars, kernel, alive>>

(***************************************************************************)
(* The second: erase by the iterator of the first.  It takes away a        *)
(* renewed entry as well, and with a dead iterator the behaviour of        *)
(* std::map is undefined, which counts as a crash here.                    *)
(***************************************************************************)
EraseExpired(t) ==
    LET p == call[t].path
    IN  /\ At(t, "erase")
        /\ \/ /\ call[t].valid
              /\ statCache' = [statCache EXCEPT ![p] = NoEntry]
              /\ call' = [Others(t, LAMBDA u : Erased(p, u))
                             EXCEPT ![t].pc = "null", ![t].valid = FALSE]
              /\ UNCHANGED alive
           \/ /\ ~call[t].valid
              /\ alive' = FALSE
              /\ UNCHANGED <<statCache, call>>
        /\ UNCHANGED <<worldVars, disturbed, kernel>>

-----------------------------------------------------------------------------
(* The callbacks.  The kernel sends open and truncate only for a path it   *)
(* trusts, and libfuse lets nothing but a listing of the directory run     *)
(* beside an unlink, a rmdir or a rename of a path.  There is one node on  *)
(* a path at a time, and truncate of a path makes one of its own.          *)

Trusted(p) == kernel[p].left > 0

Begin(t, op, pc, p, s) ==
    /\ alive /\ Idle(t)
    /\ op = "readdir" \/ ~InCall(Alone, p)
    /\ call' = [call EXCEPT ![t] = NewCall(op, pc, p, s)]
    /\ UNCHANGED <<cacheVars, worldVars, kernel, alive>>

BeginAlone(t, op, pc, p) ==
    /\ handle[p] = NoEntry /\ ~InCall(Ops \ {"readdir"}, p)
    /\ Begin(t, op, pc, p, NoEntry)

Getattr(t, p) == Begin(t, "getattr", "get", p, NoEntry)
Readdir(t, p) == Begin(t, "readdir", "ls", p, NoEntry)
Unlink(t, p) == BeginAlone(t, "unlink", "get", p)
Rmdir(t, p) == BeginAlone(t, "rmdir", "remove", p)
Rename(t, p) == BeginAlone(t, "rename", "get", p)
Open(t, p) ==
    /\ Trusted(p) /\ kernel[p].size # NoEntry
    /\ handle[p] = NoEntry /\ ~InCall({"open", "truncate"}, p)
    /\ Begin(t, "open", "get", p, NoEntry)
TruncatePath(t, p, s) ==
    /\ Trusted(p) /\ kernel[p].size # NoEntry
    /\ handle[p] = NoEntry /\ ~InCall({"open", "truncate"}, p)
    /\ Begin(t, "truncate", "reupload", p, s)
Flush(t, p) ==
    /\ handle[p] # NoEntry /\ ~InCall({"flush"}, p)
    /\ Begin(t, "flush", "upload", p, NoEntry)

(***************************************************************************)
(* getattr found nothing: it lists the directory.  Every file of the       *)
(* answer, handleCompounds applied, is put into the cache.                 *)
(***************************************************************************)
Ls(t) ==
    /\ \/ At(t, "ls")
       \/ At(t, "null") /\ call[t].op # "open"
    /\ call' = [call EXCEPT ![t].pc = "put", ![t].listing = cloud,
                    ![t].todo = {p \in Paths : cloud[p] # NoEntry}]
    /\ UNCHANGED <<cacheVars, worldVars, kernel, alive>>

Put(t) ==
    /\ At(t, "put")
    /\ \E p \in call[t].todo :
          /\ statCache' = [statCache EXCEPT
                 ![p] = [size |-> call[t].listing[p], age |-> 0]]
          /\ call' = [Others(t, LAMBDA u : Unlinked(p, u))
                         EXCEPT ![t].todo = @ \ {p}]
    /\ UNCHANGED <<worldVars, disturbed, kernel, alive>>

EndReaddir(t) ==
    /\ At(t, "put") /\ call[t].todo = {} /\ call[t].op = "readdir"
    /\ call' = [call EXCEPT ![t] = NoCall]
    /\ UNCHANGED <<cacheVars, worldVars, kernel, alive>>

(***************************************************************************)
(* getattr answers, from the CacheNode it was given or from the listing.   *)
(* unlink asks getattr first and goes on to remove what exists; rename     *)
(* asks for its source, which has to exist, and for its target.            *)
(***************************************************************************)
Continue(t, pc) ==
    call' = [call EXCEPT ![t] =
        [NewCall(@.op, pc, @.path, NoEntry) EXCEPT !.age = call[t].age]]

Answer(t) ==
    LET p == call[t].path
        size == IF At(t, "hit") THEN call[t].size ELSE call[t].listing[p]
    IN  /\ At(t, "hit") \/ (At(t, "put") /\ call[t].todo = {})
        /\ \/ /\ call[t].op = "getattr"
              /\ kernel' = [kernel EXCEPT
                     ![p] = [size |-> size, left |-> AttrTimeout + 1]]
              /\ call' = [call EXCEPT ![t] = NoCall]
           \/ /\ call[t].op \in {"unlink", "rename"} /\ size = NoEntry
              /\ call' = [call EXCEPT ![t] = NoCall]
              /\ UNCHANGED kernel
           \/ /\ call[t].op = "unlink" /\ size # NoEntry
              /\ Continue(t, "remove")
              /\ UNCHANGED kernel
           \/ /\ call[t].op = "rename"
              /\ Continue(t, "drop")
              /\ UNCHANGED kernel
        /\ UNCHANGED <<cacheVars, worldVars, alive>>

(***************************************************************************)
(* open makes a node of the size it found and downloads the content.  It   *)
(* does not check whether get has found anything.                          *)
(***************************************************************************)
MakeNode(t) ==
    LET p == call[t].path
        size == IF cloud[p] > 0 THEN cloud[p] ELSE call[t].size
    IN  /\ At(t, "hit") /\ call[t].op = "open"
        /\ cloud[p] # NoEntry
        /\ World(cloud, [handle EXCEPT ![p] = [size |-> size, dirty |-> FALSE]])
        /\ call' = [call EXCEPT ![t] = NoCall]
        /\ UNCHANGED <<cacheVars, kernel, alive>>

NullEntry(t) ==
    /\ At(t, "null") /\ call[t].op = "open"
    /\ alive' = FALSE
    /\ UNCHANGED <<cacheVars, worldVars, call, kernel>>

(***************************************************************************)
(* A callback that changes the file sends several requests, and sends them *)
(* again when one fails: an old file is removed before the new one is      *)
(* uploaded, parts come and go, and an answer may be lost.  In between the *)
(* file may have any size, or none.                                        *)
(***************************************************************************)
Changing(t) ==
    \/ \E pc \in {"remove", "move", "reupload"} : At(t, pc)
    \/ At(t, "upload") /\ handle[call[t].path].dirty

(* An answer of ls that is older than this change is still to be put. *)
Overtaken(p) == IF Listing(p) THEN disturbed \cup {p} ELSE disturbed

Partly(t) ==
    /\ Changing(t)
    /\ \E s \in Answers : World([cloud EXCEPT ![call[t].path] = s], handle)
    /\ disturbed' = Overtaken(call[t].path)
    /\ UNCHANGED <<statCache, call, kernel, alive>>

(***************************************************************************)
(* flush uploads a node that has been written or truncated, truncate of a  *)
(* path uploads the node it has made; then update changes the entry, if    *)
(* there is one, and leaves its age.                                       *)
(***************************************************************************)
Update(p, s, calls) ==
    IF statCache[p] = NoEntry
    THEN UNCHANGED statCache /\ call' = calls
    ELSE /\ statCache' = [statCache EXCEPT ![p].size = s]
         /\ call' = [u \in Threads |->
                        IF Idle(u) \/ calls[u] = NoCall THEN calls[u]
                        ELSE Written(p, s, u)]

Upload(t) ==
    LET p == call[t].path
    IN  /\ At(t, "upload")
        /\ Goto(t, "update")
        /\ \/ /\ handle[p].dirty
              /\ World([cloud EXCEPT ![p] = handle[p].size],
                       [handle EXCEPT ![p].dirty = FALSE])
              /\ disturbed' = Overtaken(p)
           \/ /\ ~handle[p].dirty
              /\ UNCHANGED <<worldVars, disturbed>>
        /\ UNCHANGED <<statCache, kernel, alive>>

EndFlush(t) ==
    LET p == call[t].path
    IN  /\ At(t, "update") /\ call[t].op = "flush"
        /\ Update(p, handle[p].size, [call EXCEPT ![t] = NoCall])
        /\ UNCHANGED <<worldVars, disturbed, kernel, alive>>

Reupload(t) ==
    LET p == call[t].path
    IN  /\ At(t, "reupload")
        /\ Goto(t, "update")
        /\ World([cloud EXCEPT ![p] = call[t].size], handle)
        /\ disturbed' = Overtaken(p)
        /\ UNCHANGED <<statCache, kernel, alive>>

EndTruncatePath(t) ==
    LET p == call[t].path
    IN  /\ At(t, "update") /\ call[t].op = "truncate"
        /\ Update(p, call[t].size, [call EXCEPT ![t] = NoCall])
        /\ kernel' = [kernel EXCEPT ![p] = NoTrust]
        /\ UNCHANGED <<worldVars, disturbed, alive>>

(***************************************************************************)
(* unlink and rmdir: the request to the cloud, then the entry leaves the   *)
(* map.  The cloud may accept the removal of what it does not have.        *)
(***************************************************************************)
RemoveFile(t) ==
    LET p == call[t].path
    IN  /\ At(t, "remove")
        /\ Goto(t, "forget")
        /\ World([cloud EXCEPT ![p] = NoEntry], handle)
        /\ disturbed' = Overtaken(p)
        /\ UNCHANGED <<statCache, kernel, alive>>

Forget(t) ==
    LET p == call[t].path
    IN  /\ At(t, "forget")
        /\ statCache' = [statCache EXCEPT ![p] = NoEntry]
        /\ call' = [Others(t, LAMBDA u : Erased(p, u)) EXCEPT ![t] = NoCall]
        /\ kernel' = [kernel EXCEPT ![p] = NoTrust]
        /\ UNCHANGED <<worldVars, disturbed, alive>>

(***************************************************************************)
(* rename: the entry leaves the map first, then come the requests, which   *)
(* take the file away or put another one in its place.  A listing that is  *)
(* quick enough puts the entry back in between, for good.                  *)
(***************************************************************************)
Drop(t) ==
    LET p == call[t].path
    IN  /\ At(t, "drop")
        /\ statCache' = [statCache EXCEPT ![p] = NoEntry]
        /\ call' = [Others(t, LAMBDA u : Erased(p, u)) EXCEPT ![t].pc = "move"]
        /\ UNCHANGED <<worldVars, disturbed, kernel, alive>>

Move(t) ==
    LET p == call[t].path
    IN  /\ At(t, "move")
        /\ \E s \in Answers : World([cloud EXCEPT ![p] = s], handle)
        /\ disturbed' = IF statCache[p] # NoEntry THEN disturbed \cup {p}
                                                  ELSE Overtaken(p)
        /\ call' = [call EXCEPT ![t] = NoCall]
        /\ kernel' = [kernel EXCEPT ![p] = NoTrust]
        /\ UNCHANGED <<statCache, alive>>

(***************************************************************************)
(* A request fails.  doWithRetry runs the callback's lambda again: open    *)
(* asks the cache once more and rename drops the entries once more (its    *)
(* new look at the target is a listing like another's).  Where the look at *)
(* the target has failed for good, rename goes on as if there were none.   *)
(***************************************************************************)
Again(t) ==
    /\ \/ At(t, "hit") /\ call[t].op = "open" /\ Continue(t, "get")
       \/ At(t, "null") /\ call[t].op = "rename" /\ Continue(t, "drop")
       \/ At(t, "move") /\ Goto(t, "drop")
    /\ UNCHANGED <<cacheVars, worldVars, kernel, alive>>

(***************************************************************************)
(* It has failed for good: the callback returns an error, which the kernel *)
(* does not remember.  What the requests did before stays done, and the    *)
(* cache is not told.                                                      *)
(***************************************************************************)
RequestFails(t) ==
    /\ \/ /\ \/ At(t, "ls")
             \/ At(t, "null") /\ call[t].op # "open"
             \/ At(t, "hit") /\ call[t].op = "open"
          /\ UNCHANGED disturbed
       \/ /\ Changing(t)
          /\ disturbed' = disturbed \cup {call[t].path}
    /\ call' = [call EXCEPT ![t] = NoCall]
    /\ UNCHANGED <<statCache, worldVars, kernel, alive>>

(***************************************************************************)
(* Callbacks that touch the map once or not at all, without a request in   *)
(* between: write and truncate of an open node, release, and mknod.        *)
(* release forgets what no flush has uploaded, because the last one failed *)
(* or a write came after it.                                               *)
(***************************************************************************)
Write(p, s) ==
    /\ alive /\ handle[p] # NoEntry /\ ~InCall({"flush"}, p)
    /\ s >= handle[p].size
    /\ World(cloud, [handle EXCEPT ![p] = [size |-> s, dirty |-> TRUE]])
    /\ UNCHANGED <<cacheVars, call, kernel, alive>>

Truncate(p, s) ==
    /\ alive /\ handle[p] # NoEntry /\ ~InCall({"flush"}, p)
    /\ World(cloud, [handle EXCEPT ![p] = [size |-> s, dirty |-> TRUE]])
    /\ Update(p, s, call)
    /\ kernel' = [kernel EXCEPT ![p] = NoTrust]
    /\ UNCHANGED <<disturbed, alive>>

Release(p) ==
    /\ alive /\ handle[p] # NoEntry /\ ~InCall({"flush"}, p)
    /\ World(cloud, [handle EXCEPT ![p] = NoEntry])
    /\ disturbed' = IF handle[p].dirty THEN disturbed \cup {p} ELSE disturbed
    /\ UNCHANGED <<statCache, call, kernel, alive>>

Mknod(p) ==
    /\ alive /\ cloud[p] = NoEntry /\ ~InCall(Ops \ {"readdir"}, p)
    /\ World([cloud EXCEPT ![p] = 0], handle)
    /\ kernel' = [kernel EXCEPT ![p] = NoTrust]
    /\ UNCHANGED <<cacheVars, call, alive>>

-----------------------------------------------------------------------------
Step(t) ==
    \/ Find(t) \/ EraseExpired(t)
    \/ Ls(t) \/ Put(t) \/ EndReaddir(t) \/ Answer(t)
    \/ MakeNode(t) \/ NullEntry(t)
    \/ Partly(t) \/ Again(t) \/ RequestFails(t)
    \/ Upload(t) \/ EndFlush(t) \/ Reupload(t) \/ EndTruncatePath(t)
    \/ RemoveFile(t) \/ Forget(t) \/ Drop(t) \/ Move(t)

Start(t, p) ==
    \/ Getattr(t, p) \/ Readdir(t, p) \/ Open(t, p) \/ Flush(t, p)
    \/ Unlink(t, p) \/ Rmdir(t, p) \/ Rename(t, p)
    \/ \E s \in Sizes : TruncatePath(t, p, s)

Next ==
    \/ Tick
    \/ \E t \in Threads : Step(t) \/ \E p \in Paths : Start(t, p)
    \/ \E p \in Paths :
          \/ Release(p) \/ Mknod(p)
          \/ \E s \in Sizes : Write(p, s) \/ Truncate(p, s)
          \/ \E s \in Answers : OtherDevice(p, s)

Spec == Init /\ [][Next]_vars

-----------------------------------------------------------------------------
(***************************************************************************)
(* How far behind a stat may be: a size the kernel shows without asking    *)
(* was the file's size, in the cloud or in a node open on it, at most one  *)
(* Ttl, one AttrTimeout and the duration of two calls ago (the ls that     *)
(* filled the cache and the getattr that was answered from it).            *)
(***************************************************************************)
StalenessIsBounded ==
    \A p \in Paths :
        Trusted(p) => behind[p][kernel[p].size] <= Limit

(***************************************************************************)
(* What this mount does to a file shows in its cache: when no call that    *)
(* changes it is under way and no node of it has changes still to be       *)
(* flushed, an entry has the size of the file.  The exceptions are what    *)
(* the code leaves behind: the file was changed by another device, or here *)
(* while the answer of an older ls was being put; a flush, a truncate of   *)
(* its path, an unlink, a rmdir or a rename of it failed; a node of it was *)
(* released with changes that no flush had uploaded; or an entry was put   *)
(* back before the requests of a rename that had dropped it.               *)
(***************************************************************************)
OwnChangesAreSeen ==
    \A p \in Paths :
        /\ statCache[p] # NoEntry
        /\ p \notin disturbed
        /\ handle[p] # NoEntry => ~handle[p].dirty
        /\ \A t \in Threads : call[t].pc \in Changes => call[t].path # p
        => statCache[p].size = cloud[p]

(***************************************************************************)
(* No callback brings the process down: open finds the entry of the file   *)
(* the kernel has looked up, and get never erases by a dead iterator.      *)
(***************************************************************************)
MountSurvives == alive
=============================================================================
