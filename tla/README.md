# A TLA+ model of MARC-FS

MARC-FS is a FUSE file system over the Mail.ru cloud. FUSE worker threads run
the callbacks of `src/src/fuse_hooks.cpp`; a callback takes an authenticated
REST client from a pool, sends one or more requests with it, keeps what it
learned about sizes in a stat cache, and holds the contents of open files in
memory or in a temporary file until a flush uploads them. Files above 2 GB are
stored as several numbered parts.

This directory holds TLA+ modules for the core of that program, TLC
configurations that check them on small instances, and TLAPS proofs that hold
for every instance.

## The system

| Part | State | Operations | Talks to |
|---|---|---|---|
| `ObjectPool` (`object_pool.h`) | list of idle clients, mutex, condition variable | `populate`, `acquire`, the `shared_ptr` deleter, `add` | every callback |
| `doWithRetry` (`fuse_hooks.cpp:41-61`) | retry counter, the client of the attempt | attempt, return, refuse (`-EIO`), retry on 5xx, give up (`-EINVAL`) | pool, cloud; nests in `rename` |
| `MarcFileNode` (`marc_file_node.cpp`) | contents, `dirty`, `oldFileSize`, `netMutex`, `opened` | `open`, `read`, `write`, `truncate`, `flush`, `remove`, `rename`, `release` | REST client, storage |
| file callbacks (`fuse_hooks.cpp`) | `fi->fh` points to a node | `mknod`, `open`, `read`, `write`, `truncate`, `flush`, `release`, `unlink`, `getattr`, `readdir` | node, stat cache |
| `handleCompounds` (`fuse_hooks.cpp:82-109`) | none | joins the listed parts into one entry | `getattr`, `readdir` |
| `CacheManager` (`mru_cache.cpp`) | entries with a time stamp, a shared mutex | `get` (with expiry), `put`, `update`, `remove` | callbacks |
| `MarcRestClient` (`marc_rest_client.cpp`) | one curl handle with its options, configuration, cookies, tokens | `download`, `upload`, `remove`, `create`, `ls`, `rename`, `move`, `share`, `df`, `login` | the cloud |
| `MemoryStorage`, `FileStorage` | bytes, or a temporary file and a stream position | `open`, `read`, `write`, `append`, `truncate`, `size`, `clear` | node |
| link files (`handleLinks`) | text of a `.marcfs-link` file | share a path, append the URL | REST client |
| rename and directories | two paths | replace, no-replace, exchange; `mkdir`, `rmdir` | REST client, stat cache |
| `ThreadPool` (`thread_pool.h`) | task queue | `enqueue`, `join` | nobody: unused |
| `main.cpp` | command line and configuration file | merge them, log in, populate the pool, mount | REST client, pool |
| `Account`, `CloudFile`, `Shard`, utilities | JSON records | parsing | REST client |

Hard to get right, and hardly reached by `src/tests/fstest.py`, which is
sequential and talks to a healthy cloud:

* `add` calls `notify_one` after it has unlocked, so a client may be stolen
  before the sleeper it was meant for runs;
* `renameCallback` asks for a second client while it holds one;
* a flush is a loop of removes and then a loop of uploads; any request may fail,
  with or without its effect, and then the whole lambda runs again;
* `oldFileSize` alone decides which names are removed, and several operations
  change it at moments when the cloud does not change;
* `write` and `truncate` do not take `netMutex`, so they overlap a flush;
* every open makes a node of its own, so the mutex in it serialises nothing
  between two openers;
* an answer of `ls` reaches the stat cache some time after the cloud gave it;
* all calls on a `FileStorage` share one stream position, and two of them move
  it without the lock;
* an entry of the stat cache expires while the kernel still trusts what it was
  told from it, and `get` changes its lock between finding and erasing;
* one curl handle serves request after request of different kinds, and a failed
  one must leave nothing on it; its copies are made once, from a client that has
  logged in;
* an answer that is not JSON ends the process while other threads have requests
  under way;
* the text of a link file is gathered outside of the lambda that is retried;
* a rename is up to three requests per part and direction, and a retry starts
  over on what the earlier attempt has left.

The full list, each at its line and with the properties that cover it, is under
`hazards` in `PROJECT.json`.

## Modules

### ObjectPool

The pool of `object_pool.h`, with the critical sections of `acquire_mutex` as
steps.

| Model | Code |
|---|---|
| `objects`, `held` | the list `objects`; the `shared_ptr`s that threads own |
| `waiting`, `woken` | threads inside `condition.wait`; threads that left the wait set and have not rechecked the predicate |
| `notifying` | threads between the end of `add`'s critical section and `notify_one` |
| `PoolInit` | after `populate`: every client idle, in any order |
| `Take`, `Sleep` | `acquire` with the predicate true or false, at the call or at a recheck |
| `Add`, `NotifyOne` | the deleter and `add`, in its two halves |
| `SpuriousWakeup` | what the standard allows a condition variable to do (external) |

`initialize` has no caller, and `shuttingDown` is only set by the destructor at
process exit; neither is modelled.

### DoWithRetry

EXTENDS `ObjectPool` and composes it with the callbacks that use it. Each thread
has a stack of at most two `doWithRetry` calls: the one of the callback, and for
a rename the one of the `getattrCallback` it calls for its target.
`client[t][d]` and `left[t][d]` are the client and the counter `retries` at
depth `d`, and `target` says whether the attempt of a rename has looked its
target up. What the request itself does is abstracted to its outcome:
`CallReturns`, `CallRefused` (an error below 500, `-EIO`), `ServerError` (retry, or
`-EINVAL` when no attempt is left). Stack unwinding gives the client back before the `catch`
block runs, so a retry acquires anew; `GiveBack` is part of all three.

The comment "should never happen" at `fuse_hooks.cpp:59` is about the `-EINVAL`
that follows three 5xx answers; the model reaches it (`ServerError`'s second
disjunct), and callers see it as an ordinary error code.

### Compound

The layout of one file in the cloud, shared by `FileNode` and `Rename`.
`IsCompound`, `PartCount`, `Count` and `NameAt` are the arithmetic that `open`,
`flush`, `remove` and `rename` repeat; `ListedSize` is `handleCompounds`.
`StoredAs` is independent of them: it says what the cloud must hold for given
contents in terms of the bytes alone, and the properties compare the two. The
doc comment at `fuse_hooks.cpp:74-75` counts parts from 1, the code from 0; the
model follows the code.

### FileNode

EXTENDS `Compound`. One path: every `MarcFileNode` made for it, the callbacks that drive those
nodes, the size that the stat cache holds for the path, and the names the cloud
stores for it.

| Model | Code |
|---|---|
| `cloud` | name to contents; `Whole` is the plain name, `0, 1, ...` the parts |
| `role` | handle (`open`), temporary node of a truncate by path, node of an unlink |
| `cachedContent`, `dirty`, `oldFileSize` | the members of the node |
| `job` | the `doWithRetry` lambda that works on the node: phase, next request, the size that laid the loop out, attempts left |
| `flushed` | the kernel has sent a flush since the last write (it does before a release) |
| `statSize` | `st_size` of the path in the stat cache, or no entry |
| `listing` | what a `getattr` or `readdir` got from `ls` and has not put in the cache yet |
| `tempFiles` | files of `FileStorage` in the cache directory |

`BeginOpen`, `BeginTruncate`, `BeginFlush` and `BeginUnlink` start a lambda;
`Download`, `Remove`, `Upload`, `Unlink` are one request each; `Cleanup` is what
`flush` does after its last upload, with the cache update that follows. `Fault`
is a request that fails, whether or not the cloud carried it out: either `Retry`
(the lambda starts again with what it then finds) or `GiveUp`. `Refused` is the
cloud's answer for a name it does not have; since the code treats a refused
`remove` as an error and the real service may accept one, the model allows both.
An upload is one step, at the request that adds the file: the requests before it
(shard, transfer) leave the names of the cloud alone.

### MemoryStorage and FileStorage

`MemoryStorage` is the storage in memory, each call one step on a sequence of
bytes. It is at the same time the abstract specification of a storage: `data`
are the contents, `got` and `ret` what the last call gave its caller.

`FileStorage` has the temporary file, one stream position `pos` and `rw_mutex`.

| Model | Code |
|---|---|
| `BeginRead`, `EndRead`; `BeginWrite`, `EndWrite` | seek and transfer, with `rw_mutex` held in between |
| `BeginProbe`, `EndProbe`; `ProbeClosed` | `size` and `empty`: seek to the end and tell, without the mutex; or a stream that is not open |
| `BeginReadFully`, `EndReadFully` | seek to the beginning and copy, without the mutex |
| `BeginTruncate`, `EndTruncate` | between them the stream is closed, again without the mutex |
| `Open`, `AppendBytes`, `Clear` | single steps that run alone: a node appends while it is being opened, and is cleared when nobody uses it any more |
| `CastInt` | the conversion to `int` in the value that `write` returns |
| `disturbed` | history: the calls that a step of a call without the mutex has come between, or that found the stream closed by a truncate |

Every other overlap of calls is allowed, since the callers allow it: a `getattr`
with a handle asks for the size, the upload of a flush asks for it too and copies
the whole content of a small file, and a truncate runs, all next to reads and writes. Only two truncates do not meet (the kernel
locks the inode). The race of two unlocked seeks is modelled by its effect on the
position; what it may do to the buffer of the stream is not.

The instance `Memory`, with `data <- file`, maps a file storage to a memory
storage; a call takes effect there when its second half runs. `SeekIsKept` and
`ImplementsMemory` have two cases. A call that was not disturbed keeps its seek
and answers what `MemoryStorage` answers. One that was is `Misplaced`: a read or
write happens at the place it asked for, at the beginning or at the end of the
file, or not at all. That is what the code does wrong, and all of it.

### Rename

EXTENDS `Compound`. `renameCallback` over several files in several directories.

| Model | Code |
|---|---|
| `cloud` | from a path and a name of `Compound` to contents; every byte carries the file it came from |
| `stat` | the sizes in the stat cache, or no entry |
| `job` | the rename under way: both paths, the flag, the size of `sourceFile`, attempts left, whether the target's lookup failed (`blind`), and where the lambda is: its `plan`, the `call` and the `part` it has reached, and whether this part is renamed in place and still has to be moved (`moving`) |
| `before` | history: the cloud and the cache when the rename began |
| `Begin`, `NoSource` | the lookup of the source and the call of `doWithRetry`, or the early return |
| `LookUpTarget`, `LookUpFails` | the start of an attempt up to the decision; an error other than "no such file" is taken for a missing target, as in the code |
| `Plan` | the calls on nodes that the branches make: exchange, replace, plain; a call is `NodeRename` or `NodeRemove` of a node of some size |
| `Perform`, `Refused`, `Fault`, `Succeed` | one request each, and the return |
| `From`, `To`, `Via` | the request at hand: `MarcRestClient::rename` renames in place (to `Via`), then moves |
| `Advance` | what follows a request: the move, the next round of the loop over the parts, or the next call of the plan |
| `Attempt` | a lambda that starts, over or anew |

The target's lookup is one step here; that it takes a second client is
`DoWithRetry`'s subject.

### StatCache

`CacheManager` with time, below the callbacks of several threads on the files of
one directory.

| Model | Code |
|---|---|
| `statCache` | the map: a size and the age of the `CacheNode` |
| `call` | the callback a thread is in: step, path, how long it has run, the size it holds, whether its `CacheNode` is still the one in the map (`linked`) and its iterator still points into it (`valid`), the answer of `ls` and what of it is not put yet |
| `handle` | the node open on a path, by its size and `dirty` |
| `kernel` | the kernel's own cache with the timeouts of `initCallback` (external) |
| `behind`, `disturbed` | history: how long ago a path had a size; paths whose entry may have missed a change, for one of the reasons below |
| `Find`, `EraseExpired` | `get` in its two critical sections; erasing by a dead iterator is undefined and counts as a crash |
| `Ls`, `Put`, `Answer`, `EndReaddir` | `getattr` and `readdir` |
| `MakeNode`, `NullEntry` | `open`, with and without an entry |
| `Upload`, `EndFlush` | `flush`: the last request, then `update` |
| `Reupload`, `EndTruncatePath` | `truncate` of a path: it uploads a node of its own, then `update` |
| `RemoveFile`, `Forget` | `unlink` and `rmdir`: the request, then `remove` |
| `Drop`, `Move` | `rename`: `remove` first, then the requests; each of its two paths is a call of its own |
| `Partly`, `Again`, `RequestFails` | requests of these that take effect before the last one or although they fail; another attempt; the error that is returned without telling the cache |
| `Write`, `Truncate`, `Release`, `Mknod` | callbacks without a request in between; `release` also drops a dirty node |

There is no clock: every entry, call and trust has an age, which `Tick` raises,
so runs are unbounded in time. A caller that was given a `CacheNode` reads it
later, so `update` may still change what it reads (`Written`). A write or truncate
through the handle beside the flush of the same node is `FileNode`'s subject
(`file_overlap`) and left out here.

An entry agrees with the cloud (`OwnChangesAreSeen`) when no changing call is under
way and no node of the path is dirty, unless the path is in `disturbed`: another
device changed the file; an older listing was being put during a change; a flush,
a truncate of the path, an `unlink`, a `rmdir` or a `rename` failed after some of
its requests; a dirty node was released; or a listing put the entry back while a
rename that had dropped it was at its requests. In each of these the code leaves an
entry that differs from the cloud, and `StalenessIsBounded` says for how long it can
be shown.

### RestClient, LinkFile, Mount

`RestClient` EXTENDS `Compound` and has the clients with one curl handle each. An
operation is the sequence of its requests (`Upload`, `Download`, `Login`, ...).
`Own` are the options an operation sets, `PerformAction` and `PerformGet` those
that are added, and `Reset` is the `ScopeGuard`. `Answered` goes on to the next
request, `Failed` is a `MailApiException` with or without the request's effect,
`Garbled` an answer whose parsing throws something else, which ends the process;
requests of other threads that are under way then may still take effect
(`LateEffect`). `stored` is the content of one path in the cloud.

`ToPaddedHex` is the hash that a small file is sent as, in bytes where the code
has pairs of digits: `HexEnd` is how far the digits of the first `k` chars reach,
`HexByte` the byte at a place, `HexLength` the length after padding. `Added` is how the service reads it (external, from
`src/tests/apitest.cpp`, which downloads what it has uploaded).

`LinkFile` EXTENDS `RestClient` with the flush of one link file at a time:
`FlushLink`, `BeginAttempt`, `Shared`, `ShareThrew`, `WriteLink` are the steps of
`handleLinks`. The text is a sequence of pieces, a name or the address of that name.

`Mount` EXTENDS `LinkFile` with `main`: `LoadConfigFile`, `SetUp`, `LogIn`,
`Populate`, `CheckCacheDir`, each of which may end the process, and then any
operation on any pooled client (`Operate`). A setting is a number, with special
ones for a value of a wrong type, an empty string and a path that is no directory.
An empty proxy address is no proxy (`Proxy`): `main` sets it, `performAction` and
`performGet` skip it.
Who gets which client is `ObjectPool`'s subject; here a client is free when no
operation runs on it.

## Runs

| Run | Result | What it shows |
|---|---|---|
| `retry` | pass | 2 clients, 3 threads, one of which may rename, 2 attempts: exclusive and complete pool, no lost wakeup, no leaked client, bounded hold-and-wait, no deadlock, every request answered, `PoolSpec` implemented |
| `retry_renames` | violation of `EveryCallReturns` | 2 renames on 2 clients: each holds one and waits for another, for ever |
| `file` | pass | files of up to three parts, two faults, two attempts: a clean node shows what the cloud stores (`FlushedIsDurable`), the cached size is the listed one, unlink leaves no name, the cache directory is tidy, every operation ends (`JobsEnd`) |
| `file_small` | pass | files that are not split: durable under both kinds of truncate, faults, and listings that overlap |
| `file_overlap` | violation of `FlushedIsDurable` | a write between the last upload and `dirty = false` is never uploaded |
| `storage` | pass | two threads on a file storage with every overlap: reads and writes keep their seek from each other and answer what `MemoryStorage` would, also where an `int` wraps; a call that one without the mutex comes between is misplaced and nothing worse |
| `rename` | pass | four paths in two directories, whole or compound, one failed request: at every moment of a first attempt all parts still exist, a success is exact and touches no third file, every rename returns |
| `rename_retry` | violation of `RenamedIsKept` | a rename that was carried out but answered 5xx is retried; the retry removes the renamed file |
| `stat_cache` | pass | two threads, failing requests and another device: a size the kernel shows is at most one `Ttl`, one `AttrTimeout` and two calls out of date, and what this mount has changed is in its cache when the call has succeeded and the node is clean |
| `open_expired` | violation of `MountSurvives` | the entry has expired, or a rename dropped it and failed, while the kernel trusts the stat it gave; `open` dereferences null |
| `mount` | pass | nine starts, then two pooled clients: no request carries a foreign option or lacks the session, the stored file is never a fragment, an acknowledged upload is stored, a link text names every part, start-up ends |
| `client_small` | violation of `UploadStoresBody` | a small file with a byte above 127 is stored as another one |

Each violation run checks one statement that a document, comment or test of the
repository makes; `findings` in `PROJECT.json` quotes it. For every property of
a passing run, `mutants` names a faulty variant of one definition that breaks
it; these variants stand in the modules under a comment that says so.

Run one with `tlc -config FileNode.cfg FileNode`.

### Bounds

* `MaxFileSize = 2` with `MaxSize = 4` gives unsplit files of 0, 1 and 2 bytes
  (2 is the boundary that is not split), two parts (3) and three parts the last
  of which is empty (4). Larger sizes repeat these layouts.
* `Bytes` has a zero byte, which padding produces, and another one. Writes are
  one byte long, at any offset below `MaxSize`; a longer write is several of
  them, and a gap is filled as `truncate` fills it.
* `Retries = 2` in place of the code's 3: one retry and one exhaustion is what
  the control flow tells apart. The violation runs use 1 for shorter traces.
* `MaxFaults` bounds failed requests, `MaxTempFiles` the temporary files that
  abandoned nodes leave, `MaxCalls` the requests of a thread in the burst.
* Two clients and three threads are enough for a thief, a sleeper and a
  notifier to be three different threads; the proofs remove this bound.
* `Concurrent` selects the overlap a run is about: without "write" a handle is
  not written while it is flushed, without "list" a listing does not straddle a
  transfer. The passing `FileNode` runs that leave one out say nothing about it,
  and the violation runs show what it does.
* `file` has no truncates: truncating a compound file through its handle or by
  path goes wrong in the ways described below. A call on a split
  file that is given up between two requests may leave parts of two layouts. A
  later flush of the same handle makes up for it; an unlink that was given up, or a
  handle that is released dirty, is not made up for, and from then on (`halfDone`)
  `file` only says that operations end and types hold. `file_small` has no such
  exception.
* `FileStorage` has files of up to 3 bytes and transfers of up to 2. With
  `IntHalf = 3` an `int` ranges over -3..2, so positions wrap inside the file
  while counts do not, as 2 GB positions and small buffers do. Two
  threads give every pair of calls that overlap; more change nothing in what one
  step can do to another call, and the proofs remove this bound.
* `Rename` starts with any of its four files missing, of one byte, or of two
  parts, and makes one rename with at most one failure and one retry. One rename
  is enough since it may start from any of these states; `stat` may be filled or
  empty for each path.
* `RenameTakesEffect` and `OrderIsSafe` speak of first attempts with a clear way
  (`ClearWay`): the names that a rename to another directory passes through are
  free (the FIXME at `marc_rest_client.cpp:420`), the cached sizes are right,
  and the target's lookup did not fail. Without these the code overwrites files.
  Both files also have exactly the parts their size stands for (`Complete`). In
  the run every file starts that way; after a rename that was given up a file may
  not be, and then its rename stops at a part it does not find, or leaves one
  behind.
* `StatCache` has one path, two threads and sizes 0 and 1; an `AttrTimeout` and a
  call last one unit, and with `Ttl = 0` an entry is good for the unit it is put in
  and found expired from the next one on (`open_expired` has a `Ttl` of one unit). Two threads are enough for one to
  erase or renew what the other has found. With these the bound in
  `StalenessIsBounded` is reached, so it is the smallest. `MaxCall` is an
  assumption on the network; in `open_expired` calls take no time.
* `Mount` has `MaxFileSize = 3` and hashes of 2 bytes: bodies of 0, 1, 2 (the
  largest small one), 3 (the largest whole one) and 6 bytes (three parts, the
  last of them empty, where every part takes the way of a large body). The nine
  starts cover a command line over a file, an unreadable file, wrong usage, a rate
  on the command line (which is refused), a missing and an empty password, an empty proxy address, a value of a wrong type
  and a `cachedir` that is no directory. All bytes are below 128; `client_small` shows what others do,
  with hashes of 4 bytes. Two attempts give a retry and an exhaustion.

### Fairness

`DoWithRetry` assumes weak fairness of each thread's `Work`: the operating
system runs a thread that can run, and the cloud answers. It does not assume
that requests arrive or that spurious wakeups happen, nor that a particular
sleeper is chosen by `notify_one`. `FileNode` assumes weak fairness of each
node's next request, `Rename` of the work of the rename under way, `Mount` of the
steps of `main` and of the answers to its login. `StatCache` states none. The cloud's
half of these assumptions is the network's: `CURLOPT_TIMEOUT` is 0
(`marc_rest_client.cpp:167`), so nothing in the program ends a request whose
connection stalls. A burst that has been served, and a file
nobody uses, may stay as they are: `Served` is a stuttering step of its own, so
deadlock is checked, but for `stat_cache` and the runs of `Mount`, where the
process may end.

## Proofs

Each `...Proofs` module EXTENDS the module it is about. Nothing bounds the
constants but the named `ASSUME`s of the modules; hypotheses beyond these are
part of a theorem's statement. Every invariant below was checked with TLC on the
component's run before it was proved.

| Module | Theorem | States |
|---|---|---|
| `DoWithRetryProofs`, first part | `PoolExclusive`, `PoolConserved`, `PoolNoLostWakeup` | `ClientsExclusive`, `ClientsConserved`, `NoLostWakeup` |
| `DoWithRetryProofs` | `RetryTypeCorrect`, `RefinesPool`, `NothingLeaks`, `HoldAndWaitIsBounded`, `FewRenamesNeverBlock` | `TypeOK`, `PoolSpec`, `HeldIsStacked`, `SleepersHoldLittle`, `NoPoolDeadlock` |
| `FileStorageProofs` | `StorageTypeCorrect`, `TransfersKeepSeek`, `FileRefinesMemory` | `TypeOK`, `SeekIsKept`, `ImplementsMemory` |
| `StatCacheProofs` | `CacheTypeCorrect`, `StatsAreRecent`, `OwnChangesShow` | `TypeOK`, `StalenessIsBounded`, `OwnChangesAreSeen` |
| `MountProofs`, on `RestClientProofs` | `MountTypeCorrect`, `RequestsKeepApart`, `LinksAreWhole`, `CloudHoldsWholeParts`, `UploadsAreStored` | `TypeOK`, `RequestIsItsOwn`, `LinkNamesEveryPart`, `StoredIsWhole`, `UploadStoresBody` |
| `FileNodeProofs`, on `CompoundProofs` | `NodesTypeCorrect`, `CacheDirStaysTidy`, `FlushedContentIsDurable`, `UnlinkedFileIsGone`, `StatSizeIsListed` | `TypeOK`, `CacheDirTidy`, `FlushedIsDurable`, `UnlinkLeavesNothing`, `StatIsListed` |
| `CompoundProofs` | `ListedIsStored` | the size `handleCompounds` lists for a stored file is its length |
| `RenameProofs`, on `CompoundProofs` | `TypeCorrect`, `RenameLosesNothing`, `RenameHasItsEffect` | `TypeOK`, `OrderIsSafe`, `RenameTakesEffect` |

### ObjectPool

* `PoolExclusive`, `PoolConserved`: `ClientsExclusive` and `ClientsConserved` are
  inductive once types are known (`PoolTypeOK`, a part of `DoWithRetry`'s `TypeOK`).
  That `populate` leaves every client in the list rests on
  `InjectiveListIsComplete`, a counting argument.
* `PoolNoLostWakeup`: `NoLostWakeup` compares the idle list with the threads
  that have left the wait set or are about to signal. It is not inductive
  alone: if a sleeper could also be in `woken`, `NotifyOne` would use up a
  notification without adding a woken thread. The strengthening `WaitersSplit`
  says that `waiting` and `woken` are disjoint; the cardinality facts are
  `RemoveCostsOne` and the library's.

### DoWithRetry

* `RetryTypeCorrect`: types, and so a retry counter that never wraps.
* `RefinesPool`: `Safety => PoolSpec`. Every action of the callbacks is an
  action of the pool or leaves it alone; the pool's theorems carry over.
* `RetryInvariant`, `NothingLeaks`, `HoldAndWaitIsBounded`: `HeldIsStacked`
  needs to know that the two clients of a stack differ, which needs
  `ClientsExclusive`; that nothing is left above the top of a stack; and that
  only threads inside `acquire` sleep. `RetryInv` is the conjunction, one lemma
  per action.
* `FewRenamesNeverBlock`: if there are fewer renaming threads than clients,
  `NoPoolDeadlock` always holds. If everybody slept, the list would be empty
  (no lost wakeup), every client would be owned (conservation) by a sleeper, and
  each by a different one, which serves a rename (bounded hold-and-wait): an
  injection from the clients into the renamers. The run `retry_renames` shows that
  the assumption is needed. In the program there are 25 clients
  (`main.cpp:237`) and as many worker threads as libfuse cares to start.

### FileStorage

The theorems hold with every overlap. `StorageInv` adds to the types and to
`SeekIsKept` that a thread between its seek and its transfer is the one that has the
mutex (`TransfersOwnMutex`); that the bytes of a write fit behind the place it asked
for (`WritesFit`) and a read asks for what it may get (`ReadsAsk`), which keeps the
difference of two positions cut down to `int` from wrapping; that a call of `size`
or `empty` that was not disturbed stands at the end and one of `readFully` at the
beginning (`ProbesAtEnd`, `CopiesFromStart`); and that the stream is closed only by
the one truncate under way, or when nobody uses it and it has no contents
(`OneTruncate`, `ClosedForAReason`). `FileRefinesMemory` maps the first half of a
call to a stutter and the second half to the call of `MemoryStorage`, or to what
`Misplaced` leaves of it.

### StatCache

`StalenessIsBounded` is about the end of a chain: the cloud had a size, a listing
took it, a put stored it, an entry grew old, a getattr gave it to the kernel, the
kernel trusts it. `StalenessInv` bounds `behind` at every link: for the answer a
call holds (`CallsAreFine`, `SizesAreNow`), for an entry by its age
(`EntriesAreFresh`), for the kernel's trust by its age (`TrustIsFresh`). `Tick`
raises both sides of each by one.

`OwnChangesAreSeen` needs who may be between changing a file and telling the cache.
`Exclusion` says that no node is open under an open, a truncate of the path, an
unlink, a rmdir or a rename (`FindsNoNode`), and which calls of one path do not meet
(`Apart`: two flushes; opens and truncates of the path; anything but a listing
beside an unlink, rmdir or rename). `CallCurrent` says that what an undisturbed call
has listed, found or uploaded is still the cloud's, and `CleanIsCurrent` that an
undisturbed clean node has the size in the cloud. `ChangeOwn` is the common part of
the steps that change the cloud: the call that does so stays among those that have
yet to tell the cache (`Pending`), so nothing is claimed of the path until it has.

### RestClient, LinkFile, Mount

`RestClientProofs` says what the operators compute: that on a reset handle the
general options replace none of the operation's own (`FreshOptions`), that the
hash of a small body without negative chars gives the body back (`AsciiHex`), that
`Part` cuts a body into what `StoredAs` demands (`NamesInUse`, `PartIsSlice`, by
the bounds of a quotient), that what is left of an operation is one of
`OpStates`, and what each step of a client does (`StartKeeps`, `AnsweredKeeps`,
`BrokenKeeps`, `CopyKeeps`).

`MountInv` in `MountProofs` is the invariant of the whole program:

* `HandlesFit`: a client at work has exactly the options of its next request, made
  from its own fields, and an idle one none. `RequestIsItsOwn` compares with what
  the *user* asked for, so the induction also needs that the configuration is the
  merge of command line and file (`ConfIsMerged`, `AskedIsMerged`), that the first
  client got it (`FirstIsSet`), that the login goes through its requests in order
  and collects its cookies (`LoginStands`), that the copies have all of it
  (`PoolIsSet`), and that only the pool works once mounted (`WorkersFit`).
* `LinkProgress`: whatever failed attempts have left in front, the text ends with
  the lines of the parts shared so far and the name of the one at hand.

`CloudHoldsWholeParts` and `UploadsAreStored` assume `AsciiBodies`, that no byte
of a body is above 127. The run `client_small` shows that without it the second
is false.

### FileNode

`NodeInv` holds with everything that may overlap (`Concurrent` is arbitrary), for
any number of nodes. For types alone it needs that the cloud has finitely many
names (the size of a listing is a cardinality) and that there are at least as many
files in the cache directory as open storages, or `Release` could count below zero;
for that in turn, that a node is in a phase that fits its role (`RoleFits`). Before
the first fault the two numbers are equal (`CacheDirStaysTidy`).

The other three theorems are about one node, since two handles on one file
overwrite each other, in the two settings of the passing runs, for every
`MaxFileSize`, every size and content, any number of faults, attempts and listers:

* `OneSplitFile`: files of any number of parts, no truncates, nothing overlaps a
  transfer.
* `OneWholeFile`: files that are never split, with both kinds of truncate, and with
  listings during a transfer.

For split files `LayoutInv` names the situations a node is in (`AtRest`, `Opening`,
`Clean`, `Changed`, `Removing`, `Uploading`, `Uploaded`, `Unlinked`) and says for
each which names the cloud may have. The argument about failures is in `Changed`
and `Removing`: whatever a failed flush has removed or uploaded is a name of the
old size or of the new one, `oldFileSize` is not above the size of the content, and
so a flush that starts over removes what is left of the old layout, and its uploads
replace the rest. `Uploading` adds that the pieces sent so far are in place; after
the last one they are the whole of `StoredAs`. `Known` relates the two caches to
the size. For whole files `WholeInv` is simpler: there is one name, so sizes do not
matter, and it needs no condition on what was given up before.

`CompoundProofs` has the arithmetic: the names of a larger size include those of a
smaller one (`NamesStay`), pieces cut by `Piece` are those `StoredAs` defines
(`StoredSlice`, `LayoutOfFile`), downloads joined one after another give the content
back (`SlicesJoin`), and the parts that `handleCompounds` finds add up to the length
(`ListedIsStored`, a bijection between the bytes of the parts and the positions of
the content).

### Rename

The three theorems hold for any directories and names, files of any size at first,
whatever the cache knows, and any number of renames one after another, of attempts
and of failures, also after renames that were given up. `TypeInv` adds to the types that the cloud has finitely
many names of a path and sequences under them (`CloudOK`), since the size of a
listing is a sum over names. `Progress` is the invariant behind the other two: a
first attempt on a clear way has exactly the plan that `before` calls for, and the
cloud is exactly what the plan has come to (`OnCourse`).

To say what that is without a recursion over requests, `View` gives for every path
and name the content there, or none; `AfterCall` is the view a whole call leaves,
a function of the view before it, and `DuringCall` the mixture of the two at a
part, with the third place a part stands at while it waits to be moved.
`RequestRemoves`, `RequestRenames` and `RequestMoves` show that a request takes
each such view to the next, as long as the call is `Ready`: the source has the
names of the node's size and no others, and the target and the place in between
have none. `PlanWorks` says that every call of a plan finds itself ready, and that
the last leaves the `Final` view; `PlainPlan`, `ReplacingPlan` and `ExchangingPlan`
prove it for the three branches, where the conditions of `ClearWay` are used.
`OrderIsSafe` follows since no view on the way drops a content of the source, nor
of the target in an exchange (`KeptIn`, `CallKeeps`); `RenameTakesEffect` since
`Final` is what was `Wanted`.

`RenamedIsKept` speaks of all attempts, and `rename_retry` refutes it, so first
attempts are as far as these theorems can go.

### What the proofs changed in the model

`ToPaddedHex` was a fold and is a closed form now, since nothing can be proved here
by induction over a sequence; TLC found both equal on all short bodies.
`LinkNamesEveryPart` states the order of the lines by the rank of a name instead of
a fold. That an empty proxy address is no proxy came up when the options of a
request were compared with the user's setting; the runs had no such setting, and
the model has `Proxy` and the run `mount` a start for it now. `NoEntry` is
assumed not to be a size, and a limit of 0 bytes is excluded (`CompoundAssumption`).

The invariant of `FileNode` for split files did not hold at first where the run saw
nothing: with parts of one byte and a file of five, a flush that fails and whose
handle is closed leaves parts, the next open takes the size of the file from the
cache, and its acknowledged flush leaves one of those parts behind. So there is the
history variable `halfDone`, which tells calls that were made up for (a failed flush
that is repeated on the handle) from those that were not, and `FlushedIsDurable` and
`UnlinkLeavesNothing` have the condition `NothingHalfDone` for split files.

The requests of a rename were a sequence, made by a fold over the parts of each
call. Now a plan is the one to three calls of the lambda, and a position in it moves
as the loops do; the states and steps are the same. `ClearWay` did not have
`Complete`, which the run cannot tell, since one rename finds all files complete;
the theorems, with renames one after another, need it.

Check one with `tlapm MountProofs.tla`.

### Only model-checked

* `EveryCallReturns`, `JobsEnd`, `RenameEnds`, `Starts`: liveness under fairness is
  out of the prover's reach.

The theorems about `FileNode` hold in the two settings named above, not where a
split file is truncated or a write overlaps a flush: there the properties are
false, as `file_overlap` and the list below show.

## Seen while modelling, without a run

* A truncate by path of a compound file downloads the plain name, which does not
  exist, and fails: the temporary node of `fuse_hooks.cpp:473` does not know the
  size of the file.
* `truncate` on a handle sets `oldFileSize` (`marc_file_node.cpp:168`), so the
  next flush of a compound file removes the names of the new layout and leaves
  the old parts, which `handleCompounds` then prefers to the new file. `FileNode`
  shows it with `TruncateSizes` and a compound file.
* A flush that is given up between two parts leaves a part whose name the cached
  size does not stand for. If the handle is closed then, an unlink removes the
  plain name, succeeds, and the part is listed as the file again; and a flush
  through another handle, opened by the cached size, succeeds and leaves the part
  next to the new ones. The run `file` shows it without `NothingHalfDone`, the
  second with `MaxFileSize = 1` and `MaxSize = 5`.
* `size`, `empty`, `readFully` and `truncate` of `FileStorage` move the position or
  close the stream without `rw_mutex` (`file_storage.cpp:60`, `72`, `108`, `122`). A
  flush's upload, a `getattr` with a handle and a truncate call them
  (`marc_file_node.cpp:104-120`), and can move a concurrent read or write to the
  beginning or the end of the file, or have it do nothing. The run `storage`
  includes this; its properties say that it goes no further.
* A `share` that is retried repeats in the link text what the failed attempt had
  written, and one that fails leaves a name without an address in a file that is
  uploaded all the same (`fuse_hooks.cpp:151`).
* A flush, an unlink, a rmdir or a truncate of a path that fails after some of its
  requests does not tell the stat cache (`fuse_hooks.cpp:361`, `388`, `414`, `478`),
  and a release of a dirty node (`366`) leaves the size a truncate has put there; the
  entry is wrong until it expires.
* `rename` drops its entries before its requests (`fuse_hooks.cpp:431-432`), so a
  listing in between puts an entry of the old name back.
* `max-download-rate=%l` (`main.cpp:65-66`) is half a conversion, so libfuse refuses
  every rate on the command line, although the help text offers both options; in the
  configuration file they work.
* Two threads that find the same expired entry erase it twice, the second time
  through an iterator that is no longer valid (`mru_cache.cpp:42`).
* An invalid `cachedir` is noticed after the login only (`main.cpp:241`).
* A failed download in `openCallback` abandons the node made with `new` and the
  temporary file of its storage (`fuse_hooks.cpp:291`).
* A listing taken before an unlink and cached after it brings the removed entry
  back for as long as the cache keeps it (`fuse_hooks.cpp:322`).
* Two handles on one file each have a `netMutex` of their own; two flushes can
  leave a whole file next to parts.
* An exchange across directories of files with the same name loses the source:
  its contents have just arrived at the target path when the last `rename` gives
  the temporary file its final name in place, and so overwrites them; the
  `FIXME` at `marc_rest_client.cpp:420` is about the same step.

The modules have all of these behaviours; the passing runs keep to
configurations, or to preconditions, without them.

## Not modelled

* Directories: `mkdir` and `rmdir` make one or two requests (what `rmdir` does to
  its cache entry is in `StatCache`), and the cloud renames a directory by itself. That `rmdir` removes what
  another device puts into a directory after it was listed is noted as a hazard.
* `ThreadPool`, which nothing uses.
* `CloudFile`, `Shard`, `Account` and the utilities: records read from JSON, and
  their accessors. An exception from one of them is `Garbled`.
* `utimens`, `statfs`, `chmod`: time stamps, quotas and modes are kept by nobody.
* Escaping of request parameters, hiding credentials in `argv`, the help text.
* Torn copies of a `struct stat`, and the effect of two unlocked seeks on the
  buffer of a stream: data races within one value.
* The end of a session: nothing in the code renews cookies or the CSRF token.

## Plan

All invariants and action properties of the passing runs are theorems; what is left
to the runs is liveness. Worth adding, each with its own difficulty:

1. Two nodes on one file in `FileNodeProofs`. The present properties are false for
   them, since each overwrites what the other has stored; it would take a weaker
   one, that the cloud has the content of one of the two.
2. Renames beside open nodes: `Rename` and `FileNode` share `Compound` but are not
   composed, so a flush to a path that was renamed meanwhile is in neither.
3. A second attempt of a rename in `RenameProofs`, from a property that
   survives a retry.
