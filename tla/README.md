# tropi-storage: a model of the adapter, checked and proved

`tropi-storage-adapter` is a Python library that gives several services one
interface, `StorageAdapter`, to the files of an office: on SharePoint through
Microsoft Graph (`GraphBackend`) or on Dropbox (`DropboxBackend`). Every service
process builds one adapter with `get_adapter()` and calls it from its threads
(request handlers, schedulers). The library keeps little state, but that state is
shared by threads, mirrors a remote store that other services and people change,
and every operation is several remote calls that may each fail, lose their
answer, or be repeated by the retry decorator. This project models that.

Paths below are relative to `src/tropi_storage/`.

## 1. Inventory

| Component | State | Operations | What is hard | What makes it correct |
|---|---|---|---|---|
| Dropbox file lock, `backends/dropbox_backend.py:264-296` | the `<path>.lock` file in Dropbox, `_instance_id`, `_held_locks` | `checkout`, `checkin` | three or four remote calls each, check-then-act; services and threads in between; failing requests, lost answers, restarts with a new UUID | at most one service is in the critical section; a lock is released by its holder only; it is released |
| Graph folders, `backends/graph_backend.py:448-465, 533-572, 613-686` | `_known_folders` (under `_cache_lock`), the library, its path index | `ensure_folder`, `write`, `delete`, `move` | the cache and the library change in different steps; the index lags; whole operations are retried | a folder taken to be there is there; what an operation reports is what it did |
| Graph addressing, `routing.py`, `graph_backend.py:227-410, 503-531` | site, drive and pin caches; routes, pins, strip prefix and default site, fixed at construction | `_route`, `_resolve_drive_id`, `_pins_for_drive`, `_build_item_url`, `_list_inner` | lookups outside the lock, failures swallowed and cached, people renaming folders | a path finds the item it stands for; what `list` returns can be used |
| Uploads, `graph_backend.py:448-495`, `dropbox_backend.py:152-181` | the upload session, `offset` | `write` | sizes at the limits, a chunk that fails, retry in a new session, two writers | the file is one writer's data, complete; what a write reports is what it did |
| Retry decorator, `retry.py` | the number of the attempt | `retry_on_transient` | runs again what may have been done; what it catches differs by backend | bounded, and every operation bears it |
| Conditional write, `graph_backend.py:724-738`, `dropbox_backend.py:299-312` | none of its own; the etag its caller holds | `get_metadata`, `read`, `write_with_etag` | on Dropbox compare and write are two calls; on Graph no retry and a lost answer | no update is lost |
| Graph copy, `graph_backend.py:574-611` | the copy job of the service, the deadline | `copy`, `_await_async_op` | polling errors retry the whole copy; a deadline races the end of the copy | the copy is made once, and reported when it is |
| Graph token, `graph_backend.py:192-205` | `_token`, `_token_expires_at` | `_get_token` | no lock; no refresh on 401 | a request has a valid token |
| Graph checkout/checkin, `graph_backend.py:701-721` | the service's own lock; `_held_locks`, never read | `checkout`, `checkin` | little: a lookup and one request | the service's |
| Dropbox and Graph reads and single-request operations | none | `read`, `list`, `get_metadata`; Dropbox `delete`, `move`, `copy`, `ensure_folder` | translation of errors | an absent file is told from a failure |
| Errors, `exceptions.py`, `graph_backend.py:50-94`, `dropbox_backend.py:37-60` | none | translation | what counts as transient | the decorator retries the right ones |
| Configuration, `routing.py:43-146`; factory, `adapter.py:99-122` | environment | `load_*`, `get_adapter` | parsing | rejected when malformed |
| Path helpers, `path_utils.py`, and the text of paths in `routing.py:171-226`, `graph_backend.py:345-361, 666-681` | none | `normalize_path`, `split_parent`, prefixes of paths | slashes and blanks around a path, names of which one begins another | text is cut where a segment ends |
| `logging_config.py`, healthchecks | none | output | nothing a model adds to | |

Interactions. Every operation of `GraphBackend` goes through addressing
(`_route`, `_build_item_url`), and `write`, `move`, `copy` and `write_with_etag`
through the folder cache (`_ensure_parent`). The Dropbox lock is made of the
backend's own `get_metadata`, `read`, `write(overwrite=False)` and `delete`. All
public operations but the Dropbox lock, the two `write_with_etag` and the
healthchecks are wrapped in the retry decorator as a whole. Threads meet in the
caches; services meet in the remote store only.

`PROJECT.json` lists under "hazards" each place where this bites, with its line.

## 2. Plan

In order of what a wrong step would cost; all of it is done.

1. `ExclusiveLock`, `DropboxLock`: the simulated lock, and the abstract lock it
   implements.
2. `GraphFolders`: folder cache, lagging index and retry under the four operations.
3. `GraphAddressing`: routes, drive and pin caches, list paths; `PathStrings`
   and `AddressText`: the text of the paths that the other modules take for sequences of
   segments.
4. `ChunkedUpload`: the two upload protocols.
5. `SharedFile`, `ConditionalWrite`: `write_with_etag` of both backends beside the writes,
   uploads and deletes of the same file, and the abstract file that all of them implement.
   `ConditionalWrite` extends `ChunkedUpload`, because the Dropbox `write_with_etag` calls
   `write`, and its run is the run of both.
6. `Transfers`: the Graph copy with its job and monitor, and the operations that are one
   retried request on Dropbox.

For each module: type correctness and its safety properties proved, for `DropboxLock` and
`ConditionalWrite` the refinement, and for every operation but the lock's that its calls
are short. Modules that are proved about have no recursive operator.
What a next step could add is the composition of `GraphAddressing` and `GraphFolders`
(the walk below a pinned folder that was moved); see the last section.

## 3. The modules

Common to all: an action is one remote call with what the code does with its
answer, or one use of a shared cache under its lock; what a thread does with its
own variables in between belongs to the step before. Failure is a choice of the
service and `Faults` says which are possible: a request that fails without effect,
one that takes effect and whose answer is lost, a process that dies. Every module
states its service (items, index, upload session, mode "add") as far as the code
relies on it; those definitions are external in the map. Definitions whose comment
begins with "Variant" are no part of the specifications: they are wrong versions
of the definition they precede, kept to show that the properties notice them
("mutants" in `PROJECT.json`).

**`ExclusiveLock`** is what `StorageAdapter.checkout` and `checkin` promise about a
file: an owner, and those inside. An owner may enter again, and may own the lock
without being inside (its checkout raised after it took the lock, or it died).

**`DropboxLock`**. `lock` is the contents of the lock file, `pc[w]` the remote call
worker `w` makes next, `held` `_held_locks`, `gen` counts the restarts of each
process, so that `<<instance, gen>>` is `_instance_id`. `CheckoutMeta`,
`CheckoutReenter`, `CheckoutLocked`, `CheckoutWrite`, `CheckoutConflict` are the
branches of `checkout`; `CheckinNothing`, `CheckinMeta`, `CheckinRead`,
`CheckinRefused`, `CheckinDelete` those of `checkin`; the `...RequestFails` and
`...ReplyLost` actions the faults. Dropbox lets mode "add" succeed over a file with
the same contents (`AddAllowed`). Workers call as `docs/usage.md` shows: checkout,
work, checkin in a `finally`.

**`GraphFolders`**. `at` is the item at each path (a folder or file with an id),
`lag` how many more lookups of a path the index answers 404, `known`
`_known_folders`. `pc`, `op`, `seg`, `tries`, `attempt`, `ids` are a thread's
position and local variables. The walk of `_ensure_folder_recursive` is
`WalkKnown` / `WalkUnknown`, `GetFolder` / `GetFile` / `GetNone`, `CreateFolder` /
`CreateRefused` / `CreateNotFound`, `Remember`, `WalkDone`; `write` goes on with
`Put...`, `delete` is `Delete`, `DeleteMissing`, `Forget`, and `move` is
`LookupParent`, `LookupSource`, `LookupMisses` (the settling lookups), `Patch`,
`PatchRefused`, `Forget`. `Retry` starts the operation again with fresh locals.

**`GraphAddressing`**. A path is a sequence of segments; `LibraryOf` and `ItemPath`
are `resolve_route`; `Anchors`, `First`, `Base`, `Rel` are `_build_item_url`;
`Route` is `_route` with the drive cache; `PinsCached`, `PinsUnknown`,
`PinResolved`, `PinSkipped`, `PinsStore` are `_pins_for_drive`, one step per pin.
`Send` builds the request and lets the service find the item; for a `list` call it
gives the paths of `_list_inner`. `Relocate` is people renaming and moving folders.
The site cache is not separate from the drive cache: both only hold what the
service answered, for good. Whether there is a default site is a choice at the start.

**`ChunkedUpload`**. Data of n bytes is the sequence of their positions, so a chunk
lost, repeated or misplaced shows in the file. `SingleUpload`, `StartGraph`,
`StartRefused`, `StartDropbox`, `SendChunk`, `SendLast` are the requests; which
backend runs is a choice at the start. Graph announces the total and completes the
file with the chunk that reaches it; Dropbox sends its first chunk with the start of
the session and its last with the finish. `ConnectionError` is where the backends
differ: Graph retries it, the Dropbox decorator does not. `stored` is a history of the
writers whose running call has stored its data, in any of its attempts.

**`ConditionalWrite`** extends it with the callers of `write_with_etag`, who do what
`docs/usage.md` says: `GetMetadata`, `Read`, then the write. `stage[w]` is where such a
caller is, `etag[w]` the etag it holds (the content that the etag stands for; `Stale`
when the file cannot have it again, as a Graph cTag; Dropbox's `content_hash` is the same
again when the content is), `seen[w]` a history of whether what it read is what the file
still is. Graph is one `Put` with If-Match, never retried; Dropbox is `Check`
(`get_metadata` and the comparison) followed by the `write` of `ChunkedUpload` with its
own attempts (`Upload`). `Delete` is somebody deleting the file, which on Dropbox also
lets a caller with the etag `""` create it. The calls of one client follow each other;
`PlainWrite` is a client that writes without an etag.

**`SharedFile`** is what `StorageAdapter.write` and `write_with_etag` promise together of
one file, without requests, sessions, retries and etags: a file, and for each caller the
phase of its call and what it is to store. `Store` stores the whole of a caller's data in
one step, again when the code tries again after a lost answer; it may end the call, with or
without an error. `Raise` ends it and stores nothing, so a call returns without an error
only as it stores. A create replaces nothing but its own data; an update, where the service
`compares`, only what its caller has read (`current`). `ConditionalWrite` implements it:
`Phases` hides the upload inside a `write_with_etag`, `ToStore` is the data of the call from
the moment its caller has it, `Creating` are the writes without overwrite, and `UpToDate`
the callers who have read what the file still is. An upload's session, its chunks and its
retries are stutters, and so is a Dropbox `Check` that goes on.

**`Transfers`** has a source and a destination path, and the calls of one thread on
them. `src` and `dst` say what is there: nothing, a file or a folder; `dst` is "blocked"
when a file stands in place of a folder above it. A Graph `copy` is `LookupParent`, the POST (`PostAccepted`, `PostCompleted`,
`PostRefused`) and the polls of `_await_async_op` (`PollCompleted`, `PollFailed`,
`PollAgain`, `Deadline`). `jobs` are the copy jobs of the service: `JobEnds` lets each
end when it likes, made or failed, also after the call that started it has returned,
failed or been retried. `own` are the jobs of this call, `made` says that an item of this
call has been at the destination. Dropbox `copy`, `move`, `delete` and `ensure_folder`
are one request each under the decorator (`DropboxRequest` for the first two,
`DropboxDelete`, `DropboxEnsureFolder`). The last takes every conflict for "already
there", as the code does, also one with a file.
`Others` puts anything at either path, or takes it away, at any time.

**`PathStrings`** has no state: it is the code's work on the text of a path, character
by character (`normalize_path`, `split_parent`, `Unprefixed`, `resolve_route`, `pin_rel`,
`forgotten`), and three statements over all short paths (`ParentsInText`, `RoutesInText`,
`AnchorsInText`) that it does to the text what `GraphAddressing` and `GraphFolders` do to
the segments. **`AddressText`** composes it with `GraphAddressing`: `ParentsBySegment`,
`RoutesBySegment` and `AnchorsBySegment` add to those statements that in every state the
paths of the calls, of the pins a thread has found and of the listings it was given,
written out, come to the same as their segments.

`MC...` modules hold the instances, `...Proofs` modules the theorems.

## 4. The runs

| Run | Instance | Shows |
|---|---|---|
| `lock_safety` | 3 services, an adapter each, all faults, 1 restart each | `MutualExclusion`, `HoldersOwnLock` (the file has the holder's id from checkout to the delete), `OnlyHolderReleases`, and that `DropboxLock` implements `ExclusiveLock` |
| `lock_liveness` | 2 threads on one adapter and another service, no faults | `LockHasHolder` (no orphaned lock file) and `LockEventuallyFreed` |
| `lock_shared_adapter` | the same threads | **violation** of `MutualExclusion` |
| `lock_checkin_again` | 2 services; checkin is called again after it raised | **violation** of `OnlyHolderReleases` |
| `folders_sequential` | 1 thread, 9 calls on nested folders, throttling, an index that lags for 2 lookups | `KnownFoldersArePresent`, `EnsureDelivers`, `MoveDelivers`, `MoveNotFoundIsGenuine` |
| `folders_archive` | 2 threads that only add, throttling and lost answers | the cache is right, only throttling ever fails a call (`OnlyThrottlingFails`), and every call returns |
| `folders_concurrent` | 2 threads, creating, replacing, deleting, moving | `MoveMovesWhatItFound`: an item put at the source meanwhile is not moved instead |
| `folders_lost_reply` | 1 thread, a move and an `ensure_folder`, a lost answer | **violation** of `EnsureDelivers` |
| `addressing` | 2 threads, 3 drives, 2 routes and a stale one, 4 pins (one of the stale route, one inside another), a strip prefix, with and without a default site, the two nested pinned folders renamed and moved, failing requests; paths of up to 3 segments as text | `PinsComplete`, `PinnedItemsReached`, `ListRoundTrips`; `ParentsBySegment`, `RoutesBySegment`, `AnchorsBySegment` |
| `upload` | 2 writers, 4 sizes, both backends, all faults, deletes | `FilesAreWhole`, `ChunksAreFull`, `WriteDelivers`, `RefusedWriteStoredNothing` (a write that Dropbox refuses has not stored its data in an earlier attempt); `GraphLosesNoUpdate`, `ConflictIsGenuine` (a conflict is not reported to a caller whose own data is in the file); that `ConditionalWrite` implements `SharedFile`; `WritesReturn`, `UpdatesReturn` |
| `etag_lost_update` | 2 writers, small data, no faults | **violation** of `NoUpdateIsLost`, on Dropbox |
| `transfers` | 1 thread, 3 jobs, both backends, all faults | `TransferDelivers` (a call returns only with its own effect; `ensure_folder` is excepted where a file is in its way), `RefusedDidNothing` (what Dropbox refuses has not been done by an earlier attempt), `TransfersReturn` |

### Bounds

- Locks: three services suffice for one to hold, one to wait and one to interfere;
  `MaxRestarts = 1` gives a successor with another UUID while the predecessor's file
  is there. A second restart repeats the first.
- Folders: a tree of two levels in two places has everything `_forget_folder` tells
  apart: a path, its descendant, its parent, and a path it may be moved to. `Path`
  bounds the tree, the ids of the MC module are more than it can hold at once.
  `MaxRetries = 1` is one repetition of each operation (five in production, and each
  starts from nothing); `SettleRetries = 3` (four in the code) with
  `MaxLag = SettleRetries - 1`, the longest lag the lookups are meant to outlast.
- Shared folders (`folders_concurrent`): no faults and no lag, so that what the threads
  do to each other is all there is; each folder can go and come back with another id
  between the lookup of a move and its request.
- Addressing: a pin on each of two drives, one inside the first of them, and one that
  cannot be resolved; paths on, above and below them. People give one new name, move the
  inner folder out of the outer one and the outer one elsewhere, and put nothing at the old
  name of a pinned folder. Once the inner folder has gone, only its own pin finds it: the
  order in which the loop takes the pins shows.
- Uploads and conditional writes: limits 1 and 3, chunks of 3 and 2 bytes, in the code's
  proportions (Graph's chunk is larger than its limit, Dropbox's smaller), and sizes 1, 3,
  5 and 6: at each limit and over it, a chunk exactly, one more, two and three chunks.
  `MaxRetries = 1` is one repetition of each call. Two writers: one whose call is followed
  and one who interferes, with anything, at any step.
- Transfers: `MaxRetries = 2` and as many jobs as attempts, so that every attempt can
  leave one running and a later call meets it; `MaxPolls = 2` is a poll that finds the job
  running and one that does not come before the deadline.
- Path text: 3 names, one the beginning of another, 3 segments: prefix, route and what is
  left of the path. The spellings are those a caller may use: with or without the first
  slash, slashes at the end, blanks around.

### Fairness

Only `CallsReturn`, `WritesReturn`, `UpdatesReturn`, `TransfersReturn` and, for the lock,
`LockEventuallyFreed` use it. Each thread that is in a call goes on (`WF` of its steps): each remote call has a time limit in the
HTTP client and every loop of the code is bounded, so a call never hangs. For the lock
it includes that the critical section ends, as the `finally` of `docs/usage.md` has it.
Nobody is obliged to make a call, a request is not obliged to succeed, a copy job is not
obliged to end (the deadline of `_await_async_op` has to end its polling), and nobody else
is obliged to write or delete anything. `lock_liveness` has no faults: after a
lost answer or a crash a lock file may stay for ever, which the code does not deny.

### Findings

1. *A shared adapter does not lock its own threads, nor count them*
   (`lock_shared_adapter`). The second thread of a service enters at once, and the
   checkin of the first deletes the lock file, so another service enters beside it.
2. *checkin takes an unreadable lock for its own* (`lock_checkin_again`). Called again
   after its delete took effect but raised, it deletes the lock of another service when
   its read fails.
3. *A move whose answer is lost leaves the moved folder in the cache*
   (`folders_lost_reply`). The retry raises NotFoundError before `_forget_folder`;
   the next `ensure_folder` returns and the folder is not there.

4. *Dropbox's `write_with_etag` loses updates* (`etag_lost_update`). It compares the etag
   with a `get_metadata` and writes with a request of its own; what somebody writes in
   between is overwritten, and nobody sees an error. On Graph, where the service compares,
   the same property holds and is proved.

Met, and no run's subject:

- Connection errors are not retried on Dropbox, where `docs/usage.md:183` says they are.
  The models have what the code does. If the decorator did retry them,
  `RefusedWriteStoredNothing` and `RefusedDidNothing` would fail (a write or copy that took
  effect and lost its answer would be refused on its repetition): the mutant of both.
- Dropbox `ensure_folder` returns although no folder is at the path when a file is there or
  in place of a folder above it (`dropbox_backend.py:240-243`: the text of the error has
  "conflict"), where `adapter.py:60` has "Create folder if missing, including parents". The
  model does the same, so `TransferDelivers` (`Effective`) claims a folder of `ensure_folder`
  only where the request met nothing or a folder.

## 5. What is proved

All theorems hold for every value of the constants that meets the named assumption of
the module (types of the configuration, no more) and the conditions named here.

- `DropboxLockProofs`: `TypeCorrect` without conditions. `HoldersKeepTheLock`,
  `Exclusion`, `ReleaseByHolder` and `Refinement` under `OneWorkerPerAdapter` and
  `RetryCheckin = FALSE`; findings 1 and 2 are what happens without them. The
  inductive invariant is `TypeOK /\ HoldersOwnLock`: mutual exclusion alone is not
  inductive, since a worker about to delete the file must own it too, or its delete
  frees a lock that another has taken. `Refinement` maps the owner to the contents of
  the file and those inside to the ids of the workers in the critical section, and
  shows each step to be one of the abstract lock's or a stutter. `NoOrphans`, when there
  are no faults and even if threads share an adapter: the lock file has a holder.
- `GraphFoldersProofs`: `TypeCorrect` without conditions. `CacheIsRight` and
  `EnsureIsRight` under `Supported`: all threads only add, or there is one thread and
  no answer is lost (finding 3, and `graph_backend.py:627`, mark its border). The
  invariant adds that an item is at one path only, that the folders a walk has passed
  are there, that a thread about to remember a folder has it there, and that the ids
  of a move in progress stand where its paths say. Lemmas about prefixes carry the
  move of a subtree.
- `GraphCallsProofs`, on that invariant: `ArchivesSucceed` under `Archive` (calls only
  make folders and write files, no file is to be where another call wants a folder, the
  index does not lag). It adds that the library has only what such calls put there
  (`Apart`), so that no thread meets a file on its way or misses a folder it has passed.
  And `MovesWhatItFound` without conditions, for any threads and faults.
  `MovesDeliver` for one thread that loses no answers, and with it `NotFoundIsGenuine` for
  any lag below `SettleRetries`: the lookups a move has made and the lag that is left are
  together the whole lag (`InTime`), so the last lookup is answered truly.
  `CallsAreShort` without conditions: each step of a call ends it or brings it nearer to its
  end in three numbers counted down one within the other, the attempts left, the segments
  left of the walk with what follows it, and the settling lookups left; the steps of other
  threads and of the index leave all three.
- `GraphAddressingProofs`: `TypeCorrect`, with the invariant that a thread past its
  route has its drive cached. `NoPinIsMissing` under `DistinctDrives` (no drive is
  configured under two names): a pin of the drive at hand is of the library of the
  call, whose drive is cached, so it cannot be skipped; the invariant says what a
  thread has found of the pins it has passed.
  `PinsAreStable` adds to it what a request is built from: under `DistinctDrives`,
  `OneRouteEach` (no two route names lead to one library), `NoRootPins` (no pin is for the
  root of a library: `_build_item_url` would use it for the root only) and `InnermostFirst`
  (a pin inside another comes before it: `_build_item_url` takes the first that fits), the
  item a request finds is the one its path means from the closest pin. So `Meant`, which
  knows no drives, caches or order of pins, and the code agree whatever was renamed, failed
  or cached before. `ListedPathsFind` is about the paths that `list` returns: whether
  appending a name changes the prefix, the route, the pin or the folder a path goes to
  (`RouteFurther`, `OneFurther`). That it does not needs `PlacesKept`, in every state:
  nobody puts another folder where a pin is configured, no folder of the default site has
  the name of a route or completes the strip prefix. `list` gives paths of something else
  where it does not hold, and the code does not guard against it. TLC
  evaluates all five conditions to true in the instance of `addressing`: the theorems cover
  the run.
- `AddressTextProofs`: `ParentsAreSegments`, `RoutesAreSegments`, `AnchorsAreSegments`,
  without conditions, for all names, depths, prefixes, routes and pins. A name is a
  non-empty text without slash and blank, and different names are different texts; nothing
  else is assumed, so names that begin alike are covered. The core is `ClosedPrefix`: a
  path written with a slash after every segment begins with another such text exactly when
  the one path begins with the other, which is what `folder + "/"` in the code is for.
  Around it, `SpeltIs` (however a path is spelt, `normalize_path` gives one text),
  `SplitIs` (the last slash is the one before the last segment), `FirstSegmentIs`,
  `UnprefixedIs`, `RouteIs`, `PinIs`. The state part needs only that `list` returns paths
  of the folder it was asked for (`ListedHere`).
- `ChunkedUploadProofs`: `TypeCorrect`, `OnlyWholeFiles`, `SessionsAreFull`,
  `WritesDeliver`, `RefusalsAreTrue` without conditions, for all sizes, limits and
  chunk sizes with Dropbox's chunk no larger than its limit. The invariant: a session has
  received the first `offset` bytes, a multiple of the chunk, and there are more to come;
  for Dropbox that needs data larger than the limit to be larger than the first chunk.
  And no call that goes on has stored its data on Dropbox (`stored`): what took effect was
  the end of its call, which is why a refusal is true.
  `WritesAreShort`: each request of a write leaves fewer to make, of at most
  `(MaxRetries + 1) * (size + 3)`, and other writers do not change how many are left.
- `ConditionalWriteProofs`: `UpdateTypeCorrect`, `NoGraphUpdateIsLost`,
  `ConflictsAreGenuine`, without conditions; and the properties of the uploads once more,
  beside updates and deletes, which is the specification the run checks (`UpdateSpec`):
  `UploadTypes`, `UploadsBesideUpdates` (`FilesAreWhole` and `ChunksAreFull`),
  `UploadsDeliver`, `UploadRefusalsAreTrue`. The invariant of the uploads survives. The invariant `CInv` adds what an etag tells (`Informed`): a Graph
  caller about to write has read what the file is, or its etag is stale; and if the file
  has the caller's own data, the caller has its etag, so no comparison can fail on it.
  `FileIsShared` is the refinement: every step of a write, an upload or an update is one of
  `SharedFile` or a stutter. `CInv` is what makes it go through: the last chunk stores
  exactly the data of the call (from the upload's invariant), and a Graph `Put` that is let
  through is of a caller who is up to date (from `Informed`).
  `UpdatesAreShort`: every request of an update takes it on to a later call or leaves this
  call fewer requests; a failed comparison leads out of it.
- `TransfersProofs`: `TypeCorrect`, `CallsDeliver`, `RefusalsAreTrue`, without conditions,
  for any number of jobs, retries and polls. The invariant: a job that is polled and
  completed is of this call and has made its item (`GraphCopies`), and on Dropbox a
  request that took effect was the last of its call (`DropboxOnce`), which is why nothing
  is refused that was done. `TransfersAreShort`: each request leaves fewer to make, of at
  most `(MaxRetries + 1) * (MaxPolls + 4)`, whatever the copy jobs do.

`Walk` and `Text` are folds over sequences of any length. What they compute is proved
without an induction rule: a set of natural numbers has a least element (`LeastNat`), so
the shortest counterexample of a lemma about them has a shorter one.

Only model-checked: the liveness properties (`LockEventuallyFreed`, `CallsReturn`,
`WritesReturn`, `UpdatesReturn`, `TransfersReturn`), since fairness and ENABLED are out of
the prover's reach. For the last four the `...AreShort` theorems are the part of the argument
that is about the code: no schedule, fault or retry makes a call go on for ever, because
each of its steps counts down and nobody else's step counts up. What TLC alone shows is
that a call under way always has a step to take. A holder of the lock may hold it as long
as it likes, so `LockEventuallyFreed` has no such number. Every other property of a passing
run is a theorem about the specification of that run, under the conditions given here.

## 6. What is not modelled

- The Graph token cache (`graph_backend.py:192-205`): what could go wrong there is seconds
  against a margin of 60 s, and the models have no time.
- Graph's native checkout and checkin: a lookup and one request to a lock that is the
  service's own; `_held_locks` is written there and never read.
- Healthchecks, logging, the parsing of environment variables, `expand_path`, the fields
  of an entry, the paging of listings: no state, or output only.
- The delays between attempts: only the number of attempts matters to any property here.
  A timeout is a request that fails or an answer that is lost.
- Folders that people, or other services, delete behind the adapter's back are outside
  `GraphFolders`: the code's comment at `graph_backend.py:627` excludes them from the
  cache's promise. For the same reason nothing is claimed of a cache whose threads delete
  what another is making, though `folders_concurrent` runs that.
- The walk of `ensure_folder` below a pinned folder that was moved makes the ancestors of
  its old place again: `GraphFolders` has no pins and `GraphAddressing` no writes. Listed
  as a hazard without a property.
- The 404 that Graph's `copy` may get for a parent just made is in `Transfers`
  (`LookupParent`), and no property says it should not happen: the code waits for the
  index in `move` only.
