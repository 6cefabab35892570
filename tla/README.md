# A TLA+ model of xtax-blob-storage

`xtax-blob-storage` is an asynchronous Rust library: a `BlobStore` trait, two
backends (filesystem, S3), layers that wrap one store in another (prefix,
encryption, cleanup) and a builder that assembles them and starts background
maintenance. This directory holds TLA+ modules translated from its source, the
TLC configurations that check them, and proofs checked by TLAPS.

Paths below are relative to `src/crates/xtax-blob-storage/src/`.

## The system

| Part | State it keeps | Operations | Talks to |
|---|---|---|---|
| `EncryptedBlobStore` (`encrypt/store.rs`) | none of its own: two inner objects per blob, the data under `key` and the header under `key.enc-header`; per call its locals and a spawned task | put, get, delete, list, visit, exists, get_with_metadata, list_with_metadata, rekey | the inner store, the `EncryptionProvider` |
| Rekey pass (`encrypt/rekey.rs`) | the page of the listing, the header in hand, a count | one `visit` per header | the inner store, the provider |
| Streams of put and get (`encrypt/store.rs:22-52,174-222,253-300`) | a 64 KiB pipe per transfer, the task that writes it, the error slot that a decryption task shares with its reader | poll_read, the task's writes, timeout, abort | the provider, the inner store, the caller |
| Maintenance (`builder/maintenance.rs`, `builder/strategies.rs`) | a queue of 16 tasks, one worker, one loop per strategy, a cancellation token, a watch counter for `Manual` | trigger, try_trigger, schedule, cancel | builder, cleanup, rekey |
| Builder and `ShutdownGuard` (`builder.rs`) | the list of layers; then a strong reference to the stack, and weak ones in the task factories | with_*, build, drop | everything |
| `BlobCleanup` (`cleanup.rs`, `cleanup/visitor.rs`) | the batch being filled, the deleted count | cleanup; the rest is delegated | the inner store, the predicate |
| `FsBlobStore` (`fs.rs`, `fs/store.rs`) | the directory tree | the trait | the operating system |
| `S3BlobStore` (`s3.rs`, `s3/*.rs`) | the bucket; per upload its id and completed parts | the trait, multipart upload | the AWS SDK |
| `PrefixBlobStore` (`prefix.rs`), validation (`validate.rs`), filters (`list_filter.rs`) | none | pure functions on keys | the inner store |

What is hard in this code, and what makes each part correct:

- **Encryption layer.** A blob is two objects and no call writes both at once.
  Calls overlap, an inner call may fail after taking effect, a call may be
  dropped at any await or the process may stop. Correct means: what `put`
  reported stored can be read back; what `delete` reported deleted is gone; no
  interleaving brings a replaced version back.
- **Rekey.** It reads a header, waits for the provider, and writes the header
  back with no check that it is still the one in the store. Correct means: no
  stored blob becomes unreadable, and no deleted one reappears.
- **Read paths.** They look at the two objects at different moments. Correct
  means: never a replaced version, and a blob that is there throughout the call
  is found.
- **Streams.** Task and reader end in either order. Correct means: a clean end
  of file only after the whole plaintext.
- **Maintenance.** A bounded queue with producers that wait on it, a single
  worker, and cancellation. Correct means: tasks run one at a time in order, a
  trigger is not lost while the store lives, everything stops once it is dropped.
- **Cleanup.** It deletes in batches, in the middle of a listing of a store that
  others change. Correct means: no key is deleted that was spared, none is
  forgotten, and the count is that of the keys.
- **S3, filesystem.** Every call is several requests or system calls, between
  which others work on the same keys, and each of which may fail. Correct means:
  what is reported stored, deleted, missing or listed is what happened.
- **Prefix.** It rewrites keys and filters on the way in and answers on the way
  out. Correct means: a tenant sees its own keys, all of them, and no others.

`PROJECT.json` lists these hazards at their lines, with the properties that
cover them. One has a note instead that says why none does: a `get` that meets a
header being rewritten in place. Notes beside the properties of others say which
part of the hazard the code does not avoid and the property therefore leaves out.

## What is modelled

### `EncryptedStore.tla`: put, delete and rekey

One action per step between two awaits. The state is the inner store (`data`,
`header`), the program counter and locals of every writer's call, and those of
one rekey pass.

| Code | Actions |
|---|---|
| `put`, validation and start of the batch (236-270) | `PutBegins`, `CallRejected` |
| inner put of the ciphertext (272-279) | `DataStored`, `PrefixStored`, `DataFails` |
| wait for the header (281-300) | `EncryptionReturns`, `EncryptionFails` |
| header write (317-327) | `HeaderStored`, `HeaderStoredLast`, `HeaderFails` |
| rollback (306, 325) | `Rollback` |
| `delete` (355-397) | `DeleteBegins`, `DataDeleted`, `DataDeleteFails`, `HeaderDeleted`, `DeleteReturns`, `DeleteFails` |
| crash, or the caller drops the future | `Abandoned`, `RekeyAborts` |
| `rekey`, `RekeyVisitor::visit` | `RekeyBegins`, `RekeyFetches`, `RekeySkips`, `RekeyWraps`, `RekeyKeeps`, `RekeyStores`, `RekeyStoreFails`, `RekeyReturns` |
| the provider's current key (external) | `EpochAdvances` |

Abstractions. Bytes are the number of the put that made them: a ciphertext and
a header decrypt together iff they carry the same number. A failing inner put
leaves the old object, the new one, or (`TornWrites`, the filesystem) a
truncated one. A failing inner delete may have deleted. `PrefixStored` is the
case of an encryption task that dies in mid-stream: the inner store sees an
ordinary end of file and keeps a prefix. A rekey pass visits the keys in any
order and may miss one that appears behind it; its visitor works on one header
at a time. Only one pass runs at a time, as the maintenance queue has one
worker; an application that calls `rekey()` by hand during a background pass is
outside the model. A process crash is modelled as its calls being abandoned one
by one: no call keeps state that another depends on, so a crash of all is the
same as each stopping where it is.

### `EncryptedHistory.tla`: what callers may rely on

History variables watch the program (`HNext == Next /\ Watch`) and never
constrain it: `Watch` assigns them and has no guard. A writer's *turn* on a key
runs from its first inner write of the blob to the end of its header write or
rollback (for delete: the whole call). A turn is *alone* if no other turn on
the key overlapped it and no rekey pass wrote over it a header read earlier.

- `KeptReadable`: a blob stored in a turn of its own is readable, whatever
  wreckage earlier calls left, and stays so through failures and rekey passes,
  until the next turn on the key or until a pass writes back a header that it
  read during a turn. It is *not* true where rekey passes run and a failing put
  truncates the object it replaces (`RekeyTears`: the filesystem,
  `fs/store.rs:122`). There one header write of a pass that fails leaves a blob
  that nobody else touched without its only wrapped data key, and the code does
  no more about it than log a warning (`rekey.rs:48`).
- `KeptPaired`: what is left of it there. The blob's ciphertext stays whole, and
  the header beside it is its own, whole or cut short.
- `GoneStaysGone`: a key reported deleted in a turn of its own has no data,
  even if its header survived or a rekey pass wrote the header back.
- `ObsoleteNeverBack`: no overlap of calls, alone or not, brings back
  ciphertext that a later successful call replaced or deleted.

Two statements of the documentation are not so. `RekeyKeepsBlobs` (rotation in
the background only touches headers): a pass may overwrite the header of a blob
that was overwritten and acknowledged while the pass held the old header. The
new data can then never be decrypted. (`online_rekey` has no torn writes, so that
its trace is that race; with them a single failing header write of a pass would
violate the property as well.) `UnpairedDataInvisible` (a put that stops
between its writes leaves nothing visible): not on an overwrite, where the old
header pairs with the new data. The findings in `PROJECT.json` quote the lines.

### `EncryptedReads.tla`: get, exists and the listings

Readers beside those writers and that pass. A read looks at the two objects in
separate steps, so everything above happens in between.

| Code | Actions |
|---|---|
| `get`, `exists`: data object (341-350, 441-451) | `KeyReadBegins`, `DataMissing`, `DataFound` |
| header (183-191, 452-454) | `HeaderMissing`, `HeaderExists`, `HeaderRead` |
| the returned stream, drained by the caller (194-221) | `Decrypted` |
| inner listing (401-408) | `ListBegins`, `ListSees` |
| header check of each key (412-418, 497-505; `visitors.rs`) | `OrphanSkipped`, `CheckErrorSkipped`, `KeyListed`, `StatBegins` |
| `list_with_metadata`, inner get_with_metadata (507-521) | `StatEnds` |
| return, or an error of an inner call | `ListReturns`, `ReadFails` |

`get_with_metadata` reads the objects as `get` does. On the filesystem an object
is rewritten in place: under `TornWrites` a reader may find a file truncated
while a put of it is under way (`DataSeen`, `HeaderSeen`), and a file already
open shows what is written to it later (`Drained`). Keys that fail validation
are rejected before any inner call and are left out.

- `ReadsNeverStale`: what `get` decrypts was not replaced or deleted before the
  call began.
- `ReadsMissAbsent`: a key reported deleted, and let alone throughout the call,
  is neither returned nor listed, whatever headers lie around.
- `ReadsFindSteady`: a blob that is stored, and let alone throughout the call
  but for rekey passes, is found: `get` decrypts that very write, `exists` and
  the three listings see it, unless the call returns an error of the backend.
  The one exception is a key that `list_with_metadata` dropped because its header
  check failed (`unchecked`); every other key must be in that listing too.

The actions also contain two known disagreements with `docs/encryption.md`.
`list_with_metadata` swallows the errors of the header check and returns Ok
without the blob (line 343 there says otherwise): `CheckErrorSkipped`, the
exception just named. And on the filesystem a `get` that meets a rekey pass reads
a header being rewritten and fails on a blob nobody touched (lines 178 and 339):
hence `reads`, which has rekey passes, is a run for a backend that replaces
objects whole.

Both layers are modelled over an inner store that tells a look that failed from a
blob that is not there, and that lists only true keys. The filesystem does not
always (see `OverlookFile` below): under this layer a header whose stat fails is
then a missing one, and its blob is answered NotFound or left out of a listing.

### `Streams.tla`: the pipes of put and get

`EncryptedStore` takes the turn of a blob as three steps; here it is opened up.
A blob of `Size` chunks is put, and read back if both its objects are there.

| Code | Actions |
|---|---|
| put: pipe and task (253-270) | `PutBegins`, `TaskWrites`, `TaskEndsOutput`, `TaskReturns`, `TaskFails`, `TaskAborted` |
| inner put, its failure: abort and await (269-279) | `InnerReads`, `InnerStored`, `InnerFails`, `TaskBroken`, `TaskAwaited` |
| header or timeout (281-300) | `HeaderReturned`, `TaskFailureSeen`, `HeaderTimesOut` |
| header write, rollback (301-327) | `HeaderStored`, `HeaderFails`, `Rollback` |
| the caller drops put's future | `PutDropped` |
| `decrypt_stream` (174-222) | `GetBegins`, `DecryptWrites`, `DecryptReturns`, `DecryptFails`, `SlotFilled`, `TaskDropped`, `DecryptPanics` |
| `ErrorAwareReader::poll_read` (29-52) | `ChunkRead`, `EndRead`, `ReaderDropped` |

An encryption task that fails looks to the inner put like the end of the stream,
so the inner put may well have stored a prefix. A header timeout does not await
the task it aborts, which may still return its header. `source` is how much can
be read back and decrypted: whatever happened to the data since, it breaks off
at a chunk that `GetBegins` chooses. A decrypting provider is taken not to shut
its output down before it returns: one that did would end the reader's stream
before the slot is filled.

- `HeaderSealsWhole`: still a header lies only beside the whole ciphertext, or
  beside none.
- `CleanEndIsWhole`: the reader comes to a clean end only after the whole blob,
  unless the task panicked. Without that exception it is `NeverTruncated`, the
  comment on `ErrorAwareReader`, and violated: a panic fills no slot.
- `PutEnds`, `TasksEnd`, `ReadEnds`: nobody hangs on a full pipe, on a header
  that never comes, or on a task that is gone, and no task is left over.

### `Keys.tla`, `CallLog.tla`, `BlobMap.tla`: keys, and what a store promises

`Keys` has the pure functions. A key is a short sequence of symbols (`/`, `.`,
the backslash, and letters that stand for whole pieces), which is all that the
rules look at: `Valid` (`validate_blob_key`), `ValidHint`
(`validate_prefix_hint`), `Matches` and `PrefixHint` (the three filters),
`Prefixed`, `Accepts`, `Stripped`, `CombinedPrefixFilter`, `Listed`
(`prefix.rs`). `CallLog` is the observer: of each call it keeps the keys done,
those there all the time and those there at some time, and the answer.

`BlobMap` is the abstract specification, the promise of the `BlobStore` trait
for any number of concurrent callers. Blobs change only under the keys of a put
or delete in progress, and *answers are true* (`Truthful`): an Ok of put or delete has
taken effect on every key, a batch error names only keys that are done, what a
get, exists or list finds was there at some time of the call, and what it misses
was not there all the time. An error promises nothing, a put may leave a torn
blob, and a put overtaken by another call on its key counts as done. Two
exceptions are owed to the filesystem, and each is as narrow as the code lets it
be: with `Overlooking`, a look of a get, exists or list that fails may count as
one that finds nothing (`Overlook`); and a listing whose prefix has an empty
component may show names that are nobody's keys (`Invented`). The second needs no
flag: it is there only for such prefixes.

### `FsStore.tla`, `S3Store.tla`: the backends

| `FsBlobStore` | Actions |
|---|---|
| validation, `ensure_root` | `FsRefuses`, `FsBegins` |
| put (`fs/store.rs`): `create_dir_all`, `File::create`, copy, stat | `Mkdir`, `OpenFile`, `CopyChunk`, `CopyEnds`, `StatStored` |
| delete: `remove_file` for each key | `Unlink`, `AlreadyGone`, `UnlinkFails`, `UnlinksReturn` |
| get, get_with_metadata, exists | `Probe`, `OpenToRead`, `StatFile`, `RootAgain`, `AskIsFile` |
| list, list_with_metadata, visit | `Walk`, `OpenDir`, `ReadEntry`, `EndOfDir`, `SkipDir` |
| `exists()`, `is_file()`, `is_dir()` of a path whose stat fails | `OverlookFile`, `AnswersBlind`, `OverlookEntry` |
| an error of a system call, a dropped call | `FsFails` |
| the operator removes the root | `RemoveRoot` |

The tree maps each path to nothing, a directory, or a file's bytes; the bytes
name the put that wrote them. Each open file has its own offset, so two puts of
a key mix their bytes, and one whose file was unlinked writes into the void. A
walk sees the entries that were there when a directory was opened, and perhaps
later ones. `visit` and `list_with_metadata` walk as `list` does; a file that
goes before its stat is an error of the call (`FsFails`).

Not every stat that fails is an error, though. `Path::exists`, `is_file` and
`is_dir` (lines 148, 223, 238, 253 and their like) answer no whatever the reason
(permissions, an I/O error, a stale handle): get then says NotFound of a blob
that is there, exists says false, and a listing leaves out the entry, or all that
lies below it. These are `OverlookFile` and `OverlookEntry`, switched on by
`StatsFail`. And a hint need not be spelt as keys are. `validate_prefix_hint`
accepts `a//`; the system walks `a/` (`Collapsed`, `WalkFrom`), but the keys are
cut from paths that begin as the hint does (`Spelt`), so `a//x` is found, matches
the filter and is returned.

| `S3BlobStore` | Actions |
|---|---|
| put: lookahead, `PutObject` (`s3/store.rs`, `s3/single.rs`) | `Lookahead`, `ApplyPutObject`, `StoredObject` |
| multipart upload (`s3/multipart.rs`) | `CreateMultipart`, `UploadPart`, `PartsEnd`, `ApplyComplete`, `PartFails`, `Abort` |
| delete, by chunks of keys | `ApplyDelete`, `ChunkReplies`, `DeletesReturn` |
| get, exists, list by pages | `ObjectReplies`, `HeadReplies`, `NextPage` |
| an error of a request, a dropped call | `S3Fails`, `S3Dropped` |

A request and its reply are two steps: the service may have applied it, once,
again (the SDK retries) or not at all, whatever the reply says. No request is
taken to be applied after its call has ended. A stream is its length, and a part
of an upload the piece of the stream it holds, from its first to its last byte:
where the parts lie is what can go wrong, a byte left out between two or sent
twice. `UploadsComplete` says that what is completed has neither no part nor too
many, and that no part but the last is short; `ObjectsWhole`, that its pieces
follow each other from the first byte to the end, so that an object is all of
one stream. A page of a listing is any upper part of what is left, up to the
page size (`last` is its greatest key). `TreeTypeOK` says that the tree is one:
nothing lies below what is not a directory, and no call writes to a file that
is not there.

### `Backends.tla`: the store that the builder makes of them

One of the backends, callers that use it directly, and tenants behind
`PrefixBlobStore`. Each call is validated and rewritten as the layer does it,
then handed to the backend's action. Two refinements state what it is all for:

- `BackendContract == AllKeys!Spec`: with the log as it is and the blobs as an
  observer sees them (`AllBlobs`), both backends implement `BlobMap`.
- `PrefixContract == TenantKeys!Spec`: with keys, blobs, calls and answers
  mapped to the tenants' names (`TenantBlobs`, `TenantCalls`), so does the store
  as a tenant sees it, while others work on the same backend.

The contract leaves out what an error says and makes the exceptions of
`BlobMap`, and the code disagrees with its documentation there. The actions
contain these cases; no run is about them:

- a stat that fails unnoticed (`StatsFail`): get answers NotFound of a stored
  blob (`docs/error-handling.md:112`: "the key genuinely doesn't exist"), and
  list leaves it out (`blob_store.rs:70`: it "MUST be visible to `list`");
- a listing for `PrefixFilter("a//")` shows `a//x`, and that for
  `PrefixFilter("/")` of a tenant with the prefix `t/` shows `/x`, though no put
  could have stored either (`blob_store.rs:66`: "List blob keys matching the
  given filter");
- delete of a missing key below a file, or of a directory, is a batch error on
  the filesystem, not a success (`blob_store.rs:57`, `docs/error-handling.md:109`);
- get of a directory returns Ok with a reader that fails (`broken`);
- a list with `PrefixFilter("a/")` fails if there is a blob `a`;
- a file that goes between get's two looks is a storage error, not NotFound;
- an S3 delete whose chunk fails leaves the later chunks untried, against
  `blob_store.rs:48` ("Every key is always processed");
- a failing CompleteMultipartUpload, or a put dropped while it uploads, leaves
  the parts in the bucket.

### `Cleanup.tla`: a pass of BlobCleanup

| Code | Actions |
|---|---|
| `cleanup` (`cleanup.rs:107-120`) | `CleanupBegins`, `PageListed`, `ListingEnds`, `PassFails` |
| `CleanupVisitor::visit` (34-46) | `BlobSpared`, `BlobDoomed` |
| `flush` (20-29) and the inner delete | `KeyDeleted`, `FlushReturns` |
| other callers (external) | `OthersChange` |

A blob is one that the predicate dooms or one that it spares. A page shows the
blobs as they are when it is listed; the visitor judges and deletes later.

- `CountHonest`: each doomed key is in one batch and counted once. The count is
  of keys handed to deletes that succeeded: one that another caller deleted first
  counts as well (`types.rs:110` calls it "Number of blobs deleted"), and what a
  failing flush did delete is counted nowhere, as the caller gets the error.
- `PassExact`: of the blobs that nobody else touched, a pass that says ok has
  deleted the doomed ones, and no pass deletes a spared one. A blob that is
  overwritten after it was judged is deleted all the same (`docs/cleanup.md:5`
  says nothing of it): such keys are outside the property.
- `PassEnds`: it ends, also with a batch size of zero and while others store and
  delete. It is a claim about finitely many keys and `MaxChanges` changes, listed
  by pages that repeat no key: somebody who stores new keys ahead of the listing
  for ever can keep a pass going.

### `Maintenance.tla`: the queue, the strategies and the drop of a store

| Code | Actions |
|---|---|
| `do_build`, `spawn_tasks` (`builder.rs:714-741`, `maintenance.rs:49-56`) | `Schedules`, `ScheduleFails`, `BuildReturns` |
| `ShutdownGuard` (`builder.rs:35-44`): cancel first, then the fields | `StoreDropped`, `LayersDropped` |
| worker (`maintenance.rs:33-47`), with the upgrade at the head of a task (`builder.rs:163,198`) | `WorkerTakes`, `PassEnds`, `PassPanics`, `WorkerCancelled`, `ChannelClosed` |
| `trigger` (`strategies.rs:37-43`), used by all loops | `Triggers`: `Sends`, `Waits`, `SendsAtLast`, `SendFails` |
| `OnStart`, `Periodic` (275-293, 349-380) | `OnStartSends`, `OnStartCancelled`, `PeriodicSends`, `PeriodicWakes` |
| `Manual` (464-502) | `ManualTriggered`, `HandleDropped`, `ManualSees`, `ManualSends`, `ManualEnds` |
| a custom strategy (application code) | `CustomTries`, `CustomEnds`, `ScheduleFails` |

One variable per piece of shared state: the channel (`queue`, and `waiting` for
its senders in the order tokio will serve them), the worker, where each loop
stands (`at`), the watches (`unseen`, `value`), the handles and the guarded
store. A queued task is the name of its registration: what the pass does to the
store is the business of the other modules, and of it only its end, an error
that is logged or a panic is seen here. Dropping the guard is two steps, as the
token is cancelled before the layers go. `select!` without `biased` is a choice
between its ready branches, so a cancelled worker or `Manual` loop may still
take a task or see a value; `OnStart` is biased. A loop that waits for a slot is
next in line even when a slot is free. A store whose build fails is dropped like
any other. Custom strategies are taken to call `try_trigger` only: one that
waits in `trigger` behaves in the queue like `Periodic`. Time is left out: a
sleep ends at some moment.

`MaintenanceHistory.tla` watches which `Manual` registrations are owed a pass
and how many passes began.

- `TriggersKept`: until a pass begins, a trigger is in the watch, in the loop's
  hands or in the queue, unless the store is dropped or a task panics.
- `PassesEarned`: no pass without a cause: at most one for each value sent.
- `TriggersServed`, `OnStartRuns`, `PeriodicRecurs`: requests are served, no
  loop is starved by the others, as long as the store is held.
- `DropEndsAll`: after a drop, the worker and every loop end, also a `Periodic`
  loop that waits for a slot and listens to no cancellation: it is the worker
  dropping its end of the channel that frees it.

All but `PassesEarned` and `DropEndsAll` except panics: a task
that panics ends the worker. `NoTriggerLost`, the promise of `Manual` without
that exception, is violated, and the finding quotes it. (The shortest trace loses
the request while `build` is still starting loops; the worker that ends there is
the only one the store will have.)

## Runs

| Run | Instance | Shows |
|---|---|---|
| `contention` | 2 writers, 1 key, 3 writes, 2 master keys, torn writes, rekey passes | the type invariant, `KeptPaired`, `GoneStaysGone` and `ObsoleteNeverBack`, with every order of two calls and a pass on one key |
| `batches` | 1 writer, 2 keys, 4 writes, batches `<<k1,k2>>`, `<<k1,k1>>`, `<<k2>>`, one with a bad key, torn writes, no rekey passes | `KeptReadable` and `GoneStaysGone` inside batches, with repeated keys and failures in mid-batch |
| `online_rekey` | 1 writer, 1 key, 2 writes, 2 master keys, no torn writes | `RekeyKeepsBlobs` is violated |
| `overwrite_crash` | 1 writer, 1 key, 2 writes | `UnpairedDataInvisible` is violated |
| `reads` | 2 writers, 1 reader, 1 key, 2 writes, 2 master keys, no torn writes | `KeptReadable` beside rekey passes; `get` finds, misses and never returns stale data against two writers and those passes |
| `listings` | 1 writer, 1 reader, 2 keys, 2 writes, torn writes | `get`, `exists` and the three listings, against batches and objects rewritten in place |
| `streams` | a blob of 3 chunks, pipes of 2, panics | the safety and liveness of the two streams |
| `panicked_read` | a blob of 2 chunks, pipes of 1 | `NeverTruncated` is violated |
| `maintenance` | one loop of each strategy, 2 slots, 2 triggers, panics | the safety and liveness promises of the maintenance |
| `worker_panic` | 1 Manual, 1 slot, panics | `NoTriggerLost` is violated |
| `backends` | either backend, a tenant and a caller without prefix, 3 keys, one of them below another | both backends and the prefix layer implement `BlobMap`; trees and uploads are in order |
| `cleanup` | 3 keys, pages of 2, batches of 0 and 2, 2 changes by others | count, exactness and end of a pass |

Bounds. `MaxWrites` and `MaxEpoch` bound the blobs handed to put and the master
keys. Three writes are the smallest number for the interesting cases: a blob in
place, one writer overwriting it, another overlapping. Two writers and a pass
suffice for every race between two calls and a rekey. A second master key is
all a pass can tell apart (current or not). `WriterSymmetry` permutes writers,
which nothing in the specification or in the invariants names. The views of these runs leave out
`reply` and `rdReply`, which no action reads: what a reply says enters the
history in the step that gives it, and action properties are checked on every
step. One reader is enough, as readers change nothing that others see; two keys
are the least for a listing to be no snapshot. Failures are not bounded. The calls of the encryption layer have no liveness
properties: each can be abandoned at every step, so it promises no progress.

For the streams, three chunks through a pipe of two is the least for a pipe to be
full, to be emptied and to be filled again.

For the maintenance, two slots and four loops fill the queue and leave loops
waiting. `MaxTriggers` bounds the values sent: the second trigger meets the
first in the watch, in the loop, in the queue or running. The proofs cover any
number of registrations and slots.

In `backends` two clients are the least for a call to meet another one. The
tenant's keys `a` and `a/b` cannot both be files and, with the prefix `t/`, lie
in a directory that the other caller can list and write to; its filters include
a negated one, a suffix, and a hint that leads out of the root; `/` and `t//a` are
hints with an empty component, of the tenant and of the other caller. `Chunks` is 2: a file is empty,
half written or whole. `MinPart` of 2 and `Sizes` of 1, 2 and 3 give a stream
shorter than the lookahead, exactly as long, and longer with a short last part;
`AskedPart` of 1 asks for too small a part. A page and a delete request hold one
key, so every listing and batch takes several. `StateView` leaves out the answers of
calls that are over and the leftovers of their uploads, which no action reads:
`UploadsComplete` looks at uploads that are being completed, and the refinements
are checked on every step. In `cleanup` three keys make a full batch and a rest,
`MaxChanges` of 2 lets a blob go and come back, and batch size 0 is one that the
code accepts.

`maintenance`, `worker_panic`, `streams` and `panicked_read` switch the deadlock
check off, as there the system really stops: after a drop, and after the one
blob of `Streams`.

Fairness. `MaintenanceFairness` is weak fairness of each tokio task that is
spawned (a loop, the worker), of a build and a drop once begun. The runtime polls
every task that can go on; a task in the code waits only in awaits. `PassEnds` is part
of the worker's fairness: that a pass ends is an assumption on the backend and
the provider. A custom strategy is fair only in ending on cancellation, as its
trait demands. The application need never trigger or drop anything, and no
task needs to panic. One weak fairness condition for the whole worker suffices although its
`select!` may choose between a task and the cancelled token: each choice ends
with the worker stopped, since nobody refills the queue of a dropped store for
ever.

`Streams` assumes that tasks are polled, timers fire and backend calls end, and
that a provider goes on while it encrypts or decrypts; that it ever returns its
header is not assumed (`TaskReturns`), nor that anything fails. `Cleanup` assumes that
the pass is polled on (`PassNext` as a whole: each of its steps uses up some of
what is left). `BlobMap` and the backends promise no progress: each call may be
dropped at every step.

## Proofs

`EncryptedHistoryProofs` proves `TypeCorrect == Spec => []TypeOK` and then
`HistoryTypeCorrect`, `KeptBlobsPaired`, `GoneBlobsStayGone` and
`ObsoleteDataNeverBack` (each `HSpec => []...`), for any sets of writers, keys
and batches and any bounds; `KeptBlobsReadable` assumes `~RekeyTears`: that no
rekey passes run, or that a failing put does not truncate. They rest on the four named assumptions of
`EncryptedStore`: valid and invalid keys are disjoint, `NoKey` is not a key,
batches are non-empty sequences of keys, the bounds are numbers and the flags
Booleans.

The inductive invariant `HInv` is the type invariants and

- `SettledInv`: a kept blob is paired with its header (whole, unless
  `RekeyTears`), a gone one absent, *and nobody is at work on either*: without it
  a running call could disturb the pair.
- `AloneInv`: a turn that is alone shares its key with nobody, and finds the
  data object as it left it; for delete, every key of the call is failed, still
  to be deleted, or absent.
- `HeaderInv`: the header a put is about to store belongs to its data.
- `RekeyInv`: while a pass holds a header that no turn overlapped, it is the
  stored one but for its master key. This is what makes the late write back
  harmless to a kept blob, and what fails in `online_rekey`.
- `ObsoleteInv`: a replaced write is over, no call in progress can write it
  again, and no key holds it.

`EncryptedReadsProofs` adds the read guarantees: `ReadsTypeCorrect`,
`ReadsAreNeverStale`, `ReadsMissTheAbsent` for every backend, and
`ReadsFindTheSteady` unless `RekeyTears` meets `get` (with headers that a pass
rewrites in place it is false). Its
invariant `RInv` is `HInv` and three parts: what a reader remembers of the
history is still so (`ReadHistoryInv`); the objects `get` has in hand are not
stale, and are those of the steady write (`KeyReadInv`); a listing has no absent
key in hand and has not passed over a steady one (`ListInv`). `SteadySeen`
carries the promises of the writers over to what a reader may see.

The argument for the writers has two layers. *Effect* lemmas (`TurnEffects`, `DataEffects`,
`HeaderEffects`, `RekeyEffects`, `StoredEffects`, `ToldEffects`, `OverEffects`,
...) go through the actions once and state what one step may do to the
objects and turns. The preservation of each conjunct then follows from these
and from `Watch`, with no further case split on actions.

`MaintenanceProofs` proves `MaintenanceTypeCorrect`, `RequestsKept` and
`PassesAreEarned` of `MHSafe`, for any number of registrations, handles and slots, from the assumptions of `Maintenance`: the
strategies' registrations are disjoint, each Manual has a handle, there is a
slot. The invariant `MInv` adds `EndsInv`: the worker does not stop during
build, and only registered loops are owed a pass. `WorkerServes`, that the worker
of a held store ends only after every loop, is a lemma of the module and part of
the induction of `TriggersKept`, as it keeps a loop with a request from meeting a
closed channel. `LoopEffects` and `OtherEffects` state what steps leave alone.
`PassesAreEarned` rests on `EarnedInv`: the passes a registration began, its
tasks in the queue, the one its loop is about to send and the value it has not
seen yet are no more than the values sent. The tasks in the queue are a
cardinality, of the places of the queue that hold the registration, so that what
a send and a receive do to it (`TasksAppend`, `TasksTail`) needs no induction.

`StreamsProofs` proves `StreamsTypeCorrect`, `HeadersSealWholeBlobs` and
`CleanEndsAreWhole`, for blobs and pipes of any size. `PutInv`: a task that can
still return a header has written everything, and once the inner put is over
the data object is what the task wrote. `GetInv`: the slot of a task that failed
is full from before its pipe ends until the reader empties it.

`CleanupProofs` proves `CleanupTypeCorrect`, `CountsAreHonest` and
`PassesAreExact`, for any finite set of keys, any sizes and any number of
changes by others. `KnownInv`: of a blob that nobody else touched the pass knows
what it is, and the blob is there until the pass deletes it. `AwaitedInv`: a
doomed one is still to be listed, visited or deleted. The set of keys is taken
to be finite, as counting needs it.

`CallLogProofs`, `FsStoreProofs` and `BackendsProofs` are about the backends, for
any clients, keys, batches, sizes and limits. They prove of the whole of
`Backends`

- `BackendsKeepTheContract == Spec => BackendContract`: the store behind the
  builder implements `BlobMap`, whichever backend was chosen; with
  `StatsFail = FALSE`, a `BlobMap` that overlooks nothing;
- `TenantsKeepTheContract == Spec => PrefixContract`: so does what a tenant of
  `PrefixBlobStore` sees of it, in the tenant's names;
- `TreeStaysInOrder` (`TreeTypeOK`), `ObjectsAreWhole`, `UploadsAreComplete`.

The assumptions are named where the constants are declared: a call names at
least one key, what may be asked is what the layers accept (`Accepted`), each
filter and prefix is text (`IsText`), page, chunk and batch limits are positive,
and the words that stand for no writer (`"nobody"`, `"torn"`, `Hole`) are no
clients. The argument has four layers.

*The observer.* `CallLogProofs` knows nothing of a backend. `CallOk` relates a
call's log to the blobs there are now: what is there all the time of a call is
there now, and what is there now was there at some time. `LogOk`, that for every
call, is kept by every step that reports its change with `Touch`. Then each step
of `BlobMap` has a lemma that says which step of a backend is it: a call that
begins, a write, a removal, a loss, and a return whose answer is true. Nothing
more is needed of a backend than that its steps are of these kinds.

*The filesystem.* `FsInv` is `TreeOk`, `LogOk` and `WalksFit`. `TreeOk` is
`TreeTypeOK` with what it needs: a client has one file open, a key's way through
the tree, and where each call stands in its code. `WalkFits` carries the answers
of a listing: the keys still to do and those done cover the call; each key that
was there all the time is found already, or lies in a directory that the walk
has yet to open or among the entries that it has in hand; what is found was
there. `FileFits` carries a put: a file that is still linked holds exactly what
its only writer has copied, so that what is there when the call ends is its blob
or has been touched by someone else. Removing the root empties every listing of
steady keys, since nothing is steady any more.

*S3.* `S3Inv` is `ObjectsOk`, `LocalsOk` and `LogOk`. `PartsSoFar`: the pieces of
an upload follow each other up to what was read of the stream, and all of them
are of full size; with `LocalsOk`, which ties the upload to the stream of its
call, `ObjectsWhole` needs no sum. A listing has found every steady key that its
pages have passed.

`BackendsInv` is the invariant of the backend that was chosen, with the other one
idle. Before they were proved, `FsInv` and `S3Inv` were checked by TLC on the
instance of `MCBackends`. The steps of `BackendContract` follow from it one by
one: the actions of a backend that only look at something are stutters, or
returns. `BackendsStep` sums them up as `Promised`: a step begins, refuses or
ends one call (`Called`), or stores, removes or loses what calls in progress may
change and leaves what was asked alone (`Served`).

*The tenants.* The second contract rests on `Promised` alone; no backend comes
into it. `Own` takes keys to the tenant's names and drops the others;
`InnerFilterCovers` says that a name which the tenant's filter accepts passes,
as a key, the filter that the layer hands to the backend, so that no listing
loses a name on the way. `AskedOk` is the only new invariant: what the layer
remembers of a call gives, rewritten, what the backend was asked. A tenant's log
is the log in its own names (`Shown`), so that touching a key touches its name,
and touching a key of somebody else touches nothing (`ShownTouched`,
`ShownUntouched`). With these, each kind of step is a step of the tenant's
`BlobMap` or a stutter (`StoredSeen`, `RemovedSeen`, `LoseSeen`, `BeginSeen`,
`RefuseSeen`, `ReturnSeen`); an answer that is true of the keys is true of the
names (`TruthSeen`).

Model-checked only: the four violations and the liveness properties. Out of
TLAPS's reach: liveness, ENABLED, and induction over data.

## Not modelled, and the plan

Left out, and why:

- **Stacks of several layers.** The builder wraps in any order; modelled are one
  prefix layer on a backend, and encryption and cleanup each on an inner store
  that behaves as a backend does. Encryption over a prefix over a backend is
  not composed into one model: the state space of the encryption layer with the
  single system calls under it is out of TLC's reach. `PrefixContract` and
  `BackendContract`, both proved, are what it would rest on.
- **The typestate builder**, its setters, and delegation of calls by layers that
  change nothing: the compiler checks the former, the latter has no state.
- **Default methods of the trait** (`blob_store.rs`), which every store here
  overrides.
- **Two passes at once** (an application that calls `rekey()` or `cleanup()` by
  hand during a background pass).
- **HTTP, the SDK and the operating system** beyond the outcomes of one request
  or system call; **the cryptography**, as no provider is in the repository;
  logging and the wording of errors; re-exports of the facade crate.

Assumptions that are not in the code: a request or system call is not applied
after its call has ended; a decrypting provider does not shut down its output
before it returns; a custom strategy uses `try_trigger` only.

Next: that the inner stores which the encryption and cleanup layers assume
behave as `BlobMap` lets a backend behave, so that what is proved of the layers
rests on what is proved of the backends, and with it what these layers make of a
look that fails unnoticed; the hazard that no property covers yet, a header read
while a pass rewrites it; and a run for what is left of `RekeyKeepsBlobs` on the
filesystem.
