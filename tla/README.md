# tg2s3 in TLA+

tg2s3 serves the S3 API and keeps object data as documents in a Telegram chat.
SQLite holds the metadata: which Telegram message stores which block, which
object or upload part lists the block, and what is left to delete. This
directory holds a model of that system, the TLC runs that check it on small
instances and TLAPS proofs of its main safety properties for all instances.

Paths below are relative to the repository, whose Rust code is in `src/`.

## 1. The system

| Part | State | Operations | Why it is hard |
|---|---|---|---|
| Metadata store (`db.rs`, `db/*.rs`, `migrations/`) | tables buckets, bucket_cors, objects, object_blocks, multipart_uploads, multipart_parts, multipart_part_blocks, telegram_blocks, gc_queue | one transaction per method of `Db` | callers pass records they read earlier; reference counts and queue are updated several times in one transaction; rowids are reused |
| Garbage collector (`engine/gc.rs`, loop in `main.rs`) | gc_lock, candidates in memory | run_gc, reclaim_blocks_now | it reads, deletes a message, then writes; replies get lost; it may crash in between |
| Cleanup of failed uploads (`transfer/cleanup.rs`) | registry of staged blocks, guard | register, cleanup, Drop | takes no lock; runs when requests fail or are dropped |
| Request engine (`engine/object.rs`, `engine/multipart.rs`) | locals of each handler | PUT, part, complete, copy, delete, abort | reads and writes with awaits in between; cancellation |
| Upload pipeline (`transfer/upload*`) | block tasks, upload slots, pipe or spool file | upload | tasks outlive or are aborted with their request; bounded slots |
| Range reads (`s3/object.rs`, `transfer/download.rs`, `telegram/download.rs`) and admission (`limits.rs`) | position in the blocks and in the current source, admission permit, download slot | GET | ranges across block and chunk edges; Telegram may ignore the range; readers compete for slots; a short body must not look complete |
| Listings (`s3/list.rs`, `db/object.rs`, `model.rs`) | none (the client keeps the cursor) | a page of list_objects | pages over a bucket that changes between queries; groups of keys; the greatest character has no successor |
| Bandwidth limits (`limits.rs`) | one reservation clock per direction | throttle | the clock is read before the mutex is taken; refused and abandoned reservations |
| Telegram calls (`telegram/bot_api.rs`, `grammers.rs`, `mod.rs`) | attempt counter of a call | send a document, delete one message, delete a batch | retries of requests that were executed; late, lost, unreadable replies |
| grammers session (`telegram/session.rs`) | SQLite file, cache, write_lock | set home DC, set DC option, cache a peer, set update state | cache and database are written one after the other; dropped callers; read-extend-write of a peer |
| S3 front end, XML, authentication, configuration, bootstrap | none shared | | |

Interaction: the S3 front end calls the engine; the engine calls the upload
pipeline for bodies and the store for metadata; every transaction that releases
blocks returns them and the engine hands them to a spawned `reclaim_blocks`
task; the collector deletes messages and rows. The store is the only state that
survives a crash, beside the chat.

What makes the parts correct:

* Store: a row is in gc_queue exactly when its ref_count is zero; counts equal
  the number of holders; a claimed block is never taken back.
* Collector and cleanup: no message of a listed block is deleted; everything
  else is deleted in the end.
* Engine: an object's tag digests exactly its data; clients see atomic writes,
  copies and deletions; failed requests release what they stored.
* Pipeline: an upload succeeds only with all its blocks, whatever it stored
  otherwise is cleaned up, and requests do not block each other for ever.
* Reads: a body is exactly the range requested, or ends with an error.
* Listings: every page continues where the last one ended; a key that is there
  all the time is listed exactly once, as itself or in its group.
* Telegram: no message is deleted that nobody asked to delete, a message whose
  id is known is not forgotten, every call ends; the session's cache says what
  a restart would say; the configured rate is kept.

## 2. Modules

* `MetadataStore` – the store. One action per writing transaction; the guard is
  what the transaction re-checks (early returns, conditions, foreign keys,
  unique constraints), the primed variables what its statements change. A
  transaction that fails is a stuttering step. `IsNextRowid` is SQLite's
  allocation `max(rowid) + 1`: ids of deleted last rows are reused, which is
  what makes stale ids dangerous. `StoreNext` lets callers present any record,
  `SerialCallers = TRUE` only what the database holds.
* `GarbageCollector` (extends MetadataStore) – the chat, the collector step by
  step under gc_lock (`gc[p].pc`; a `gc` command is a process `p` of its own
  with a lock of its own), the reclaiming tasks, `cleanup_untracked_block`
  step by step without the lock, and the writers that stage, attach, commit,
  abort, delete and copy. `GcDbError` and `Crash` may strike between any two
  steps. A deletion whose reply is lost may or may not have happened, or may
  still happen: its message is `leaving`, and `Erase` removes it at any later
  time, also when whoever asked for it has gone on. Two history variables note
  what makes data go astray: `unqueued`, rows whose message a cleanup deletes
  although it could not queue them, and `foreign`, rows that came into a part or
  an object by an id somebody remembered, not by the reference of their upload.
* `Engine` (extends MetadataStore) – put_object, upload_part,
  complete_multipart and copy_object as processes (`req[r]` holds the locals),
  each step ending at an await that matters, within the bounds in `setup`;
  `get_parts` and `get_object` are two queries each. put_bucket_cors is a handler
  too, because it checks its bucket and then writes. `Cancel` drops a handler, `Crash` all of them. An
  entity tag is the set of messages whose data it digests. A handler's `refs`
  pair each block id it was given with the message that holds its data, because
  the row of that id may become another's: the collector runs beside the
  handlers as its statements on rows. `Age` and `ScanStale` find rows staged for
  over an hour, whoever still uploads; `QueueScanned` queues them one by one, by
  the ids that were read; `CleanBlock` does it for failed uploads, and may come
  back to an id after a restart of the cleanup; `Collect` deletes a queued row,
  whose id is then given out again. How messages are deleted, the lock, retries
  and orphans are in `GarbageCollector`: to the handlers, a row that waits or is
  marked orphan is queued like any other. Three history variables note what the
  code does not exclude: `outrun`, buckets deleted between the check and the
  write of a copy or a CORS change, the two handlers that do not check again;
  `taken`, blocks of an unfinished upload that a copy with a stale source record
  has listed; and `foreign`, rows that a part lists by the id of an older row.
* `ObjectStore` – the abstract specification: per key a content, changed by
  Write, Remove and Copy. `Engine` implements it under the mapping `Promise`.
* `UploadPipeline` – concurrent requests in `upload`: bodies of known length
  (a pipe per block, `WriteBlock`, `CloseCurrent`) or of unknown length (a spool
  file, then tasks that read slices of it); the tasks, each waiting for a slot,
  sending, registering its block for cleanup and staging the row; abort and drop
  of tasks; the cleanup guard, the guard of a sent message and the tasks they
  spawn when dropped. The settings (concurrency, size of a pipe) and the bounds
  are a constant of the behaviour, chosen in Init (`setup`), so that one run
  covers several. Blocks stand for their frames. Each task has
  at most one message and one row. The collector is not part of it: "row staged"
  means that the upload has staged it, and the row of an upload that takes over
  an hour may be collected before its part is attached. That, the reuse of row
  ids and the steps of one cleanup are the business of `GarbageCollector` and
  `Engine`.
* `RangeRead` – a GET after its row was read: `ParseRange`, admission, the loop
  over the blocks with a download slot each, and the cutting of the source. A
  byte is its position in the object, so the property can say which bytes the
  client got. `Open` has the three sources the backends produce: exactly the
  range (206 or a local file), the whole block (200), or from a chunk boundary
  (MTProto). Uploads appear only as holders of admission permits
  (`writers`). HEAD and `check_conditions` are left out.
* `Listing` – list_objects: `CheckBucket`, the scan loop query by query
  (`ScanBatch`, `ScanEntry`, `EndBatch`), `CheckTruncated`, and the client that
  asks for the next page from the cursor on, or again for one it lost. Other
  requests put and delete keys between any two queries, and delete and create
  the bucket. Strings are sequences of characters up to `MaxChar`, so that
  `Before`, `KeySuccessor` and `CommonPrefix` are the functions of the code.
* `TelegramCalls` – the calls of both backends with the retries of the Bot API
  client. A request is a token under way that Telegram may execute (`Post`,
  `Erase`), refuse or never get, also after its sender gave it up and repeated
  it; the reply may be lost, unreadable or say the wrong thing.
* `StorageChat` – the abstract specification of `TelegramClient`: what the
  collector and the uploads rely on. `TelegramCalls` implements it (`Promise`).
* `Session` – the grammers session: a writer takes write_lock, commits, brings
  the cache up to date and returns, and may be dropped at each await; cache_peer
  loads, extends and stores. `behind` is a history variable: fields whose writer
  was dropped between its commit and the cache.
* `Bandwidth` – one direction of the limiter: a transfer reads the clock, then
  reserves under the mutex or is refused, sleeps, and passes or leaves.
* `Telegram` – the three together, as tokio interleaves them: `TelegramCalls`,
  `Session` and `Bandwidth` run in one process and share no variable.
* `MetadataStoreProofs`, `GarbageCollectorProofs`, `EngineProofs`,
  `UploadPipelineProofs`, `RangeReadProofs`, `ListingProofs`, `TelegramProofs`,
  `BandwidthProofs` – theorems and proofs.
* `MC*` – instances for TLC.

The map in PROJECT.json names the lines of every definition.

Abstractions. Blocks of an object are a set (block ids may not repeat in one).
Sizes, offsets, metadata, CORS rules and error texts are left out. Time is the
age class of a row (`age`: fresh, over an hour, over 48 hours), `expired`
uploads, and retries that fall due.

## 3. Runs

| Run | Instance | What it shows |
|---|---|---|
| StoreAnyCaller | any stale record, 2 names, 2 uploads, 2 blocks | `StoreInv`, `ClaimedUntilDeleted`: the transactions are consistent whatever their callers present |
| GcSafety | 2 reused block ids, 2 messages, batches; one fault among stale rows or failed uploads, or one `gc` command beside the server | `GcInv`, `LiveMessagesPresent`, `DeletesOnlyClaimed`: no data is lost, also by a deletion carried out late |
| GcLiveness | 1 block id, limit 2, fairness | `GarbageIsCollected`: garbage goes (`QueuedIsProcessed` follows, section 4) |
| EngineObjects | 2 handlers, 2 buckets, 2 reused block ids: PUT, copy and delete with every error path; or slow PUTs of up to 2 blocks whose rows are collected under them | `EngineInv`, `CountsStayExact`, `PutUploadsOwned`, `ImplementsObjectStore` |
| EngineUploads | 2 handlers, 3 messages, 2 reused block ids: an upload of 2 parts and its completions; or an upload with 1 message and CORS changes in a bucket that is deleted and made again | `EngineInv`, `TagsMatchData`, `NothingOutlivesBucket`, `ReleasedIsQueued`, `ImplementsObjectStore` |
| Pipeline | 1 request of 3 blocks with every failure, abort and drop; and 2 requests with 1 slot and blocks larger than a pipe | `PipeInv`, `NobodyStuck`, `SuccessIsComplete`, `MessagesAccounted`, `RowsAccounted`, `SpoolOutlivesTasks`, `UploadsEndCleanly`: no deadlock between slots, pipes and full task lists, and nothing is left behind |
| Reads | 2 readers, 1 slot, objects of 0, 1 and 2 blocks, 16 Range headers | `ReadInv`, `BodyInOrder`, `RangeHonoured`, `NoReaderStuck`, `ReadsEnd` |
| Listing | every set of 5 keys, 31 queries, pages of 1 and 2, batches of 2, two writes or lost pages | `ListingInv`, `ListedInOrder`, `StableKeysListed`, `ListedExisted`, `ListingEnds` |
| Telegram | 2 calls, 2 messages; 2 tasks on a session; 2 transfers | `TelegramInv`, `LearnedMessagesKept`, `CacheSurvivesRestart`, `RateKept`, `BacklogIsGranted`, `ImplementsStorageChat`, `CallsEnd`, `PeerKnowledgeKept` |

`StoreInv`, `GcInv`, `EngineInv`, `PipeInv`, `ReadInv` and `TelegramInv` (which
is `CallsInv`, `SessionInv` and the type of `Bandwidth`) are the inductive
invariants of section 4, checked whole.

Three runs expect a violation; each shows that the code does not do what a
comment, the README or a test of the repository says:

* GcStarvation – `run_gc` counts stale rows that are queued already against its
  limit; with as many of them as the limit it never reads gc_queue.
* GcReusedRow – an upload that takes over an hour can attach a block another
  upload staged under a reused id. `Engine` has the step too and follows what
  comes of it (`foreign`).
* EngineStaleCopy – `copy_object` accepts a source record that was overwritten,
  because the overwriting row got the same rowid.

More deviations are built into the models and excepted from properties by
name, without a run of their own:

* an upload whose `queue_stale_block` fails while it is cleaned up deletes its
  message all the same. If a part or an object has taken the row meanwhile, by a
  stale id, its data is lost; it takes both mishaps (`unqueued` and `foreign` in
  `LiveMessagesPresent`);
* a cleanup that is started over after its row's id was reused deletes the row
  of the other block, whose message then stays in the chat (no data is lost, the
  message leaks; this is why `GarbageIsCollected` speaks of rows);
* a copy into, or a CORS change of, a bucket that is deleted between the check
  and the write leaves an object or a CORS row without a bucket, which the next
  bucket of that name inherits (`outrun` in `NothingOutlivesBucket`);
* an upload whose staged row was collected, because it took over an hour or
  because a cleanup that started over came upon its id, may attach the row
  another upload staged under that id (`replace_part` asks only whether the id
  is queued). The part then has the tag of its own data and lists the other's
  (`foreign` in `TagsMatchData`, the step `ForeignCommit` of
  `ImplementsObjectStore`), and if the other upload attaches the row as well the
  two are counted once: the first release queues it although it is still listed
  (`foreign` in `CountsStayExact`: the count may be too low, never too high). No
  row is deleted while it is listed (`Candidate`, `GcSuccessOk`), and when the
  collector has taken the row before the part is attached and its id is free,
  the upload fails on the foreign key;
* a copy with a stale source record may list a block that another upload has
  staged under the same id and not yet put into a part. If that upload then
  fails, its cleanup leaves the listed row alone and its reference is never
  given back: the count stays one too high and the block is never collected
  (the exception for `taken` in `CountsStayExact`, whose theorem holds for any
  number of uploads, more than this takes);
* a suffix range longer than the object makes `parse_range` return a negative
  start, so that Content-Length and Content-Range are wrong although the body is
  right (the exception in `RangeHonoured`);
* a group of keys at or before `start-after` is not listed although it has keys
  behind it (the exception in `StableKeysListed`);
* a put_object whose future is dropped, that crashes, or whose abort fails leaves
  its upload, and thereby its bucket, until expire_uploads (`abandoned` in
  `PutUploadsOwned`);
* a sendDocument whose reply is lost or unreadable leaves a message nobody knows
  (the exception in `LearnedMessagesKept`);
* a session writer that is dropped after its commit leaves the cache behind the
  database until the next write or restart (`behind`);
* a transfer that leaves while it sleeps keeps its reservation, and a downloader
  waits however long the backlog is.

Bounds. Every hazard in PROJECT.json needs at most two rows, two messages and
two uploads (one that loses an id and one that gets it), so the instances have
two of each or, where a single reused id is the point, one id and two messages.
`MaxAge` is 0 in runs in which rows need not go stale, 1 where they do and 2
where the 48 hour rule matters. The two runs of `Engine` cover two instances each: `setup`,
chosen in Init like that of the pipeline, holds the kinds of request, the blocks
of a body, the messages and the age of rows of one of them. Rows get older than
an hour (`oldest` 1) with the slow PUTs of EngineObjects; the other three have
ids in new hands all the same, by cleanups that start over. A body has up to two
blocks there and one elsewhere; the proofs have all of it at once. `Budget` bounds crashes, database errors and `gc` commands and
says whether uploads fail and whether rows and uploads age; Init chooses one.
GcSafety has three choices: one fault (an error of the database or a crash) while
requests are dropped and rows go stale; one while uploads fail and are cleaned
up, in a time too short for rows to age; and one `gc` command in such a time, in
which no upload fails (the cleanup of a failed upload takes no lock, so what it
does beside the server's own collector is what it does beside a second one).
GcLiveness has the first, and failed uploads with stale rows but no fault: a
cleanup that fails to queue its row leaves a staged row, as a crash does. The
safety theorems hold for all of these together and any number of each.
CHECK_DEADLOCK is
off because ids, messages and uploads are finite and used up: a model in which
all of them are spent has no step left, which is no state of the real server.
Symmetry is used in safety runs only, and never over messages when they belong
to different backends. In the pipeline runs three blocks are one more than the
task list holds, which is what makes it fill, and two requests with one slot are
the smallest instance in which one waits for the other. In Reads the blocks of
one and four bytes and chunks of one and two bytes put an edge of a range
before, on and after every edge of a block and of a chunk. In Listing the
five keys are a key, a group of two with and without text behind the delimiter,
and two keys under the greatest character, which has no successor; a batch is
shorter than the bucket, so that a page takes several. In Telegram two attempts
stand for the five of `retry`: the properties distinguish the first, a
repetition and the last. The three parts of that run are modelled without a
shared variable, so in a behaviour only one of them moves.
Two callers of the session are one that holds the lock and one that waits, two
data centres the old home and the new one. Two transfers and frames of up to two
ticks are the least with which a reservation lands behind another and a clock
read earlier is stale.

Fairness (GcLiveness, GcStarvation). The interval loop calls run_gc for ever;
gc_lock is a fair tokio mutex, so run_gc gets it although reclaiming tasks
compete (strong fairness); a task that can run runs (weak fairness on the steps
of the collector); time passes; and a deletion tried again and again succeeds
(strong fairness on `GcDeleteOk` per block). Nothing is assumed of clients, nor
of a `gc` command, which may hang.

Fairness of the pipeline (`PipeFairness`) and of reads (`ReadFairness`). Tokio
runs every task that can run (weak fairness on the steps of requests, tasks and
spawned cleanups); its semaphores serve waiters in order, so whoever waits for
a slot that is freed again and again gets it (strong fairness on `TakeSlot`);
Telegram answers, with success or failure. Readers are assumed to read on or to
leave: a stalled client keeps its download slot, and the code has no timeout
that would take it away.

Fairness of listings (`PageSteps`): the server works on a request it has, and
the client reads on. `MaxEvents` bounds the writes of others and the pages that
get lost. Fairness of calls (`CallsFairness`): the HTTP
client has timeouts and a back-off ends, so a call that began takes its next
step. Nothing is assumed of Telegram or the network.

## 4. Proofs

Every theorem holds for all values of the constants that satisfy the named
assumptions of the modules, which TLC evaluates in the runs. An invariant is
proved the same way each time: it holds initially, one lemma per action says
that the action keeps it, and the theorems about single properties follow from
it.

**Store.** `MetadataStoreProofs` proves for any number of keys, uploads, parts,
blocks, messages and any stale records

* `StoreInvariant`: `StoreSpec => []StoreInv`, where StoreInv is `TypeOK`,
  `References`, `QueueMatchesCount` and `UploadsInBuckets`. The parts need each
  other: `EnqueueZero` restores the queue only because a released block has a
  row (`References`), and the row is there because only rows with count zero
  that nobody lists are deleted.
* `CounterAndQueueAgree` and `NoResurrection`: the second is an action property;
  each writer re-checks gc_queue (`NotQueued`) before it lists a block.

Its second half holds the lemmas on counts: what each transaction does to the set
of holders of a block (`Holders`) and to its count, and that the two move together. The proofs of the engine cite them.

**Collector.** `GarbageCollectorProofs` proves for any number of processes, row
ids, messages and tasks, with every error and crash, and with deletions that are
carried out at any later time,

* `GcInvariant`: `GcSpec => []GcInv`. LiveMessagesPresent is not inductive. What
  is: a row whose message may be gone is claimed, or its own cleanup could not
  queue it (`UnclaimedPresent`); a message that a task of any process is about to
  delete belongs to a claimed row or to none (`DeletingClaimed`; the lock plays no
  part in it); a reference a task holds names a message that is in no row but the
  one of its id (`ReferencesNameRows`), which is what makes a reused id harmless
  to data; messages are in one row each (`MessagesOfRows`). A failure of
  `queue_stale_block` needs three parts more: each message has one reference,
  in the hands of its upload or of the cleanup (`OneReference`); only rows whose
  upload gave them up are in `unqueued` (`UnqueuedGivenUp`); and a row that is
  listed while its reference is still held elsewhere, or was given up, came in by
  a stale id (`HeldIsForeign`).
* `NoDataLoss`: `[]LiveMessagesPresent`, and `OnlyClaimedDeleted`.
* `QueuedFollowsCollected`: `GcSpec /\ GarbageIsCollected => QueuedIsProcessed`. A
  claimed block stays claimed until its row is gone (`ClaimedStays`), so that a
  queued row nobody refers to is deleted, or marked orphan, if unreferenced rows
  do not stay. What GcLiveness checks of the first is thereby checked of the
  second; and GcStarvation, where the second fails, is a failure of the first.

**Engine.** `EngineProofs` proves for any number of handlers, buckets, keys,
uploads and blocks

* `EngineInvariant`: `EngineSpec => []EngineInv`. `CountsStayExact` alone is not
  inductive: what a count will be is only known when it is known who releases
  the block next, and no upload can rely on its rows. So the invariant is
  one-sided. `BlocksOwned` says what has become of the row that holds data of a
  body under way: it is still counted for that upload, or the collector has
  queued it, or a part lists it by a stale id (`foreign`); and `ForeignListed`
  that a foreign row is owed to nobody but those who list it, until it is queued.
  A count is then at most what is owed, and exact where no stale id came in.
  `ListedCommitted` says that objects list committed blocks only, which is why
  an upload's block is in no object unless a stale copy took it (`taken`);
  `HoldersFinite` makes the sums of counts meaningful; `LocalsOK` ties a
  handler's program counter to what it holds. `DataOwned` and `RowsSent` are
  about data, which is named by messages, not by ids: what is not an object yet
  is in one part or one body under way, and the tag of that part is the set of
  its messages, unless it lists a foreign row. Most steps leave reserved rows
  alone (`Calm`); the three that may not, attaching a part, queueing a scanned or
  cleaned id, and deleting a row, have long lemmas of their own.
* `CountsAlwaysExact`, `PutUploadsAlwaysOwned`, `BucketsDeletedWhole` and
  `EngineTypes` are parts of it.
* `LastReleaseQueues`, an action property: whatever a step releases for the last
  time it queues, in that step.
* `TagsAlwaysMatch`: in every behaviour without a stale copy (`[][~StaleCopy]`, a
  step in which copy_object writes a record that is not its source's any more),
  every object and part that lists no foreign row lists the data its tag digests.
  Both exceptions are needed: EngineStaleCopy shows what a stale copy does,
  GcReusedRow how a row becomes foreign.
* `ImplementsStore`: `EngineSpec => ImplementsObjectStore`, the refinement of
  `ObjectStore`. Each step of a handler maps to Write, Remove or Copy on one key,
  or to a stutter, but for stale copies and for commits of a foreign row
  (`ForeignCommit`); `DataOwned` shows that every other commit writes data no
  object had before. Rows come and go beneath: that the scan for stale rows and
  the collector never change what an object lists is part of it.

**Upload pipeline.** `UploadPipelineProofs` proves for any number of requests,
any body length up to a bound (`BoundAssumption`: max_object_size bounds the
blocks of a body) and any settings

* `PipelineInvariant`: `PipeSpec => []PipeInv`, where PipeInv is `BlocksInv` and
  `FlowInv`. For every block the step its task
  is at decides what there may be of it (`StoredOK`), and the registry, the
  result list and the spawned cleanups of its request cover what is stored
  (`BlockOK`); `LocalsOK` says that no error is forgotten: while `failed` is not
  set each block cut so far is being written, sent or stored.
* `UploadsComplete` (SuccessIsComplete), `NoMessageForgotten`, `NoRowForgotten`
  and `SpoolKept` follow.
* `NeverDeadlocked`: `[]NobodyStuck`, whatever the sizes of pipes, of the task
  list and of the slots. It rests on `FlowInv`: a block that is being written has
  a task at the other end of its pipe; a task that runs will get its data, for
  the pipe is closed or its request still writes to it; a request waits for its
  task list only when there is a task in it; slots are held by tasks that send.
  So the chain request, task, slot, holder of the slot, its request ends there:
  the last of them writes to the pipe of a task that has its slot already. What
  the theorem says of `RequestMoves` and `TaskMoves`, the guards of the steps, TLC
  has compared with ENABLED of the steps in every state of the run.

**Range reads.** `RangeReadProofs` proves for any layout of blocks and chunk
size and any Range header

* `ReadInvariant`: `ReadSpec => []ReadInv`. What has been sent is the piece of the
  object from `FirstByte` on; before each block it reaches to where the block
  begins or the range ends (`ReachedBefore`), and inside a block what comes next
  from the source, after the bytes to be skipped, is what comes next in the
  object. Nothing is used of block offsets but that a block begins where the one
  before it ends. The two limits (`Permits`, `Slots`) are proved with it; that the
  sets of readers they count are finite is carried along, so nothing is assumed
  of the number of readers.
* `BodyAlwaysInOrder` and `RangeAlwaysHonoured` follow; the first needs that the
  bytes requested before a position of the body are counted by that position.
* `ReadersNeverDeadlocked`: `[]NoReaderStuck`. Who holds a slot does not wait for
  another one, and each of the three sources of `Open` ends behind what the
  reader has yet to pass on (`pos + skip + remaining <= stop`, kept by every
  chunk, skipped or delivered), so it never waits for bytes it did not ask for.

**Listings.** `ListingProofs` proves for any finite bucket, keys over characters
from 0 to any greatest one, any prefix, delimiter, start and page size, any size
of the batches, and any writes between the queries

* facts about strings first: `Before` is a total order; the keys between a string
  and its `KeySuccessor` are the keys it is a prefix of, and where there is no
  successor all keys behind it are (`SuccessorBounds`); the keys behind a group
  and before its successor make the same item (`CommonPrefixIs`, `GroupTakes`);
  the query answers the first keys in bound, in order, and leaves one out only
  when the batch is full (`QueryKeysAre`: `CHOOSE` by rank, hence the finite
  bucket).
* `ListingInvariant`: `ListSpec => []ListingInv`. The three properties are about
  what the client has seen; what is inductive is about the three bounds of the
  server (`BoundsOrdered`): the start asked for, the floor (the token of this
  page) and the lower bound of the next query, behind which everything on the
  page lies. A key that stays (`KeptKey`) is in the pages received if its item is
  not behind the floor, on this page if its key is not in bound any more, and
  otherwise in the batch or behind it; a batch that ends short of its limit has
  nothing behind it. `CursorOK` says that a full page's token is its last item's
  name, from which the next page goes on.
* `PagesInOrder`, `StableKeysAreListed` and `ListedKeysExisted` follow. The
  delicate case is a page that ends inside a group: its token is the group's
  name, and keys of the group are still behind it.
* `ListingGoesForward`: `ListingAdvances`, the action property that `ListingEnds`
  rests on. The token of a page is behind the one before, and within a page the
  bounds of the queries pass every key the loop has gone through and never go
  back. From one page to the next they may: a token that is the name of a group
  has keys of the group behind it, which are passed once more.

**Telegram.** `TelegramProofs` proves for any number of calls, messages,
attempts, tasks, peers, data centres and transfers

* `CallsInvariant`: `CallsSpec => []CallsInv`. A call posts at most once; a reply
  it got is true of the chat (`CallOK`), because only calls for stored messages
  let others delete them; late requests are repetitions of what their call does.
* `LearnedAlwaysKept`, and `ImplementsChat`: the calls implement `StorageChat`
  under the mapping that gives each call what it asked for (`AskedBy`) and what
  it has reported (`ReportOf`). Attempts, sleeps and lost requests stutter.
* `SessionInvariant`: `SessionSpec => []SessionInv`; only the holder of write_lock
  is at work, what it read still stands in the database and what it committed is
  there (`TaskOK`). `CacheAlwaysSurvives` and the action property `KnowledgeKept`
  follow.
* `TelegramInvariant`: `[]TelegramInv`. The model gives the parts no variable in
  common, so it is put together from their invariants.

**Bandwidth.** `BandwidthProofs` proves, for any number of transfers, any frames
and any bound,

* `BacklogAlwaysGranted`: `[]BacklogIsGranted`. The strengthening says that every
  grant ends by `next` (so a new one overlaps none) and that no transfer has read
  a later clock than `now` (so a gap before a new grant is past already).
* `RateAlwaysKept`: `[]RateKept`. Every tick that was let through is counted by
  an instant of the schedule of its own, none later than a frame after `now`
  (`RateInv`): a frame sleeps until its reservation has begun, reservations of
  sleepers lie apart from each other and from what was let through, and a new
  one lies behind them all. As many instants as there are up to `now` and a
  frame bound what has passed.

Only model-checked, because the prover has no rules for ENABLED and fairness:
`GarbageIsCollected`, `UploadsEndCleanly`, `ReadsEnd`, `ListingEnds` and
`CallsEnd`. Every safety property of a passing run is stated by a theorem, and
most of what the liveness properties need beside fairness is too:
`NeverDeadlocked` for UploadsEndCleanly, `ReadersNeverDeadlocked` for ReadsEnd,
`ListingGoesForward` for ListingEnds. What is left to TLC is that the fairness
assumed is enough to take the steps that are possible.

`ListingAdvances` is in no run, where ListingEnds covers it; TLC finds it true of
the instance of the Listing run.

## 5. Plan

1. Done: the modules of section 2 and the proofs of section 4.
2. GET against overwrites and the collector.

## 6. Not modelled

* Authentication (`auth.rs`): a function of one request and the clock, without
  shared state; what matters of it are canonical strings and digests.
* The S3 front end beyond objects, ranges and listings, and XML (`s3.rs`,
  `s3/xml.rs`): routing, parsing and formatting of one request.
* Configuration and bootstrap (`config.rs`, `main.rs` but for its loops): read
  once before anything runs concurrently.
* Wire protocols: what grammers and the HTTP client do below a call. Downloads
  of both backends appear as the three kinds of source in RangeRead.
* Reads of the session's update state: two queries without the lock, which may
  see two different states; no code of the repository asks for it while it runs.
