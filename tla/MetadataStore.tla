--------------------------- MODULE MetadataStore ---------------------------
(***************************************************************************)
(* The SQLite metadata store of tg2s3 (src/src/db): buckets, objects,      *)
(* uploads and their parts, the table telegram_blocks that says which      *)
(* Telegram message holds a block and how many references it has, and      *)
(* gc_queue.  Every method of Db that writes is one transaction, hence one *)
(* action here: SQLite serialises writers and a transaction that fails     *)
(* leaves no trace, so an action describes the committed case only.        *)
(*                                                                         *)
(* Callers hold data they read earlier.  An action therefore takes the     *)
(* caller's (possibly stale) record as an argument and its guard is what   *)
(* the transaction re-checks.  Next lets callers present any record;       *)
(* SerialCallers = TRUE restricts them to what the database holds at that  *)
(* moment, as if requests ran one at a time.                               *)
(*                                                                         *)
(* Data abstraction: the blocks of an object or a part are a set, since    *)
(* replace_part, validate_parts_layout and validate_object_layout reject a *)
(* block id that occurs twice; sizes, offsets and metadata are left out.   *)
(***************************************************************************)
EXTENDS Integers, FiniteSets

CONSTANTS Bucket, Name,    \* bucket names, object names in a bucket
          Upload,          \* upload ids (UUIDs: never reused)
          Kind,            \* the kinds of upload that are explored
          PartNo,          \* part numbers; 0 is the part of a plain PUT
          BlockId,         \* the rowids of telegram_blocks that are explored
          ObjectId,        \* the rowids of objects that are explored
          Msg,             \* Telegram message ids
          Etag, NoEtag,
          Condition,       \* the write conditions clients send
          MaxAge,          \* 2 explores all ages of a block (see age)
          SerialCallers

NoMsg == 0
NoKey == <<>>
Key == Bucket \X Name

\* An If-Match or If-None-Match header: absent, "*", or a list of entity tags.
Pattern == [given : BOOLEAN, star : BOOLEAN, tags : SUBSET Etag]

\* ObjectCondition
AnyCondition == [ifMatch : Pattern, ifNoneMatch : Pattern]

ASSUME KindAssumption == Kind \subseteq {"put", "multipart"}
ASSUME BlockIdAssumption == BlockId \subseteq Nat \ {0}
ASSUME ObjectIdAssumption == ObjectId \subseteq Nat \ {0}
ASSUME MsgAssumption == NoMsg \notin Msg
ASSUME PartNoAssumption == IsFiniteSet(PartNo)
ASSUME EtagAssumption == NoEtag \notin Etag
ASSUME ConditionAssumption == Condition \subseteq AnyCondition
ASSUME SerialAssumption == SerialCallers \in BOOLEAN
ASSUME MaxAgeAssumption == MaxAge \in 0..2

VARIABLES
    buckets,    \* names in table buckets
    cors,       \* buckets with a row in bucket_cors
    objects,    \* per key: rowid (0: no object), etag, ids in object_blocks
    uploads,    \* per upload id: kind ("none": never created) and key
    expired,    \* uploads older than the seven days run_gc grants them
    parts,      \* per upload and part number: etag (NoEtag: no part), block ids
    state,      \* telegram_blocks.state, "absent" when there is no row
    ref,        \* telegram_blocks.ref_count
    message,    \* telegram_blocks.message_id
    age,        \* since created_at: 0 fresh, 1 over an hour, 2 over 48 hours
    queue       \* gc_queue: "none", "due", "later" (next_attempt), "orphan"

bucketVars == <<buckets, cors>>
uploadVars == <<uploads, expired, parts>>
blockVars == <<state, ref, message, age, queue>>
storeVars == <<bucketVars, objects, uploadVars, blockVars>>

NoObject == [id |-> 0, etag |-> NoEtag, blocks |-> {}]
NoPart == [etag |-> NoEtag, blocks |-> {}]
NoUpload == [kind |-> "none", key |-> NoKey]
NoParts == [p \in PartNo |-> NoPart]

ObjectRow == [id : ObjectId \cup {0}, etag : Etag \cup {NoEtag}, blocks : SUBSET BlockId]
PartRow == [etag : Etag \cup {NoEtag}, blocks : SUBSET BlockId]
UploadRow == [kind : {"none", "put", "multipart", "gone"}, key : Key \cup {NoKey}]

Active(u) == uploads[u].kind \in {"put", "multipart"}

TypeOK ==
    /\ buckets \in SUBSET Bucket
    /\ cors \in SUBSET Bucket
    /\ objects \in [Key -> ObjectRow]
    /\ uploads \in [Upload -> UploadRow]
    /\ \A u \in Upload : Active(u) => uploads[u].key \in Key
    /\ expired \in SUBSET Upload
    /\ parts \in [Upload -> [PartNo -> PartRow]]
    /\ state \in [BlockId -> {"absent", "staged", "committed"}]
    /\ ref \in [BlockId -> Nat]
    /\ message \in [BlockId -> Msg \cup {NoMsg}]
    /\ age \in [BlockId -> 0..2]
    /\ queue \in [BlockId -> {"none", "due", "later", "orphan"}]

StoreInit ==
    /\ buckets = {}
    /\ cors = {}
    /\ objects = [k \in Key |-> NoObject]
    /\ uploads = [u \in Upload |-> NoUpload]
    /\ expired = {}
    /\ parts = [u \in Upload |-> NoParts]
    /\ state = [b \in BlockId |-> "absent"]
    /\ ref = [b \in BlockId |-> 0]
    /\ message = [b \in BlockId |-> NoMsg]
    /\ age = [b \in BlockId |-> 0]
    /\ queue = [b \in BlockId |-> "none"]

----------------------------------------------------------------------------
(* What the statements of the transactions read.                           *)

Exists(k) == objects[k].id # 0

Rows == {b \in BlockId : state[b] # "absent"}

\* NOT EXISTS object_blocks / multipart_part_blocks rows for the block
HeldByObject(b) == \E k \in Key : b \in objects[k].blocks
HeldByPart(b) == \E u \in Upload, p \in PartNo : b \in parts[u][p].blocks
Held(b) == HeldByObject(b) \/ HeldByPart(b)

\* Mutant: the check of gc_queue is left out.
NotQueued_unchecked(blocks) == TRUE

\* ensure_blocks_not_queued, and the foreign keys the INSERTs must satisfy
NotQueued(blocks) == \A b \in blocks : queue[b] = "none"
RowsExist(blocks) == blocks \subseteq Rows

\* SQLite allocates max(rowid) + 1: the id of a deleted last row is reused.
IsNextRowid(n, S) ==
    /\ \A m \in S : m < n
    /\ n = 1 \/ n - 1 \in S

\* etag_matches and ObjectCondition::allows; NoEtag when there is no object
EtagMatches(pattern, etag) ==
    etag # NoEtag /\ (pattern.star \/ etag \in pattern.tags)

Allows(cond, etag) ==
    /\ cond.ifMatch.given => EtagMatches(cond.ifMatch, etag)
    /\ cond.ifNoneMatch.given => ~EtagMatches(cond.ifNoneMatch, etag)

----------------------------------------------------------------------------
(* decrement_block, for drops[b] releases of each block b.                 *)

OneEach(blocks) == [b \in BlockId |-> IF b \in blocks THEN 1 ELSE 0]

\* Mutant: the parts a completion leaves out are forgotten, not released.
PartDrops_none(u, P) == [b \in BlockId |-> 0]

PartDrops(u, P) ==
    [b \in BlockId |-> Cardinality({p \in P : b \in parts[u][p].blocks})]

Decrement(r, drops) ==
    [b \in BlockId |-> IF r[b] > drops[b] THEN r[b] - drops[b] ELSE 0]

\* Mutant: a block whose count reaches zero is not queued.
EnqueueZero_skipped(q, r, drops) == q

EnqueueZero(q, r, drops) ==
    [b \in BlockId |->
        IF drops[b] > 0 /\ r[b] = 0 /\ q[b] = "none" THEN "due" ELSE q[b]]

----------------------------------------------------------------------------
(* Buckets.                                                                *)

CreateBucket(bkt) ==
    /\ buckets' = buckets \cup {bkt}
    /\ UNCHANGED <<cors, objects, uploadVars, blockVars>>

\* Mutant: objects do not keep their bucket.
DeleteBucket_ignoresObjects(bkt) ==
    /\ bkt \in buckets
    /\ ~\E u \in Upload : Active(u) /\ uploads[u].key[1] = bkt
    /\ cors' = cors \ {bkt}
    /\ buckets' = buckets \ {bkt}
    /\ UNCHANGED <<objects, uploadVars, blockVars>>

DeleteBucket(bkt) ==
    /\ bkt \in buckets
    /\ ~\E n \in Name : Exists(<<bkt, n>>)
    /\ ~\E u \in Upload : Active(u) /\ uploads[u].key[1] = bkt
    /\ cors' = cors \ {bkt}
    /\ buckets' = buckets \ {bkt}
    /\ UNCHANGED <<objects, uploadVars, blockVars>>

SetBucketCors(bkt) ==
    /\ cors' = cors \cup {bkt}
    /\ UNCHANGED <<buckets, objects, uploadVars, blockVars>>

DeleteBucketCors(bkt) ==
    /\ cors' = cors \ {bkt}
    /\ UNCHANGED <<buckets, objects, uploadVars, blockVars>>

----------------------------------------------------------------------------
(* Uploads and their parts.                                                *)

CreateUpload(u, k, kind) ==
    /\ uploads[u].kind = "none"
    /\ k[1] \in buckets
    /\ uploads' = [uploads EXCEPT ![u] = [kind |-> kind, key |-> k]]
    /\ UNCHANGED <<bucketVars, objects, expired, parts, blockVars>>

\* add_staged_block: message m is recorded under the new rowid b.
AddStagedBlock(b, m) ==
    /\ \A c \in Rows : message[c] # m
    /\ IsNextRowid(b, Rows)
    /\ state' = [state EXCEPT ![b] = "staged"]
    /\ ref' = [ref EXCEPT ![b] = 1]
    /\ message' = [message EXCEPT ![b] = m]
    /\ age' = [age EXCEPT ![b] = 0]
    /\ UNCHANGED <<bucketVars, objects, uploadVars, queue>>

ReplacePartOk(u, blocks) ==
    /\ Active(u)
    /\ NotQueued(blocks)
    /\ RowsExist(blocks)

\* The blocks of the old part that the new one does not keep.
ReplacedBlocks(u, p, blocks) == parts[u][p].blocks \ blocks

ReplacePart(u, p, etag, blocks) ==
    LET drops == OneEach(ReplacedBlocks(u, p, blocks))
    IN  /\ ReplacePartOk(u, blocks)
        /\ parts' = [parts EXCEPT ![u][p] = [etag |-> etag, blocks |-> blocks]]
        /\ ref' = Decrement(ref, drops)
        /\ queue' = EnqueueZero(queue, ref', drops)
        /\ UNCHANGED <<bucketVars, objects, uploads, expired, state, message, age>>

\* DELETE FROM multipart_uploads, which cascades to the parts
DeleteUploadRow(u) ==
    /\ uploads' = [uploads EXCEPT ![u] = [NoUpload EXCEPT !.kind = "gone"]]
    /\ expired' = expired \ {u}
    /\ parts' = [parts EXCEPT ![u] = NoParts]

\* Mutant: object_blocks gets the rows of the first part only.
SnapBlocks_firstPart(snap) ==
    snap[CHOOSE p \in DOMAIN snap : \A q \in DOMAIN snap : p <= q].blocks

\* A completion lists parts: snap maps their numbers to what the caller read.
SnapBlocks(snap) == UNION {snap[p].blocks : p \in DOMAIN snap}

\* validate_parts_layout: no block twice
LayoutOk(snap) ==
    \A p, q \in DOMAIN snap : p # q => snap[p].blocks \cap snap[q].blocks = {}

\* Mutant: verify_parts_tx compares block ids but not entity tags.
PartsUnchanged_blocksOnly(u, snap) ==
    \A p \in DOMAIN snap : snap[p].etag # NoEtag /\ parts[u][p].blocks = snap[p].blocks

\* verify_parts_tx
PartsUnchanged(u, snap) ==
    \A p \in DOMAIN snap : snap[p].etag # NoEtag /\ parts[u][p] = snap[p]

CommitUploadOk(u, snap, cond) ==
    /\ LayoutOk(snap)
    /\ Active(u)
    /\ PartsUnchanged(u, snap)
    /\ NotQueued(SnapBlocks(snap))
    /\ Allows(cond, objects[uploads[u].key].etag)

\* What the transaction releases: the overwritten object and the unused parts.
CommitReleases(u, snap) ==
    objects[uploads[u].key].blocks
        \cup UNION {parts[u][p].blocks : p \in PartNo \ DOMAIN snap}

\* The object takes over the references of the parts: CASE WHEN ref_count < 1
TakeOver(r, blocks) ==
    [b \in BlockId |-> IF b \in blocks /\ r[b] < 1 THEN 1 ELSE r[b]]

CommitUpload(u, snap, etag, cond) ==
    LET k == uploads[u].key
        blocks == SnapBlocks(snap)
        dropOld == OneEach(objects[k].blocks)
        dropUnused == PartDrops(u, PartNo \ DOMAIN snap)
        ref1 == Decrement(ref, dropOld)
        queue1 == EnqueueZero(queue, ref1, dropOld)
        ref2 == TakeOver(ref1, blocks)
        queue2 == [b \in BlockId |-> IF b \in blocks THEN "none" ELSE queue1[b]]
    IN  /\ CommitUploadOk(u, snap, cond)
        /\ \E i \in ObjectId :
             /\ IsNextRowid(i, {objects[j].id : j \in {j \in Key \ {k} : Exists(j)}})
             /\ objects' = [objects EXCEPT ![k] =
                              [id |-> i, etag |-> etag, blocks |-> blocks]]
        /\ state' = [b \in BlockId |-> IF b \in blocks THEN "committed" ELSE state[b]]
        /\ ref' = Decrement(ref2, dropUnused)
        /\ queue' = EnqueueZero(queue2, ref', dropUnused)
        /\ DeleteUploadRow(u)
        /\ UNCHANGED <<bucketVars, message, age>>

\* abort_upload_with_blocks
AbortUpload(u) ==
    LET drops == PartDrops(u, PartNo)
    IN  /\ Active(u)
        /\ DeleteUploadRow(u)
        /\ ref' = Decrement(ref, drops)
        /\ queue' = EnqueueZero(queue, ref', drops)
        /\ UNCHANGED <<bucketVars, objects, state, message, age>>

UploadBlocks(u) == UNION {parts[u][p].blocks : p \in PartNo}

----------------------------------------------------------------------------
(* Objects.                                                                *)

DeleteObject(k, cond) ==
    LET drops == OneEach(objects[k].blocks)
    IN  /\ Exists(k)
        /\ Allows(cond, objects[k].etag)
        /\ objects' = [objects EXCEPT ![k] = NoObject]
        /\ ref' = Decrement(ref, drops)
        /\ queue' = EnqueueZero(queue, ref', drops)
        /\ UNCHANGED <<bucketVars, uploadVars, state, message, age>>

\* Mutant: the source object need not exist any more.
CopyObjectOk_sourceUnchecked(src, row, dst, cond) ==
    /\ row.id # 0
    /\ NotQueued(row.blocks)
    /\ RowsExist(row.blocks)
    /\ Allows(cond, objects[dst].etag)

\* src is the key and row the caller read: rowid, etag and block ids.
CopyObjectOk(src, row, dst, cond) ==
    /\ row.id # 0
    /\ objects[src].id = row.id
    /\ NotQueued(row.blocks)
    /\ RowsExist(row.blocks)
    /\ Allows(cond, objects[dst].etag)

\* Mutant: the copy shares blocks without counting itself.
AddReferences_forgotten(r, blocks) == r

AddReferences(r, blocks) ==
    [b \in BlockId |-> IF b \in blocks THEN r[b] + 1 ELSE r[b]]

CopyObject(src, row, dst, cond) ==
    LET drops == OneEach(objects[dst].blocks)
        ref1 == Decrement(ref, drops)
        queue1 == EnqueueZero(queue, ref1, drops)
    IN  /\ CopyObjectOk(src, row, dst, cond)
        /\ \E i \in ObjectId :
             /\ IsNextRowid(i, {objects[j].id : j \in {j \in Key \ {dst} : Exists(j)}})
             /\ objects' = [objects EXCEPT ![dst] =
                              [id |-> i, etag |-> row.etag, blocks |-> row.blocks]]
        /\ ref' = AddReferences(ref1, row.blocks)
        /\ state' = [b \in BlockId |->
                        IF b \in row.blocks THEN "committed" ELSE state[b]]
        /\ queue' = [b \in BlockId |-> IF b \in row.blocks THEN "none" ELSE queue1[b]]
        /\ UNCHANGED <<bucketVars, uploadVars, message, age>>

----------------------------------------------------------------------------
(* The statements of the garbage collector (db/gc.rs).                     *)

\* stale_blocks: staged for over an hour and in no part and no object
Stale(b) == state[b] = "staged" /\ age[b] >= 1 /\ ~Held(b)

\* Mutant: the candidates are not read from gc_queue.
Candidate_notQueued(b) == state[b] # "absent" /\ ~Held(b)

Candidate(b) == state[b] # "absent" /\ queue[b] = "due" /\ ref[b] = 0 /\ ~Held(b)

\* Mutant: rows that an object or a part lists are queued too.
QueueStaleOk_heldUnchecked(b) == state[b] = "staged"

\* queue_stale_block answers TRUE also for a row that was queued before.
QueueStaleOk(b) == state[b] = "staged" /\ ~Held(b)

\* Mutant: the count is cleared but no gc_queue row inserted.
QueueStaleBlock_notQueued(b) ==
    /\ QueueStaleOk(b)
    /\ ref' = [ref EXCEPT ![b] = 0]
    /\ UNCHANGED <<bucketVars, objects, uploadVars, state, message, age, queue>>

QueueStaleBlock(b) ==
    /\ QueueStaleOk(b)
    /\ ref' = [ref EXCEPT ![b] = 0]
    /\ queue' = [queue EXCEPT ![b] = IF @ = "none" THEN "due" ELSE @]
    /\ UNCHANGED <<bucketVars, objects, uploadVars, state, message, age>>

\* Deleting the row cascades to gc_queue.
GcSuccessOk(b) == state[b] # "absent" /\ ref[b] = 0 /\ ~Held(b)

GcSuccess(b) ==
    /\ GcSuccessOk(b)
    /\ state' = [state EXCEPT ![b] = "absent"]
    /\ message' = [message EXCEPT ![b] = NoMsg]
    /\ age' = [age EXCEPT ![b] = 0]
    /\ queue' = [queue EXCEPT ![b] = "none"]
    /\ UNCHANGED <<bucketVars, objects, uploadVars, ref>>

GcFailure(b) ==
    /\ queue[b] # "none"
    /\ queue' = [queue EXCEPT ![b] = IF @ = "orphan" THEN @ ELSE "later"]
    /\ UNCHANGED <<bucketVars, objects, uploadVars, state, ref, message, age>>

GcOrphan(b) ==
    /\ queue[b] # "none"
    /\ queue' = [queue EXCEPT ![b] = "orphan"]
    /\ UNCHANGED <<bucketVars, objects, uploadVars, state, ref, message, age>>

----------------------------------------------------------------------------
(* The clock.  A row with a larger rowid is younger.                       *)

BlockAges(b) ==
    /\ state[b] # "absent"
    /\ age[b] < MaxAge
    /\ \A c \in Rows : c < b => age[c] > age[b]
    /\ age' = [age EXCEPT ![b] = @ + 1]
    /\ UNCHANGED <<bucketVars, objects, uploadVars, state, ref, message, queue>>

RetryFallsDue(b) ==
    /\ queue[b] = "later"
    /\ queue' = [queue EXCEPT ![b] = "due"]
    /\ UNCHANGED <<bucketVars, objects, uploadVars, state, ref, message, age>>

UploadExpires(u) ==
    /\ Active(u)
    /\ expired' = expired \cup {u}
    /\ UNCHANGED <<bucketVars, objects, uploads, parts, blockVars>>

Clock ==
    \/ \E b \in BlockId : BlockAges(b) \/ RetryFallsDue(b)
    \/ \E u \in Upload \ expired : UploadExpires(u)

----------------------------------------------------------------------------
(* Callers.                                                                *)

\* A serial caller replaces a part with blocks it has just staged.
JustStaged(blocks) ==
    \A b \in blocks : state[b] = "staged" /\ ref[b] = 1 /\ ~Held(b)

PartSnaps(u) ==
    IF SerialCallers
    THEN {[p \in P |-> parts[u][p]] : P \in SUBSET PartNo \ {{}}}
    ELSE UNION {[P -> PartRow] : P \in SUBSET PartNo \ {{}}}

CopyRows(src) ==
    IF SerialCallers
    THEN {objects[src]}
    ELSE [id : ObjectId, etag : Etag, blocks : SUBSET BlockId]

BucketOps == \E bkt \in Bucket :
    \/ CreateBucket(bkt)
    \/ DeleteBucket(bkt)
    \/ (SerialCallers => bkt \in buckets) /\ SetBucketCors(bkt)
    \/ DeleteBucketCors(bkt)

UploadOps == \E u \in Upload :
    \/ \E k \in Key, kind \in Kind : CreateUpload(u, k, kind)
    \/ \E p \in PartNo, e \in Etag, blocks \in SUBSET BlockId :
         /\ (p = 0) <=> (uploads[u].kind = "put")
         /\ SerialCallers => JustStaged(blocks)
         /\ ReplacePart(u, p, e, blocks)
    \/ \E snap \in PartSnaps(u), e \in Etag, cond \in Condition :
         CommitUpload(u, snap, e, cond)
    \/ AbortUpload(u)

ObjectOps == \E k \in Key, cond \in Condition :
    \/ DeleteObject(k, cond)
    \/ \E src \in Key : \E row \in CopyRows(src) :
         /\ SerialCallers => k[1] \in buckets
         /\ CopyObject(src, row, k, cond)

BlockOps == \E b \in BlockId :
    \/ \E m \in Msg : AddStagedBlock(b, m)
    \/ QueueStaleBlock(b)
    \/ GcSuccess(b)
    \/ GcFailure(b)
    \/ GcOrphan(b)

StoreNext == BucketOps \/ UploadOps \/ ObjectOps \/ BlockOps \/ Clock

StoreSpec == StoreInit /\ [][StoreNext]_storeVars

----------------------------------------------------------------------------
(* Properties that hold whatever stale records the callers present.        *)

\* Foreign keys: a block an object or a part lists has a row, a gc_queue
\* entry belongs to a row, and only rows of existing uploads own parts.
References ==
    /\ \A b \in BlockId : Held(b) \/ queue[b] # "none" => state[b] # "absent"
    /\ \A u \in Upload, p \in PartNo :
         parts[u][p].etag # NoEtag => Active(u)

\* The queue and the counters agree: a block row is in gc_queue exactly when
\* its ref_count is zero, so that gc_candidates never misses a released block
\* and no counted block waits for deletion.  The transactions that decrement,
\* re-reference and dequeue in turn (self-copy, overwrite with a shared block,
\* completion with a subset of the parts) must all restore this.
QueueMatchesCount ==
    \A b \in Rows : ref[b] = 0 <=> queue[b] # "none"

\* create_upload and delete_bucket exclude each other: an upload never
\* survives, or starts in, a bucket that was deleted.
UploadsInBuckets ==
    \A u \in Upload : Active(u) => uploads[u].key[1] \in buckets

\* A block the collector may have read as a candidate.
Claimed(b) == queue[b] # "none" /\ ~Held(b)

\* "A writer must not resurrect a block after GC has claimed it": a queued,
\* unreferenced row keeps its message and stays queued and unreferenced until
\* gc_success deletes it.  Between gc_candidates and gc_success the collector
\* deletes the Telegram message, so a single writer that broke this would
\* leave an object without its data.
ClaimedUntilDeleted ==
    [][\A b \in BlockId :
          Claimed(b) => \/ Claimed(b)' /\ message'[b] = message[b]
                        \/ state'[b] = "absent"]_storeVars

\* The inductive invariant: foreign keys hold (References), a row is in gc_queue
\* exactly when its ref_count is zero, uploads have their bucket.  It survives
\* every transaction, whatever stale records its caller presents.
StoreInv == TypeOK /\ References /\ QueueMatchesCount /\ UploadsInBuckets

(* What ref_count counts; Engine states when it does so.                   *)

Holders(b) ==
    {<<"object", k>> : k \in {k \in Key : b \in objects[k].blocks}}
        \cup {<<"part", h>> : h \in {h \in Upload \X PartNo : b \in parts[h[1]][h[2]].blocks}}

============================================================================
