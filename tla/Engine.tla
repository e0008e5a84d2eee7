------------------------------- MODULE Engine -------------------------------
(***************************************************************************)
(* The request handlers of tg2s3 (src/src/engine/object.rs, multipart.rs)  *)
(* as processes over the transactions of MetadataStore.  A handler reads,  *)
(* awaits, and writes; between two of its steps the other handlers, the    *)
(* collector and the cleanup of failed uploads run, its future may be      *)
(* dropped (the client disconnects) and the server may crash.              *)
(*                                                                         *)
(* Data abstraction: a block holds one Telegram message, all of one size,  *)
(* and an entity tag is the set of messages that hold the data it digests  *)
(* (Etag = SUBSET Msg), i.e. MD5 is taken to be injective.                 *)
(*                                                                         *)
(* The collector and the cleanup of failed uploads (GarbageCollector has   *)
(* them whole) are their statements on the rows: the scan for staged rows  *)
(* over an hour old, which takes no notice of a handler that still uploads,*)
(* queue_stale_block, and the deletion of a queued row.  The id of a       *)
(* deleted row is given out again, so an id that a handler, the scan or a  *)
(* cleanup holds may by then be the row of another upload.                 *)
(*                                                                         *)
(* Reads that only make a handler fail early (require_bucket, get_upload,  *)
(* check_write_conditions) are part of the step they precede.              *)
(***************************************************************************)
EXTENDS MetadataStore

CONSTANTS Req,            \* handlers that run at the same time
          Setup           \* the bounds a behaviour may have

ASSUME EtagIsDigest == Etag = SUBSET Msg

Ops == {"put", "part", "complete", "copy", "cors"}

\* The kinds of request there are, the blocks of one body, the messages sent in
\* all, and how old a row gets.
ASSUME SetupAssumption ==
    \A s \in Setup :
        /\ s.ops \subseteq Ops /\ ("put" \in s.ops => 0 \in PartNo)
        /\ s.body \in Nat /\ s.messages \in Nat /\ s.oldest \in 0..2

VARIABLES
    setup,      \* the bounds of this behaviour, chosen in Init
    req,        \* the local variables of each handler
    sent,       \* messages Telegram has accepted
    cleaning,   \* block ids handed to the cleanup of failed uploads
    scanned,    \* block ids a collector read with stale_blocks and has to visit
    abandoned,  \* history: uploads whose handler went without an abort
    committed,  \* history: messages whose data a commit made an object
    outrun,     \* history: missing buckets, deleted while a handler relied on them
    taken,      \* history: blocks in no part yet that a stale copy has listed
    foreign     \* history: rows a part lists by the id of an older row

idVars == <<cleaning, scanned>>
historyVars == <<abandoned, committed, outrun, taken, foreign>>
handlerVars == <<setup, sent, idVars, historyVars>>
engineVars == <<storeVars, req, handlerVars>>

Ready ==
    [pc |-> "ready", op |-> "none", u |-> "none", part |-> 0, refs |-> {},
     snap |-> [p \in {} |-> NoPart], src |-> NoKey, dst |-> NoKey, row |-> NoObject,
     bucket |-> "none"]

PartSnap == UNION {[P -> [etag : Etag, blocks : SUBSET BlockId]] : P \in SUBSET PartNo}

Locals ==
    [pc : {"ready", "upload", "attach", "read", "commit", "abort"}, op : {"none"} \cup Ops,
     u : Upload \cup {"none"}, part : PartNo \cup {0},
     refs : SUBSET [id : BlockId, msg : sent], snap : PartSnap,
     src : Key \cup {NoKey}, dst : Key \cup {NoKey}, row : ObjectRow, bucket : Bucket \cup {"none"}]

EngineTypeOK ==
    /\ TypeOK
    /\ setup \in Setup
    /\ sent \in SUBSET Msg
    /\ cleaning \in SUBSET BlockId
    /\ scanned \in SUBSET BlockId
    /\ abandoned \in SUBSET Upload
    /\ committed \in SUBSET sent
    /\ outrun \in SUBSET (Bucket \ buckets)
    /\ taken \in SUBSET Rows
    /\ foreign \in SUBSET Rows
    /\ req \in [Req -> Locals]

EngineInit ==
    /\ StoreInit
    /\ setup \in Setup
    /\ req = [r \in Req |-> Ready]
    /\ sent = {}
    /\ cleaning = {}
    /\ scanned = {}
    /\ abandoned = {}
    /\ committed = {}
    /\ outrun = {}
    /\ taken = {}
    /\ foreign = {}

\* The BlockRefs of a body: the ids its rows got, the messages that hold its data.
Blocks(refs) == {x.id : x \in refs}
Body(refs) == {x.msg : x \in refs}

Goto(r, pc) == req' = [req EXCEPT ![r].pc = pc]
Finish(r) == req' = [req EXCEPT ![r] = Ready]

\* Mutants: a failed put_object just returns; a failed part aborts its upload.
FailTo_returns(r) == Finish(r)
FailTo_alwaysAborts(r) == Goto(r, "abort")

\* A failed put_object goes on to abort its upload, other handlers return.
FailTo(r) == IF req[r].op = "put" THEN Goto(r, "abort") ELSE Finish(r)

----------------------------------------------------------------------------
(* put_object and upload_part.                                             *)

PutStart(r, u, k) ==
    /\ "put" \in setup.ops /\ req[r].pc = "ready"
    /\ CreateUpload(u, k, "put")
    /\ req' = [req EXCEPT ![r] = [Ready EXCEPT !.pc = "upload", !.op = "put", !.u = u]]
    /\ UNCHANGED handlerVars

PartStart(r, u, p) ==
    /\ "part" \in setup.ops /\ req[r].pc = "ready"
    /\ uploads[u].kind = "multipart" /\ p # 0
    /\ req' = [req EXCEPT ![r] =
                 [Ready EXCEPT !.pc = "upload", !.op = "part", !.u = u, !.part = p]]
    /\ UNCHANGED <<storeVars, handlerVars>>

\* upload_stream stores one more block of the body.
StageBlock(r, m) ==
    /\ req[r].pc = "upload" /\ Cardinality(req[r].refs) < setup.body
    /\ m \notin sent /\ Cardinality(sent) < setup.messages
    /\ \E b \in BlockId :
         /\ AddStagedBlock(b, m)
         /\ req' = [req EXCEPT ![r].refs = @ \cup {[id |-> b, msg |-> m]}]
    /\ sent' = sent \cup {m}
    /\ UNCHANGED <<setup, idVars, historyVars>>

\* The body is stored and the cleanup guard disarmed.
UploadDone(r) ==
    /\ req[r].pc = "upload"
    /\ Goto(r, "attach")
    /\ UNCHANGED <<storeVars, handlerVars>>

\* upload_stream or replace_part fails: the blocks are cleaned up.
UploadError(r) ==
    /\ req[r].pc \in {"upload", "attach"}
    /\ cleaning' = cleaning \cup Blocks(req[r].refs)
    /\ FailTo(r)
    /\ UNCHANGED <<setup, storeVars, sent, scanned, historyVars>>

\* replace_part rejects a body that lists an id twice.
IdsOnce(refs) == \A x, y \in refs : x.id = y.id => x = y

\* The rows of these BlockRefs that are not the rows the upload staged.
ForeignRows(refs) == {x.id : x \in {x \in refs : message[x.id] # x.msg}}

Attach(r) ==
    /\ req[r].pc = "attach"
    /\ IdsOnce(req[r].refs)
    /\ ReplacePart(req[r].u, req[r].part, Body(req[r].refs), Blocks(req[r].refs))
    /\ IF req[r].op = "put" THEN Goto(r, "commit") ELSE Finish(r)
    /\ taken' = taken \ Blocks(req[r].refs)
    /\ foreign' = foreign \cup ForeignRows(req[r].refs)
    /\ UNCHANGED <<setup, sent, idVars, abandoned, committed, outrun>>

PutSnap(refs) == [p \in {0} |-> [etag |-> Body(refs), blocks |-> Blocks(refs)]]

PutCommit(r, cond) ==
    /\ req[r].pc = "commit" /\ req[r].op = "put"
    /\ CommitUpload(req[r].u, PutSnap(req[r].refs), Body(req[r].refs), cond)
    /\ committed' = committed \cup Body(req[r].refs)
    /\ Finish(r)
    /\ UNCHANGED <<setup, sent, idVars, abandoned, outrun, taken, foreign>>

\* commit_upload fails: the condition, the upload or the parts changed.
CommitError(r) ==
    /\ req[r].pc = "commit"
    /\ FailTo(r)
    /\ UNCHANGED <<storeVars, handlerVars>>

PutAbort(r) ==
    /\ req[r].pc = "abort"
    /\ IF Active(req[r].u) THEN AbortUpload(req[r].u) ELSE UNCHANGED storeVars
    /\ Finish(r)
    /\ UNCHANGED handlerVars

\* abort_upload_with_blocks fails, which is only logged.
PutAbortError(r) ==
    /\ req[r].pc = "abort"
    /\ Finish(r)
    /\ abandoned' = abandoned \cup {req[r].u}
    /\ UNCHANGED <<setup, storeVars, sent, idVars, committed, outrun, taken, foreign>>

----------------------------------------------------------------------------
(* complete_multipart: get_parts is two queries, rows and then blocks.     *)

\* The client lists the parts in P with the tags that are stored for them.
CompleteReadParts(r, u, P) ==
    /\ "complete" \in setup.ops /\ req[r].pc = "ready"
    /\ uploads[u].kind = "multipart"
    /\ \A p \in P : p # 0 /\ parts[u][p].etag # NoEtag
    /\ req' = [req EXCEPT ![r] =
                 [Ready EXCEPT !.pc = "read", !.op = "complete", !.u = u,
                    !.snap = [p \in P |-> [etag |-> parts[u][p].etag, blocks |-> {}]]]]
    /\ UNCHANGED <<storeVars, handlerVars>>

CompleteReadBlocks(r) ==
    /\ req[r].pc = "read" /\ req[r].op = "complete"
    /\ req' = [req EXCEPT ![r].pc = "commit",
                 ![r].snap = [p \in DOMAIN @ |->
                    [etag |-> @[p].etag, blocks |-> parts[req[r].u][p].blocks]]]
    /\ UNCHANGED <<storeVars, handlerVars>>

\* The tag of the object is computed from the tags of the listed parts.
Composite(snap) == UNION {snap[p].etag : p \in DOMAIN snap}

CompleteCommit(r, cond) ==
    /\ req[r].pc = "commit" /\ req[r].op = "complete"
    /\ CommitUpload(req[r].u, req[r].snap, Composite(req[r].snap), cond)
    /\ committed' = committed \cup Composite(req[r].snap)
    /\ Finish(r)
    /\ UNCHANGED <<setup, sent, idVars, abandoned, outrun, taken, foreign>>

----------------------------------------------------------------------------
(* copy_object: get_object is two queries, the row and then its blocks.    *)

CopyReadRow(r, src, dst) ==
    /\ "copy" \in setup.ops /\ req[r].pc = "ready"
    /\ dst[1] \in buckets /\ src[1] \in buckets /\ Exists(src)
    /\ req' = [req EXCEPT ![r] =
                 [Ready EXCEPT !.pc = "read", !.op = "copy", !.src = src, !.dst = dst,
                    !.bucket = dst[1], !.row = [id |-> objects[src].id, etag |-> objects[src].etag,
                             blocks |-> {}]]]
    /\ UNCHANGED <<storeVars, handlerVars>>

\* load_object_blocks: by the object's rowid
LoadObjectBlocks(id) ==
    UNION {objects[k].blocks : k \in {j \in Key : Exists(j) /\ objects[j].id = id}}

\* validate_object_layout: the sizes of the blocks add up to the object's.
ObjectLayoutOk(row) == Cardinality(row.blocks) = Cardinality(row.etag)

CopyReadBlocks(r) ==
    LET row == [req[r].row EXCEPT !.blocks = LoadObjectBlocks(req[r].row.id)]
    IN  /\ req[r].pc = "read" /\ req[r].op = "copy"
        /\ IF ObjectLayoutOk(row)
           THEN req' = [req EXCEPT ![r].pc = "commit", ![r].row = row]
           ELSE Finish(r)
        /\ UNCHANGED <<storeVars, handlerVars>>

\* A block its upload has yet to put into a part.
Unlisted(b) == state[b] = "staged" /\ ~Held(b) /\ queue[b] = "none"

CopyCommit(r, cond) ==
    /\ req[r].pc = "commit" /\ req[r].op = "copy"
    /\ CopyObject(req[r].src, req[r].row, req[r].dst, cond)
    /\ Finish(r)
    /\ taken' = taken \cup {b \in req[r].row.blocks : Unlisted(b)}
    /\ UNCHANGED <<setup, sent, idVars, abandoned, committed, outrun, foreign>>

----------------------------------------------------------------------------
(* put_bucket_cors reads its body between the check and the INSERT.        *)

CorsCheck(r, bkt) ==
    /\ "cors" \in setup.ops /\ req[r].pc = "ready"
    /\ bkt \in buckets
    /\ req' = [req EXCEPT ![r] =
                 [Ready EXCEPT !.pc = "commit", !.op = "cors", !.bucket = bkt]]
    /\ UNCHANGED <<storeVars, handlerVars>>

CorsCommit(r) ==
    /\ req[r].pc = "commit" /\ req[r].op = "cors"
    /\ SetBucketCors(req[r].bucket)
    /\ Finish(r)
    /\ UNCHANGED handlerVars

----------------------------------------------------------------------------
(* Cancellation and crashes.                                               *)

\* The future of the handler is dropped.  While it uploads, the guard's Drop
\* hands the staged blocks to a cleanup task; nobody aborts its upload.
Cancel(r) ==
    /\ req[r].pc # "ready"
    /\ cleaning' = cleaning \cup (IF req[r].pc = "upload" THEN Blocks(req[r].refs) ELSE {})
    /\ abandoned' = abandoned \cup (IF req[r].op = "put" THEN {req[r].u} ELSE {})
    /\ Finish(r)
    /\ UNCHANGED <<setup, storeVars, sent, scanned, committed, outrun, taken, foreign>>

\* What a gc command, a process of its own, has scanned is not lost.
Crash ==
    /\ \E r \in Req : req[r].pc # "ready"
    /\ abandoned' = abandoned \cup {req[r].u : r \in {r \in Req : req[r].op = "put"}}
    /\ req' = [r \in Req |-> Ready]
    /\ cleaning' = {}
    /\ UNCHANGED <<setup, storeVars, sent, scanned, committed, outrun, taken, foreign>>

----------------------------------------------------------------------------
(* The collector and the cleanup: nothing tells them whose row an id is.   *)

VisitStale(b) == IF QueueStaleOk(b) THEN QueueStaleBlock(b) ELSE UNCHANGED storeVars

\* The query of stale_blocks, with any limit; created_at is all it looks at.
ScanStale ==
    /\ \E S \in SUBSET {b \in BlockId : Stale(b)} : S # {} /\ scanned' = scanned \cup S
    /\ UNCHANGED <<setup, storeVars, req, sent, cleaning, historyVars>>

\* run_gc queues what it has scanned, block by block.
QueueScanned(b) ==
    /\ b \in scanned
    /\ VisitStale(b)
    /\ scanned' = scanned \ {b}
    /\ UNCHANGED <<setup, req, sent, cleaning, historyVars>>

\* The message is deleted, then gc_success deletes the row.
Collect(b) ==
    /\ Candidate(b) /\ GcSuccess(b)
    /\ foreign' = foreign \ {b}
    /\ UNCHANGED <<setup, req, sent, idVars, abandoned, committed, outrun, taken>>

\* A cleanup guard that is dropped midway starts over with all its ids, so an
\* id may be visited again, long after its row was deleted.
CleanBlock(b) ==
    /\ b \in cleaning
    /\ VisitStale(b)
    /\ cleaning' \in {cleaning, cleaning \ {b}}
    /\ UNCHANGED <<setup, req, sent, scanned, historyVars>>

Age(b) ==
    /\ age[b] < setup.oldest
    /\ BlockAges(b)
    /\ UNCHANGED <<req, handlerVars>>

----------------------------------------------------------------------------
(* The rest of the system.                                                 *)

\* expire_uploads
Expire(u) == u \in expired /\ AbortUpload(u)

\* A handler has found the bucket and relies on that.
ReliesOn(bkt) == \E r \in Req : req[r].bucket = bkt

AddBucket(bkt) ==
    /\ bkt \notin buckets /\ CreateBucket(bkt)
    /\ outrun' = outrun \ {bkt}
    /\ UNCHANGED <<setup, req, sent, idVars, abandoned, committed, taken, foreign>>

DropBucket(bkt) ==
    /\ DeleteBucket(bkt)
    /\ outrun' = IF ReliesOn(bkt) THEN outrun \cup {bkt} ELSE outrun
    /\ UNCHANGED <<setup, req, sent, idVars, abandoned, committed, taken, foreign>>

\* Handlers that are one transaction, and the clock for uploads.
Others ==
    /\ \/ \E u \in Upload, k \in Key : "part" \in setup.ops /\ CreateUpload(u, k, "multipart")
       \/ \E u \in Upload : AbortUpload(u) \/ Expire(u)
       \/ \E u \in Upload \ expired : UploadExpires(u)
       \/ \E k \in Key, cond \in Condition : DeleteObject(k, cond)
    /\ UNCHANGED <<req, handlerVars>>

Uploading == \E r \in Req :
    \/ \E u \in Upload, k \in Key : PutStart(r, u, k)
    \/ \E u \in Upload, p \in PartNo : PartStart(r, u, p)
    \/ \E m \in Msg : StageBlock(r, m)
    \/ UploadDone(r)
    \/ UploadError(r)
    \/ Attach(r)
    \/ \E cond \in Condition : PutCommit(r, cond)
    \/ CommitError(r)
    \/ PutAbort(r)
    \/ PutAbortError(r)

Completing == \E r \in Req :
    \/ \E u \in Upload, P \in SUBSET PartNo \ {{}} : CompleteReadParts(r, u, P)
    \/ CompleteReadBlocks(r)
    \/ \E cond \in Condition : CompleteCommit(r, cond)

Copying == \E r \in Req :
    \/ \E src, dst \in Key : CopyReadRow(r, src, dst)
    \/ CopyReadBlocks(r)
    \/ \E cond \in Condition : CopyCommit(r, cond)

Configuring == \E r \in Req :
    \/ \E bkt \in Bucket : CorsCheck(r, bkt)
    \/ CorsCommit(r)

Collecting ==
    \/ ScanStale
    \/ \E b \in BlockId : QueueScanned(b) \/ CleanBlock(b) \/ Collect(b) \/ Age(b)

EngineNext ==
    \/ Uploading
    \/ Completing
    \/ Copying
    \/ Configuring
    \/ \E r \in Req : Cancel(r)
    \/ Crash
    \/ Collecting
    \/ \E bkt \in Bucket : AddBucket(bkt) \/ DropBucket(bkt)
    \/ Others

EngineSpec == EngineInit /\ [][EngineNext]_engineVars

----------------------------------------------------------------------------
(* Properties.                                                             *)

Stored(blocks) == {message[b] : b \in blocks}

\* The tag describes the data: every object and every part lists exactly the
\* blocks whose data its entity tag digests, although handlers compute the tag
\* and collect block ids long before they commit, with parts being replaced and
\* uploads aborted in between.  The exception are blocks that some part listed
\* by a stale id (foreign): the row was collected under a slow upload and its
\* id given to another one, and replace_part asks only whether it is queued.
TagsMatchData ==
    /\ \A k \in Key : Exists(k) /\ objects[k].blocks \cap foreign = {}
            => objects[k].etag = Stored(objects[k].blocks)
    /\ \A u \in Upload, p \in PartNo :
         parts[u][p].etag # NoEtag /\ parts[u][p].blocks \cap foreign = {}
            => parts[u][p].etag = Stored(parts[u][p].blocks)

\* The objects and parts that list the block, and one for the upload that has
\* yet to put it into a part.  The upload keeps its one when copy_object, with a
\* source record that is not the source's any more, lists its block first
\* (taken); if it then fails, the block is counted once too often for ever.
Owed(b) == Cardinality(Holders(b)) + (IF Unlisted(b) \/ b \in taken THEN 1 ELSE 0)

\* Reference counting stays exact with overlapping requests, failures,
\* cancellations, crashes and collections: ref_count is never more than what
\* the block is owed, so that the last release queues it.  It is less only for
\* a row that a part listed by a stale id, which replace_part does not count.
CountsStayExact ==
    \A b \in Rows : ref[b] <= Owed(b) /\ (b \notin foreign => ref[b] = Owed(b))

\* The transaction that takes a block out of the last object or part listing it
\* (overwrite, completion with some of the parts, replaced part, abort, expiry,
\* deletion) puts it into gc_queue: nothing is left to the scan for stale rows,
\* which would not find committed ones.
ReleasedIsQueued ==
    [][\A b \in BlockId :
          Held(b) /\ ~Held(b)' => queue'[b] # "none" \/ b \in taken]_engineVars

\* Deleting a bucket strands nothing: delete_bucket looks for objects and for
\* uploads, one of which a completion turns into the other, and takes the CORS
\* row along.  The exceptions are copy_object and put_bucket_cors, which check
\* their bucket before they write and not again: only a bucket deleted in that
\* window can keep an object or a CORS row (for the next bucket of its name).
NothingOutlivesBucket ==
    /\ \A k \in Key : Exists(k) => k[1] \in buckets \cup outrun
    /\ cors \subseteq buckets \cup outrun

\* A put upload without a handler is one whose handler was cancelled, crashed
\* or failed to abort: no other error path forgets it.  (It blocks the deletion
\* of its bucket until expire_uploads removes it.)
PutUploadsOwned ==
    \A u \in Upload : uploads[u].kind = "put" /\ u \notin abandoned
                          => \E r \in Req : req[r].op = "put" /\ req[r].u = u

\* copy_object refuses a source record that is not the source's any more.
CopyRejectsStaleSource ==
    [][\A r \in Req :
          /\ req[r].op = "copy" /\ req[r].pc = "commit"
          /\ req'[r].pc = "ready" /\ objects' # objects
          => objects[req[r].src] = req[r].row]_engineVars

\* Clients see an object store: each object is the whole data of one upload
\* that was committed once.
Promise == INSTANCE ObjectStore WITH
    Data <- Msg, NoContent <- NoEtag, spent <- committed,
    content <- [k \in Key |-> IF Exists(k) THEN Stored(objects[k].blocks) ELSE NoEtag]
\* Two steps are none of its steps.  copy_object trusts the rowid of its source,
\* which another object may have by now.
StaleCopy == \E r \in Req :
    /\ req[r].op = "copy" /\ req[r].pc = "commit" /\ req'[r].pc = "ready"
    /\ objects[req[r].src].id = req[r].row.id /\ objects[req[r].src] # req[r].row
\* And a part may list the row of another upload by the id its own row had: its
\* commit writes the other's data under the tag of its own.
ForeignCommit == \E r \in Req :
    /\ req[r].op \in {"put", "complete"} /\ req[r].pc = "commit" /\ req'[r].pc = "ready"
    /\ Active(req[r].u)
    /\ LET row == objects'[uploads[req[r].u].key]
       IN  row.blocks \cap foreign # {} /\ row.etag # Stored(row.blocks)
ImplementsObjectStore ==
    Promise!Init /\ [][Promise!Next \/ StaleCopy \/ ForeignCommit]_Promise!vars

----------------------------------------------------------------------------
(* The inductive invariant behind these properties.                        *)

\* The blocks a handler has staged and not yet put into a part.
PendingRefs(r) == IF req[r].pc \in {"upload", "attach"} THEN req[r].refs ELSE {}
PendingBody(r) == Body(PendingRefs(r))

Reserved(b) == Unlisted(b) \/ b \in taken

\* The locals of a handler, by the kind of request and how far it got.
LocalOK(l) ==
    /\ l.pc = "ready" => l = Ready
    /\ l.pc \in {"upload", "attach"} => l.op \in {"put", "part"}
    /\ l.pc = "read" => l.op \in {"complete", "copy"}
    /\ l.pc = "commit" => l.op \in {"put", "complete", "copy", "cors"}
    /\ l.pc = "abort" => l.op = "put"
    /\ l.op \in {"put", "part", "complete"} => l.u \in Upload
    /\ l.op \in {"put", "part"} => l.part \in PartNo
    /\ l.op = "put" => l.part = 0
    /\ l.op = "copy" => l.src \in Key /\ l.dst \in Key /\ l.bucket = l.dst[1]
    /\ l.op \in {"copy", "cors"} => l.bucket \in buckets \cup outrun
    /\ \A p \in DOMAIN l.snap : l.snap[p].etag \subseteq sent

LocalsOK == \A r \in Req : LocalOK(req[r])

\* The row of data that is in no part yet is still the handler's, counted for
\* it alone, unless the collector has queued it (after an hour, or by the id of
\* an older row) or another part has listed it by such an id.
BlocksOwned ==
    \A r \in Req : \A b \in Rows :
        message[b] \in PendingBody(r) => Reserved(b) \/ queue[b] # "none" \/ b \in foreign

\* A row listed by a stale id is listed until the last release queues it, and
\* nothing is kept for the upload that staged it.
ForeignListed ==
    \A b \in foreign : b \notin taken /\ (Held(b) \/ queue[b] # "none")

\* What objects list is committed, so a block is staged until its part is
\* completed or a stale copy takes it.
ListedCommitted ==
    /\ \A b \in taken : state[b] = "committed" /\ ~HeldByPart(b)
    /\ \A b \in BlockId : HeldByObject(b) => state[b] = "committed"

HoldersFinite == \A b \in BlockId : IsFiniteSet(Holders(b))

\* Data that is not an object yet is in one place, a part or a body under way,
\* and described by its tag unless the part lists a row by a stale id.
DataOwned ==
    /\ \A r \in Req : PendingBody(r) \cap committed = {}
    /\ \A r, q \in Req : r # q => PendingBody(r) \cap PendingBody(q) = {}
    /\ \A u \in Upload, p \in PartNo : parts[u][p].etag # NoEtag =>
         /\ parts[u][p].blocks \cap foreign = {} => parts[u][p].etag = Stored(parts[u][p].blocks)
         /\ parts[u][p].etag \subseteq sent \ committed
         /\ \A r \in Req : PendingBody(r) \cap parts[u][p].etag = {}
         /\ \A v \in Upload, q \in PartNo :
              parts[v][q].etag # NoEtag /\ <<v, q>> # <<u, p>>
                  => parts[u][p].etag \cap parts[v][q].etag = {}

\* Rows are for messages Telegram has accepted.
RowsSent == \A b \in Rows : message[b] \in sent

EngineInv ==
    /\ StoreInv
    /\ EngineTypeOK
    /\ RowsSent
    /\ LocalsOK
    /\ HoldersFinite
    /\ CountsStayExact
    /\ BlocksOwned
    /\ ForeignListed
    /\ ListedCommitted
    /\ DataOwned
    /\ NothingOutlivesBucket
    /\ PutUploadsOwned

============================================================================
