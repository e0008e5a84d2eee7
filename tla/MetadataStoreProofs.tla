------------------------ MODULE MetadataStoreProofs ------------------------
(***************************************************************************)
(* Proofs about MetadataStore, for every value of its constants.           *)
(*                                                                         *)
(* StoreInv is inductive: the counters and gc_queue agree on every row.    *)
(* Each transaction has a lemma that it preserves StoreInv and that it is  *)
(* a ClaimStep, i.e. leaves the claimed rows alone; the lemmas are used    *)
(* again by GarbageCollectorProofs.                                        *)
(*                                                                         *)
(* The second half says what the transactions do to ref_count and to the   *)
(* objects and parts that list a block (Holders).  A transaction that is   *)
(* given blocks nobody counts twice keeps the difference of the two; the   *)
(* exception is replace_part, which uses up the reference an upload has on *)
(* a block it has staged.  EngineProofs uses these lemmas.                 *)
(***************************************************************************)
EXTENDS MetadataStore, FiniteSetTheorems, TLAPS

QueueState == {"none", "due", "later", "orphan"}

\* What a transaction may do to a block the collector has claimed.
ClaimStep ==
    \A b \in BlockId :
        Claimed(b) => \/ Claimed(b)' /\ message'[b] = message[b]
                      \/ state'[b] = "absent"

\* Rows are neither added nor given another message.
KeepsRows ==
    \A b \in Rows' : b \in Rows /\ message'[b] = message[b]

----------------------------------------------------------------------------
(* The pieces transactions are built from.                                 *)

\* One reference for each block of a set.
LEMMA OneEachType ==
    ASSUME NEW S
    PROVE  /\ OneEach(S) \in [BlockId -> Nat]
           /\ \A b \in BlockId : OneEach(S)[b] > 0 <=> b \in S
BY DEF OneEach

\* The number of parts of an upload that list a block is a natural number,
\* positive only for a block some part lists.
LEMMA PartDropsType ==
    ASSUME TypeOK, NEW u \in Upload, NEW P \in SUBSET PartNo
    PROVE  /\ PartDrops(u, P) \in [BlockId -> Nat]
           /\ \A b \in BlockId : PartDrops(u, P)[b] > 0 => HeldByPart(b)
<1>1. ASSUME NEW b \in BlockId
      PROVE  LET S == {p \in P : b \in parts[u][p].blocks}
             IN  /\ Cardinality(S) \in Nat
                 /\ Cardinality(S) > 0 => HeldByPart(b)
  <2> DEFINE S == {p \in P : b \in parts[u][p].blocks}
  <2>1. IsFiniteSet(S)
    BY PartNoAssumption, FS_Subset
  <2>2. Cardinality(S) \in Nat
    BY <2>1, FS_CardinalityType
  <2>3. S = {} => Cardinality(S) = 0
    BY FS_EmptySet
  <2>4. S # {} => HeldByPart(b)
    BY DEF HeldByPart
  <2> QED
    BY <2>2, <2>3, <2>4
<1> QED
  BY <1>1 DEF PartDrops

\* decrement_block keeps the agreement between counter and queue, keeps what
\* is queued as it is, and queues released blocks only.
LEMMA ReleaseBlocks ==
    ASSUME NEW r \in [BlockId -> Nat], NEW q \in [BlockId -> QueueState],
           NEW drops \in [BlockId -> Nat]
    PROVE  LET r1 == Decrement(r, drops)
               q1 == EnqueueZero(q, r1, drops)
           IN  /\ r1 \in [BlockId -> Nat]
               /\ q1 \in [BlockId -> QueueState]
               /\ \A b \in BlockId :
                    /\ (r[b] = 0 <=> q[b] # "none") => (r1[b] = 0 <=> q1[b] # "none")
                    /\ q[b] # "none" => q1[b] = q[b]
                    /\ q1[b] # q[b] => drops[b] > 0
<1> DEFINE r1 == Decrement(r, drops)
           q1 == EnqueueZero(q, r1, drops)
<1>1. r1 \in [BlockId -> Nat]
  BY DEF Decrement
<1>2. q1 \in [BlockId -> QueueState]
  BY DEF EnqueueZero, QueueState
<1>3. ASSUME NEW b \in BlockId
      PROVE  /\ (r[b] = 0 <=> q[b] # "none") => (r1[b] = 0 <=> q1[b] # "none")
             /\ q[b] # "none" => q1[b] = q[b]
             /\ q1[b] # q[b] => drops[b] > 0
  <2>1. r1[b] = IF r[b] > drops[b] THEN r[b] - drops[b] ELSE 0
    BY DEF Decrement
  <2>2. q1[b] = IF drops[b] > 0 /\ r1[b] = 0 /\ q[b] = "none" THEN "due" ELSE q[b]
    BY DEF EnqueueZero
  <2>3. r[b] \in Nat /\ drops[b] \in Nat
    OBVIOUS
  <2> HIDE DEF r1, q1
  <2> QED
    BY <2>1, <2>2, <2>3
<1> QED
  BY <1>1, <1>2, <1>3

\* The empty database satisfies the invariant.
LEMMA InitInv == StoreInit => StoreInv
BY EtagAssumption
   DEF StoreInit, StoreInv, TypeOK, References, QueueMatchesCount, UploadsInBuckets,
       ObjectRow, PartRow, UploadRow, NoObject, NoPart, NoParts, NoUpload, Active,
       Held, HeldByObject, HeldByPart, Rows

----------------------------------------------------------------------------
(* Transactions that leave the blocks alone.                               *)

\* Creating and deleting buckets keeps the invariant.
LEMMA BucketOpsInv ==
    ASSUME StoreInv, NEW bkt \in Bucket,
           \/ CreateBucket(bkt) \/ DeleteBucket(bkt)
           \/ SetBucketCors(bkt) \/ DeleteBucketCors(bkt)
    PROVE  StoreInv' /\ ClaimStep /\ KeepsRows
<1> USE DEF StoreInv, blockVars, uploadVars, CreateBucket, DeleteBucket,
            SetBucketCors, DeleteBucketCors
<1>1. TypeOK'
  BY DEF TypeOK, Active
<1>2. References' /\ QueueMatchesCount'
  BY DEF References, QueueMatchesCount, Held, HeldByObject, HeldByPart, Rows, Active
<1>3. UploadsInBuckets'
  BY DEF UploadsInBuckets, Active
<1>4. ClaimStep /\ KeepsRows
  BY DEF ClaimStep, KeepsRows, Claimed, Held, HeldByObject, HeldByPart, Rows
<1> QED
  BY <1>1, <1>2, <1>3, <1>4

\* CreateUpload (Db::create_upload) keeps the invariant.
LEMMA CreateUploadInv ==
    ASSUME StoreInv, NEW u \in Upload, NEW k \in Key,
           NEW kind \in {"put", "multipart"}, CreateUpload(u, k, kind)
    PROVE  StoreInv' /\ ClaimStep /\ KeepsRows
<1> USE DEF StoreInv, blockVars, bucketVars, CreateUpload
<1>1. TypeOK'
  BY DEF TypeOK, Active, UploadRow
<1>2. References' /\ QueueMatchesCount'
  BY DEF TypeOK, References, QueueMatchesCount, Held, HeldByObject, HeldByPart, Rows,
         Active
<1>3. UploadsInBuckets'
  BY DEF TypeOK, UploadsInBuckets, Active, UploadRow
<1>4. ClaimStep /\ KeepsRows
  BY DEF ClaimStep, KeepsRows, Claimed, Held, HeldByObject, HeldByPart, Rows
<1> QED
  BY <1>1, <1>2, <1>3, <1>4

\* An upload that grows old keeps the invariant.
LEMMA UploadExpiresInv ==
    ASSUME StoreInv, NEW u \in Upload, UploadExpires(u)
    PROVE  StoreInv' /\ ClaimStep /\ KeepsRows
BY DEF StoreInv, blockVars, bucketVars, UploadExpires, TypeOK, References,
       QueueMatchesCount, UploadsInBuckets, ClaimStep, KeepsRows, Claimed,
       Held, HeldByObject, HeldByPart, Rows, Active

\* So does a step that leaves the database alone.
LEMMA StutterInv ==
    ASSUME StoreInv, UNCHANGED storeVars
    PROVE  StoreInv' /\ ClaimStep /\ KeepsRows
BY DEF StoreInv, storeVars, blockVars, bucketVars, uploadVars, TypeOK, References,
       QueueMatchesCount, UploadsInBuckets, ClaimStep, KeepsRows, Claimed,
       Held, HeldByObject, HeldByPart, Rows, Active

----------------------------------------------------------------------------
(* Transactions on one block row.                                          *)

\* The new row gets an id no row has, so nothing claimed is touched.
LEMMA AddStagedBlockInv ==
    ASSUME StoreInv, NEW b \in BlockId, NEW m \in Msg, AddStagedBlock(b, m)
    PROVE  /\ StoreInv' /\ ClaimStep
           /\ b \notin Rows
           /\ \A c \in Rows' : c = b \/ (c \in Rows /\ message'[c] = message[c])
<1> USE DEF StoreInv, bucketVars, uploadVars, AddStagedBlock
<1>1. b \notin Rows
  BY BlockIdAssumption DEF IsNextRowid, Rows
<1>2. TypeOK'
  BY DEF TypeOK, Active
<1>3. ~Held(b) /\ queue[b] = "none"
  BY <1>1 DEF References, Rows, TypeOK
<1>4. References' /\ QueueMatchesCount' /\ UploadsInBuckets'
  BY <1>1, <1>3 DEF TypeOK, References, QueueMatchesCount, UploadsInBuckets, Held,
                    HeldByObject, HeldByPart, Rows, Active
<1>5. ClaimStep
  BY <1>1, <1>3 DEF TypeOK, ClaimStep, Claimed, Held, HeldByObject, HeldByPart, Rows
<1>6. \A c \in Rows' : c = b \/ (c \in Rows /\ message'[c] = message[c])
  BY DEF Rows, TypeOK
<1> QED
  BY <1>1, <1>2, <1>4, <1>5, <1>6

\* QueueStaleBlock (Db::queue_stale_block) keeps the invariant.
LEMMA QueueStaleBlockInv ==
    ASSUME StoreInv, NEW b \in BlockId, QueueStaleBlock(b)
    PROVE  StoreInv' /\ ClaimStep /\ KeepsRows /\ Claimed(b)'
<1> USE DEF StoreInv, bucketVars, uploadVars, QueueStaleBlock, QueueStaleOk
<1>1. TypeOK'
  BY DEF TypeOK, Active
<1>2. References' /\ QueueMatchesCount' /\ UploadsInBuckets'
  BY DEF TypeOK, References, QueueMatchesCount, UploadsInBuckets, Held, HeldByObject,
         HeldByPart, Rows, Active
<1>3. ClaimStep /\ KeepsRows /\ Claimed(b)'
  BY DEF TypeOK, ClaimStep, KeepsRows, Claimed, Held, HeldByObject, HeldByPart, Rows
<1> QED
  BY <1>1, <1>2, <1>3

\* GcSuccess (Db::gc_success) keeps the invariant.
LEMMA GcSuccessInv ==
    ASSUME StoreInv, NEW b \in BlockId, GcSuccess(b)
    PROVE  StoreInv' /\ ClaimStep /\ KeepsRows
<1> USE DEF StoreInv, bucketVars, uploadVars, GcSuccess, GcSuccessOk
<1>1. TypeOK'
  BY DEF TypeOK, Active
<1>2. References' /\ QueueMatchesCount' /\ UploadsInBuckets'
  BY DEF TypeOK, References, QueueMatchesCount, UploadsInBuckets, Held, HeldByObject,
         HeldByPart, Rows, Active
<1>3. ClaimStep /\ KeepsRows
  BY DEF TypeOK, ClaimStep, KeepsRows, Claimed, Held, HeldByObject, HeldByPart, Rows
<1> QED
  BY <1>1, <1>2, <1>3

\* A change to the due time of a queued row keeps the invariant.
LEMMA QueueUpdateInv ==
    ASSUME StoreInv, NEW b \in BlockId,
           GcFailure(b) \/ GcOrphan(b) \/ RetryFallsDue(b) \/ BlockAges(b)
    PROVE  StoreInv' /\ ClaimStep /\ KeepsRows
<1> USE DEF StoreInv, bucketVars, uploadVars, GcFailure, GcOrphan, RetryFallsDue,
            BlockAges
<1>1. TypeOK'
  BY MaxAgeAssumption DEF TypeOK, Active
<1>2. References' /\ QueueMatchesCount' /\ UploadsInBuckets'
  BY DEF TypeOK, References, QueueMatchesCount, UploadsInBuckets, Held, HeldByObject,
         HeldByPart, Rows, Active
<1>3. ClaimStep /\ KeepsRows
  BY DEF TypeOK, ClaimStep, KeepsRows, Claimed, Held, HeldByObject, HeldByPart, Rows
<1> QED
  BY <1>1, <1>2, <1>3

----------------------------------------------------------------------------
(* Transactions that move references between parts and objects.            *)

\* The argument common to them: S are the blocks the transaction refers to
\* anew, checked to exist and not to be queued; it queues only blocks it takes
\* from their holders, and dequeues none but those in S.
LEMMA WriterStep ==
    ASSUME StoreInv, NEW S \in SUBSET BlockId, NotQueued(S), RowsExist(S),
           Rows' = Rows, UNCHANGED message,
           \A b \in BlockId : Held(b)' => Held(b) \/ b \in S,
           \A b \in Rows : ref'[b] = 0 <=> queue'[b] # "none",
           \A b \in BlockId : queue'[b] # "none" => queue[b] # "none" \/ Held(b),
           \A b \in BlockId \ S : queue[b] # "none" => queue'[b] # "none"
    PROVE  /\ \A b \in BlockId : Held(b)' \/ queue'[b] # "none" => state'[b] # "absent"
           /\ QueueMatchesCount' /\ ClaimStep /\ KeepsRows
<1>1. \A b \in BlockId : b \in Rows <=> state[b] # "absent"
  BY DEF Rows
<1>2. \A b \in BlockId : b \in Rows' <=> state'[b] # "absent"
  BY DEF Rows
<1>3. \A b \in BlockId : Held(b) \/ queue[b] # "none" => b \in Rows
  BY <1>1 DEF StoreInv, References
<1>4. \A b \in BlockId : Held(b)' \/ queue'[b] # "none" => state'[b] # "absent"
  BY <1>2, <1>3 DEF RowsExist
<1>5. QueueMatchesCount' /\ KeepsRows
  BY DEF QueueMatchesCount, KeepsRows
<1>6. ClaimStep
  BY DEF ClaimStep, Claimed, NotQueued
<1> QED
  BY <1>4, <1>5, <1>6

\* ReplacePart (Db::replace_part) keeps the invariant.
LEMMA ReplacePartInv ==
    ASSUME StoreInv, NEW u \in Upload, NEW p \in PartNo, NEW etag \in Etag,
           NEW blocks \in SUBSET BlockId, ReplacePart(u, p, etag, blocks)
    PROVE  StoreInv' /\ ClaimStep /\ KeepsRows
<1> DEFINE drops == OneEach(ReplacedBlocks(u, p, blocks))
<1> USE DEF StoreInv, bucketVars
<1>1. /\ ref \in [BlockId -> Nat] /\ queue \in [BlockId -> QueueState]
      /\ drops \in [BlockId -> Nat]
      /\ \A b \in BlockId : drops[b] > 0 => Held(b)
  BY OneEachType DEF TypeOK, QueueState, ReplacedBlocks, Held, HeldByPart
<1>2. ref' = Decrement(ref, drops) /\ queue' = EnqueueZero(queue, ref', drops)
  BY DEF ReplacePart
<1> HIDE DEF drops
<1>3. /\ ref' \in [BlockId -> Nat] /\ queue' \in [BlockId -> QueueState]
      /\ \A b \in BlockId :
           /\ (ref[b] = 0 <=> queue[b] # "none") => (ref'[b] = 0 <=> queue'[b] # "none")
           /\ queue[b] # "none" => queue'[b] = queue[b]
           /\ queue'[b] # queue[b] => drops[b] > 0
  BY <1>1, <1>2, ReleaseBlocks
<1>4. parts' \in [Upload -> [PartNo -> PartRow]]
  BY DEF ReplacePart, TypeOK, PartRow
<1>5. TypeOK'
  BY <1>3, <1>4 DEF ReplacePart, TypeOK, QueueState, Active
<1>6. \A v \in Upload, q \in PartNo :
         parts'[v][q] = IF v = u /\ q = p THEN [etag |-> etag, blocks |-> blocks]
                                         ELSE parts[v][q]
  BY DEF ReplacePart, TypeOK
<1>7. \A b \in BlockId : Held(b)' => Held(b) \/ b \in blocks
  BY <1>6 DEF ReplacePart, Held, HeldByObject, HeldByPart
<1>8. Rows' = Rows /\ UNCHANGED message /\ NotQueued(blocks) /\ RowsExist(blocks)
  BY DEF ReplacePart, ReplacePartOk, Rows
<1>9. /\ \A b \in BlockId : Held(b)' \/ queue'[b] # "none" => state'[b] # "absent"
      /\ QueueMatchesCount' /\ ClaimStep /\ KeepsRows
  <2>1. \A b \in Rows : ref'[b] = 0 <=> queue'[b] # "none"
    BY <1>3 DEF QueueMatchesCount, Rows
  <2> QED
    BY <1>1, <1>3, <1>7, <1>8, <2>1, WriterStep
<1>10. References'
  BY <1>6, <1>9 DEF References, ReplacePart, ReplacePartOk, Active
<1>11. UploadsInBuckets'
  BY DEF UploadsInBuckets, ReplacePart, Active
<1> QED
  BY <1>5, <1>9, <1>10, <1>11

\* DeleteObject (Db::delete_object) keeps the invariant.
LEMMA DeleteObjectInv ==
    ASSUME StoreInv, NEW k \in Key, NEW cond, DeleteObject(k, cond)
    PROVE  StoreInv' /\ ClaimStep /\ KeepsRows
<1> DEFINE drops == OneEach(objects[k].blocks)
<1> USE DEF StoreInv, bucketVars, uploadVars
<1>1. /\ ref \in [BlockId -> Nat] /\ queue \in [BlockId -> QueueState]
      /\ drops \in [BlockId -> Nat]
      /\ \A b \in BlockId : drops[b] > 0 => Held(b)
  BY OneEachType DEF TypeOK, QueueState, Held, HeldByObject
<1>2. ref' = Decrement(ref, drops) /\ queue' = EnqueueZero(queue, ref', drops)
  BY DEF DeleteObject
<1> HIDE DEF drops
<1>3. /\ ref' \in [BlockId -> Nat] /\ queue' \in [BlockId -> QueueState]
      /\ \A b \in BlockId :
           /\ (ref[b] = 0 <=> queue[b] # "none") => (ref'[b] = 0 <=> queue'[b] # "none")
           /\ queue[b] # "none" => queue'[b] = queue[b]
           /\ queue'[b] # queue[b] => drops[b] > 0
  BY <1>1, <1>2, ReleaseBlocks
<1>4. objects' \in [Key -> ObjectRow]
  BY DEF DeleteObject, TypeOK, ObjectRow, NoObject
<1>5. TypeOK'
  BY <1>3, <1>4 DEF DeleteObject, TypeOK, QueueState, Active
<1>6. \A b \in BlockId : Held(b)' => Held(b)
  BY DEF TypeOK, DeleteObject, NoObject, Held, HeldByObject, HeldByPart
<1>7. Rows' = Rows /\ UNCHANGED message /\ NotQueued({}) /\ RowsExist({})
  BY DEF DeleteObject, Rows, NotQueued, RowsExist
<1>8. /\ \A b \in BlockId : Held(b)' \/ queue'[b] # "none" => state'[b] # "absent"
      /\ QueueMatchesCount' /\ ClaimStep /\ KeepsRows
  <2>1. \A b \in Rows : ref'[b] = 0 <=> queue'[b] # "none"
    BY <1>3 DEF QueueMatchesCount, Rows
  <2>2. {} \in SUBSET BlockId
    OBVIOUS
  <2> QED
    BY <1>1, <1>3, <1>6, <1>7, <2>1, <2>2, WriterStep
<1>9. References' /\ UploadsInBuckets'
  BY <1>8 DEF References, UploadsInBuckets, DeleteObject, Active
<1> QED
  BY <1>5, <1>8, <1>9

\* Deleting an upload row leaves no part of it behind.
LEMMA DeleteUploadRowParts ==
    ASSUME StoreInv, NEW u \in Upload, DeleteUploadRow(u), UNCHANGED buckets
    PROVE  /\ uploads' \in [Upload -> UploadRow]
           /\ \A v \in Upload : Active(v)' => uploads'[v].key \in Key
           /\ expired' \in SUBSET Upload
           /\ parts' \in [Upload -> [PartNo -> PartRow]]
           /\ \A v \in Upload, q \in PartNo : parts'[v][q].etag # NoEtag => Active(v)'
           /\ \A b \in BlockId : HeldByPart(b)' => HeldByPart(b)
           /\ UploadsInBuckets'
<1> USE DEF StoreInv, DeleteUploadRow, TypeOK
<1>1. /\ uploads' \in [Upload -> UploadRow]
      /\ \A v \in Upload : uploads'[v] = IF v = u THEN [kind |-> "gone", key |-> NoKey]
                                                  ELSE uploads[v]
  BY DEF UploadRow, NoUpload
<1>2. \A v \in Upload : Active(v)' => v # u /\ Active(v)
  BY <1>1 DEF Active
<1>3. NoParts \in [PartNo -> PartRow]
  BY DEF NoParts, NoPart, PartRow
<1>4. /\ parts' \in [Upload -> [PartNo -> PartRow]]
      /\ \A v \in Upload, q \in PartNo :
           parts'[v][q] = IF v = u THEN NoPart ELSE parts[v][q]
  BY <1>3 DEF NoParts
<1>5. \A v \in Upload, q \in PartNo : parts'[v][q].etag # NoEtag => Active(v)'
  BY <1>1, <1>4 DEF NoPart, References, Active
<1>6. \A b \in BlockId : HeldByPart(b)' => HeldByPart(b)
  BY <1>4 DEF HeldByPart, NoPart
<1>7. UploadsInBuckets' /\ \A v \in Upload : Active(v)' => uploads'[v].key \in Key
  BY <1>1, <1>2 DEF UploadsInBuckets
<1> QED
  BY <1>1, <1>4, <1>5, <1>6, <1>7

\* AbortUpload (Db::abort_upload_with_blocks) keeps the invariant.
LEMMA AbortUploadInv ==
    ASSUME StoreInv, NEW u \in Upload, AbortUpload(u)
    PROVE  StoreInv' /\ ClaimStep /\ KeepsRows
<1> DEFINE drops == PartDrops(u, PartNo)
<1> USE DEF StoreInv, bucketVars
<1>1. /\ ref \in [BlockId -> Nat] /\ queue \in [BlockId -> QueueState]
      /\ drops \in [BlockId -> Nat]
      /\ \A b \in BlockId : drops[b] > 0 => Held(b)
  <2>1. PartNo \in SUBSET PartNo
    OBVIOUS
  <2> QED
    BY <2>1, PartDropsType DEF TypeOK, QueueState, Held
<1>2. ref' = Decrement(ref, drops) /\ queue' = EnqueueZero(queue, ref', drops)
  BY DEF AbortUpload
<1> HIDE DEF drops
<1>3. /\ ref' \in [BlockId -> Nat] /\ queue' \in [BlockId -> QueueState]
      /\ \A b \in BlockId :
           /\ (ref[b] = 0 <=> queue[b] # "none") => (ref'[b] = 0 <=> queue'[b] # "none")
           /\ queue[b] # "none" => queue'[b] = queue[b]
           /\ queue'[b] # queue[b] => drops[b] > 0
  BY <1>1, <1>2, ReleaseBlocks
<1>4. /\ uploads' \in [Upload -> UploadRow]
      /\ \A v \in Upload : Active(v)' => uploads'[v].key \in Key
      /\ expired' \in SUBSET Upload
      /\ parts' \in [Upload -> [PartNo -> PartRow]]
      /\ \A v \in Upload, q \in PartNo : parts'[v][q].etag # NoEtag => Active(v)'
      /\ \A b \in BlockId : HeldByPart(b)' => HeldByPart(b)
      /\ UploadsInBuckets'
  BY DeleteUploadRowParts DEF AbortUpload
<1>5. TypeOK'
  BY <1>3, <1>4 DEF AbortUpload, TypeOK, QueueState
<1>6. \A b \in BlockId : Held(b)' => Held(b)
  BY <1>4 DEF AbortUpload, Held, HeldByObject
<1>7. Rows' = Rows /\ UNCHANGED message /\ NotQueued({}) /\ RowsExist({})
  BY DEF AbortUpload, Rows, NotQueued, RowsExist
<1>8. /\ \A b \in BlockId : Held(b)' \/ queue'[b] # "none" => state'[b] # "absent"
      /\ QueueMatchesCount' /\ ClaimStep /\ KeepsRows
  <2>1. \A b \in Rows : ref'[b] = 0 <=> queue'[b] # "none"
    BY <1>3 DEF QueueMatchesCount, Rows
  <2>2. {} \in SUBSET BlockId
    OBVIOUS
  <2> QED
    BY <1>1, <1>3, <1>6, <1>7, <2>1, <2>2, WriterStep
<1>9. References'
  BY <1>4, <1>8 DEF References
<1> QED
  BY <1>4, <1>5, <1>8, <1>9

\* copy_object releases the overwritten object first and re-references after,
\* so a block of both objects is queued and taken off the queue again.
LEMMA CopyObjectInv ==
    ASSUME StoreInv, NEW src \in Key, NEW dst \in Key, NEW cond, NEW row,
           row.etag \in Etag \cup {NoEtag}, row.blocks \in SUBSET BlockId,
           CopyObject(src, row, dst, cond)
    PROVE  StoreInv' /\ ClaimStep /\ KeepsRows
<1> DEFINE S == row.blocks
           drops == OneEach(objects[dst].blocks)
           ref1 == Decrement(ref, drops)
           queue1 == EnqueueZero(queue, ref1, drops)
<1> USE DEF StoreInv, bucketVars, uploadVars
<1>1. /\ ref \in [BlockId -> Nat] /\ queue \in [BlockId -> QueueState]
      /\ drops \in [BlockId -> Nat]
      /\ \A b \in BlockId : drops[b] > 0 => Held(b)
  BY OneEachType DEF TypeOK, QueueState, Held, HeldByObject
<1>2. /\ ref' = [b \in BlockId |-> IF b \in S THEN ref1[b] + 1 ELSE ref1[b]]
      /\ queue' = [b \in BlockId |-> IF b \in S THEN "none" ELSE queue1[b]]
      /\ state' = [b \in BlockId |-> IF b \in S THEN "committed" ELSE state[b]]
  BY DEF CopyObject, AddReferences
<1>3. /\ NotQueued(S) /\ RowsExist(S) /\ S \in SUBSET BlockId
      /\ UNCHANGED <<bucketVars, uploadVars, message, age>>
  BY DEF CopyObject, CopyObjectOk
<1>4. PICK i \in ObjectId :
        objects' = [objects EXCEPT ![dst] = [id |-> i, etag |-> row.etag, blocks |-> S]]
  BY DEF CopyObject
<1> HIDE DEF drops
<1>5. /\ ref1 \in [BlockId -> Nat] /\ queue1 \in [BlockId -> QueueState]
      /\ \A b \in BlockId :
           /\ (ref[b] = 0 <=> queue[b] # "none") => (ref1[b] = 0 <=> queue1[b] # "none")
           /\ queue[b] # "none" => queue1[b] = queue[b]
           /\ queue1[b] # queue[b] => drops[b] > 0
  BY <1>1, ReleaseBlocks
<1> HIDE DEF ref1, queue1, S
<1>6. /\ ref' \in [BlockId -> Nat] /\ queue' \in [BlockId -> QueueState]
      /\ state' \in [BlockId -> {"absent", "staged", "committed"}]
      /\ objects' \in [Key -> ObjectRow]
  BY <1>2, <1>3, <1>4, <1>5 DEF TypeOK, QueueState, ObjectRow, S
<1>7. TypeOK'
  BY <1>3, <1>6 DEF TypeOK, QueueState, Active
<1>8. \A b \in BlockId : Held(b)' => Held(b) \/ b \in S
  BY <1>3, <1>4 DEF TypeOK, Held, HeldByObject, HeldByPart
<1>9. Rows' = Rows
  BY <1>2, <1>3 DEF Rows, RowsExist
<1>10. /\ \A b \in BlockId : Held(b)' \/ queue'[b] # "none" => state'[b] # "absent"
       /\ QueueMatchesCount' /\ ClaimStep /\ KeepsRows
  <2>1. \A b \in Rows : ref'[b] = 0 <=> queue'[b] # "none"
    BY <1>2, <1>5 DEF QueueMatchesCount, Rows
  <2>2. \A b \in BlockId : queue'[b] # "none" => queue[b] # "none" \/ Held(b)
    BY <1>1, <1>2, <1>5
  <2>3. \A b \in BlockId \ S : queue[b] # "none" => queue'[b] # "none"
    BY <1>2, <1>5
  <2> QED
    BY <1>3, <1>8, <1>9, <2>1, <2>2, <2>3, WriterStep
<1>11. References' /\ UploadsInBuckets'
  BY <1>3, <1>10 DEF References, UploadsInBuckets, Active
<1> QED
  BY <1>7, <1>10, <1>11

\* commit_upload releases the overwritten object, references the parts it
\* was given, then releases the parts it was not given.
LEMMA CommitUploadInv ==
    ASSUME StoreInv, NEW u \in Upload, NEW P \in SUBSET PartNo,
           NEW snap \in [P -> PartRow], NEW etag \in Etag, NEW cond,
           CommitUpload(u, snap, etag, cond)
    PROVE  StoreInv' /\ ClaimStep /\ KeepsRows
<1> DEFINE k == uploads[u].key
           S == SnapBlocks(snap)
           dropOld == OneEach(objects[k].blocks)
           dropUnused == PartDrops(u, PartNo \ DOMAIN snap)
           ref1 == Decrement(ref, dropOld)
           queue1 == EnqueueZero(queue, ref1, dropOld)
           ref2 == TakeOver(ref1, S)
           queue2 == [b \in BlockId |-> IF b \in S THEN "none" ELSE queue1[b]]
<1> USE DEF StoreInv, bucketVars
<1>1. k \in Key /\ CommitUploadOk(u, snap, cond)
  BY DEF CommitUpload, CommitUploadOk, TypeOK
<1>2. /\ ref \in [BlockId -> Nat] /\ queue \in [BlockId -> QueueState]
      /\ dropOld \in [BlockId -> Nat] /\ dropUnused \in [BlockId -> Nat]
      /\ \A b \in BlockId : dropOld[b] > 0 \/ dropUnused[b] > 0 => Held(b)
  <2>1. PartNo \ DOMAIN snap \in SUBSET PartNo
    OBVIOUS
  <2>2. \A b \in BlockId : dropOld[b] > 0 => Held(b)
    BY <1>1, OneEachType DEF Held, HeldByObject
  <2> QED
    BY <2>1, <2>2, OneEachType, PartDropsType DEF TypeOK, QueueState, Held
<1>3. /\ ref' = Decrement(ref2, dropUnused)
      /\ queue' = EnqueueZero(queue2, ref', dropUnused)
      /\ state' = [b \in BlockId |-> IF b \in S THEN "committed" ELSE state[b]]
      /\ UNCHANGED <<bucketVars, message, age>>
      /\ DeleteUploadRow(u)
  BY DEF CommitUpload
<1>4. /\ S \in SUBSET BlockId
      /\ \A b \in S : HeldByPart(b)
  BY <1>1 DEF SnapBlocks, PartRow, CommitUploadOk, PartsUnchanged, HeldByPart
<1>5. NotQueued(S) /\ RowsExist(S)
  BY <1>1, <1>4 DEF CommitUploadOk, References, RowsExist, Held, Rows
<1>6. PICK i \in ObjectId :
        objects' = [objects EXCEPT ![k] = [id |-> i, etag |-> etag, blocks |-> S]]
  BY DEF CommitUpload
<1> HIDE DEF dropOld, dropUnused, S, k
<1>7. /\ ref1 \in [BlockId -> Nat] /\ queue1 \in [BlockId -> QueueState]
      /\ \A b \in BlockId :
           /\ (ref[b] = 0 <=> queue[b] # "none") => (ref1[b] = 0 <=> queue1[b] # "none")
           /\ queue[b] # "none" => queue1[b] = queue[b]
           /\ queue1[b] # queue[b] => dropOld[b] > 0
  BY <1>2, ReleaseBlocks
<1> HIDE DEF ref1, queue1
<1>8. /\ ref2 \in [BlockId -> Nat] /\ queue2 \in [BlockId -> QueueState]
      /\ \A b \in BlockId :
           /\ (ref[b] = 0 <=> queue[b] # "none") => (ref2[b] = 0 <=> queue2[b] # "none")
           /\ queue2[b] = IF b \in S THEN "none" ELSE queue1[b]
  BY <1>7 DEF QueueState, TakeOver
<1> HIDE DEF ref2, queue2
<1>9. /\ ref' \in [BlockId -> Nat] /\ queue' \in [BlockId -> QueueState]
      /\ \A b \in BlockId :
           /\ (ref2[b] = 0 <=> queue2[b] # "none") => (ref'[b] = 0 <=> queue'[b] # "none")
           /\ queue2[b] # "none" => queue'[b] = queue2[b]
           /\ queue'[b] # queue2[b] => dropUnused[b] > 0
  BY <1>2, <1>3, <1>8, ReleaseBlocks
<1>10. /\ uploads' \in [Upload -> UploadRow]
       /\ \A v \in Upload : Active(v)' => uploads'[v].key \in Key
       /\ expired' \in SUBSET Upload
       /\ parts' \in [Upload -> [PartNo -> PartRow]]
       /\ \A v \in Upload, q \in PartNo : parts'[v][q].etag # NoEtag => Active(v)'
       /\ \A b \in BlockId : HeldByPart(b)' => HeldByPart(b)
       /\ UploadsInBuckets'
  BY <1>3, DeleteUploadRowParts
<1>11. TypeOK'
  <2>1. /\ state' \in [BlockId -> {"absent", "staged", "committed"}]
        /\ objects' \in [Key -> ObjectRow]
    BY <1>3, <1>4, <1>6 DEF TypeOK, ObjectRow
  <2> QED
    BY <1>3, <1>9, <1>10, <2>1 DEF TypeOK, QueueState
<1>12. \A b \in BlockId : Held(b)' => Held(b) \/ b \in S
  BY <1>1, <1>6, <1>10 DEF TypeOK, Held, HeldByObject
<1>13. Rows' = Rows
  BY <1>3, <1>5 DEF Rows, RowsExist
<1>14. /\ \A b \in BlockId : Held(b)' \/ queue'[b] # "none" => state'[b] # "absent"
       /\ QueueMatchesCount' /\ ClaimStep /\ KeepsRows
  <2>1. \A b \in Rows : ref'[b] = 0 <=> queue'[b] # "none"
    BY <1>8, <1>9 DEF QueueMatchesCount, Rows
  <2>2. \A b \in BlockId : queue'[b] # "none" => queue[b] # "none" \/ Held(b)
    BY <1>2, <1>7, <1>8, <1>9
  <2>3. \A b \in BlockId \ S : queue[b] # "none" => queue'[b] # "none"
    BY <1>7, <1>8, <1>9
  <2> QED
    BY <1>3, <1>4, <1>5, <1>12, <1>13, <2>1, <2>2, <2>3, WriterStep
<1>15. References'
  BY <1>10, <1>14 DEF References
<1> QED
  BY <1>10, <1>11, <1>14, <1>15

----------------------------------------------------------------------------
(* The specification.                                                      *)

\* What a serial caller read from the database has the type of its record.
LEMMA SnapType ==
    ASSUME TypeOK, NEW u \in Upload, NEW snap \in PartSnaps(u)
    PROVE  \E P \in SUBSET PartNo : snap \in [P -> PartRow]
<1>1. CASE SerialCallers
  <2>1. PICK P \in SUBSET PartNo : snap = [p \in P |-> parts[u][p]]
    BY <1>1 DEF PartSnaps
  <2>2. snap \in [P -> PartRow]
    BY <2>1 DEF TypeOK
  <2> QED
    BY <2>2
<1>2. CASE ~SerialCallers
  BY <1>2 DEF PartSnaps
<1> QED
  BY <1>1, <1>2

\* What a copy writes has the type of an object.
LEMMA CopyRowType ==
    ASSUME TypeOK, NEW src \in Key, NEW row \in CopyRows(src)
    PROVE  row.etag \in Etag \cup {NoEtag} /\ row.blocks \in SUBSET BlockId
BY DEF CopyRows, TypeOK, ObjectRow

\* Every step of the store keeps the invariant and leaves claimed rows alone.
LEMMA NextInv ==
    ASSUME StoreInv, [StoreNext]_storeVars
    PROVE  StoreInv' /\ ClaimStep
<1>1. CASE BucketOps
  BY <1>1, BucketOpsInv DEF BucketOps
<1>2. CASE UploadOps
  <2>1. PICK u \in Upload :
          \/ \E k \in Key, kind \in Kind : CreateUpload(u, k, kind)
          \/ \E p \in PartNo, e \in Etag, blocks \in SUBSET BlockId :
               ReplacePart(u, p, e, blocks)
          \/ \E snap \in PartSnaps(u), e \in Etag, cond \in Condition :
               CommitUpload(u, snap, e, cond)
          \/ AbortUpload(u)
    BY <1>2 DEF UploadOps
  <2>2. CASE \E k \in Key, kind \in Kind : CreateUpload(u, k, kind)
    BY <2>2, CreateUploadInv, KindAssumption
  <2>3. CASE \E p \in PartNo, e \in Etag, blocks \in SUBSET BlockId :
               ReplacePart(u, p, e, blocks)
    BY <2>3, ReplacePartInv
  <2>4. CASE \E snap \in PartSnaps(u), e \in Etag, cond \in Condition :
               CommitUpload(u, snap, e, cond)
    <3>1. PICK snap \in PartSnaps(u), e \in Etag, cond \in Condition :
            CommitUpload(u, snap, e, cond)
      BY <2>4
    <3>2. PICK P \in SUBSET PartNo : snap \in [P -> PartRow]
      BY SnapType DEF StoreInv
    <3> QED
      BY <3>1, <3>2, CommitUploadInv
  <2>5. CASE AbortUpload(u)
    BY <2>5, AbortUploadInv
  <2> QED
    BY <2>1, <2>2, <2>3, <2>4, <2>5
<1>3. CASE ObjectOps
  <2>1. PICK k \in Key, cond \in Condition :
          \/ DeleteObject(k, cond)
          \/ \E src \in Key : \E row \in CopyRows(src) : CopyObject(src, row, k, cond)
    BY <1>3 DEF ObjectOps
  <2>2. CASE DeleteObject(k, cond)
    BY <2>2, DeleteObjectInv
  <2>3. CASE \E src \in Key : \E row \in CopyRows(src) : CopyObject(src, row, k, cond)
    <3>1. PICK src \in Key : \E row \in CopyRows(src) : CopyObject(src, row, k, cond)
      BY <2>3
    <3>2. PICK row \in CopyRows(src) : CopyObject(src, row, k, cond)
      BY <3>1
    <3>3. row.etag \in Etag \cup {NoEtag} /\ row.blocks \in SUBSET BlockId
      BY CopyRowType DEF StoreInv
    <3> QED
      BY <3>2, <3>3, CopyObjectInv
  <2> QED
    BY <2>1, <2>2, <2>3
<1>4. CASE BlockOps
  BY <1>4, AddStagedBlockInv, QueueStaleBlockInv, GcSuccessInv, QueueUpdateInv
     DEF BlockOps
<1>5. CASE Clock
  BY <1>5, QueueUpdateInv, UploadExpiresInv DEF Clock
<1>6. CASE UNCHANGED storeVars
  BY <1>6, StutterInv
<1> QED
  BY <1>1, <1>2, <1>3, <1>4, <1>5, <1>6 DEF StoreNext

\* Whatever stale part lists, block ids and object rows callers present, the
\* transactions of db/ keep every foreign key, keep each row in gc_queue
\* exactly while its ref_count is zero, and keep uploads in existing buckets.
THEOREM StoreInvariant == StoreSpec => []StoreInv
<1>1. StoreInit => StoreInv
  BY InitInv
<1>2. StoreInv /\ [StoreNext]_storeVars => StoreInv'
  BY NextInv
<1> QED
  BY <1>1, <1>2, PTL DEF StoreSpec

\* The counter and the queue agree in every reachable state.
THEOREM CounterAndQueueAgree == StoreSpec => []QueueMatchesCount
<1>1. StoreInv => QueueMatchesCount
  BY DEF StoreInv
<1> QED
  BY <1>1, StoreInvariant, PTL

\* A block the collector has claimed is never given back to an object or a
\* part, nor to another message, before its row is deleted.
THEOREM NoResurrection == StoreSpec => ClaimedUntilDeleted
<1>1. StoreInv /\ [StoreNext]_storeVars
        => [\A b \in BlockId :
              Claimed(b) => \/ Claimed(b)' /\ message'[b] = message[b]
                            \/ state'[b] = "absent"]_storeVars
  BY NextInv DEF ClaimStep
<1> QED
  BY <1>1, StoreInvariant, PTL DEF StoreSpec, ClaimedUntilDeleted

-----------------------------------------------------------------------------
(* Reference counts *)

One(cond) == IF cond THEN 1 ELSE 0

\* A row that is counted too low is not counted too high afterwards.
StaysLow(b) ==
    /\ ref[b] < Cardinality(Holders(b))
    /\ ref'[b] <= Cardinality(Holders(b)')

\* ref_count and the number of holders change alike.
KeepsExcess(b) ==
    /\ IsFiniteSet(Holders(b)')
    /\ \/ ref'[b] + Cardinality(Holders(b)) = ref[b] + Cardinality(Holders(b)')
       \/ StaysLow(b)

----------------------------------------------------------------------------
(* Finite sets.                                                            *)

\* A set has one element more than without a member of it.
LEMMA CountElement ==
    ASSUME NEW S, NEW x, IsFiniteSet(S \ {x})
    PROVE  /\ IsFiniteSet(S)
           /\ Cardinality(S \ {x}) \in Nat
           /\ Cardinality(S) = Cardinality(S \ {x}) + One(x \in S)
<1> DEFINE R == S \ {x}
<1>1. x \notin R /\ S = IF x \in S THEN R \cup {x} ELSE R
  OBVIOUS
<1>2. IsFiniteSet(R)
  OBVIOUS
<1> HIDE DEF R
<1>3. IsFiniteSet(R \cup {x}) /\ Cardinality(R \cup {x}) = Cardinality(R) + 1
  BY <1>1, <1>2, FS_AddElement
<1>4. Cardinality(R) \in Nat
  BY <1>2, FS_CardinalityType
<1>5. IsFiniteSet(S) /\ Cardinality(S) = Cardinality(R) + One(x \in S)
  BY <1>1, <1>2, <1>3, <1>4 DEF One
<1> QED
  BY <1>4, <1>5 DEF R

\* A member counts at most for one.
LEMMA ElementCounted ==
    ASSUME NEW S, IsFiniteSet(S), NEW x
    PROVE  Cardinality(S) \in Nat /\ One(x \in S) <= Cardinality(S)
<1>1. IsFiniteSet(S \ {x})
  BY FS_RemoveElement
<1>2. Cardinality(S \ {x}) \in Nat /\ Cardinality(S) = Cardinality(S \ {x}) + One(x \in S)
  BY <1>1, CountElement
<1> QED
  BY <1>2 DEF One

\* Two sets that differ at most in x.
LEMMA SwapElement ==
    ASSUME NEW S, IsFiniteSet(S), NEW x, NEW T, S \ {x} = T \ {x}
    PROVE  /\ IsFiniteSet(T)
           /\ Cardinality(S) \in Nat /\ Cardinality(T) \in Nat
           /\ Cardinality(T) + One(x \in S) = Cardinality(S) + One(x \in T)
<1>1. IsFiniteSet(S \ {x}) /\ IsFiniteSet(T \ {x})
  BY FS_RemoveElement
<1>2. /\ Cardinality(S) = Cardinality(S \ {x}) + One(x \in S)
      /\ IsFiniteSet(T)
      /\ Cardinality(T) = Cardinality(T \ {x}) + One(x \in T)
      /\ Cardinality(S \ {x}) \in Nat
  BY <1>1, CountElement
<1> QED
  BY <1>2 DEF One

\* Taking a finite subset out of a set.
LEMMA RemoveSubset ==
    ASSUME NEW S, IsFiniteSet(S), NEW U \in SUBSET S
    PROVE  /\ IsFiniteSet(S \ U)
           /\ Cardinality(S) \in Nat /\ Cardinality(U) \in Nat
           /\ Cardinality(S \ U) \in Nat
           /\ Cardinality(S \ U) + Cardinality(U) = Cardinality(S)
<1>1. S \cap U = U
  OBVIOUS
<1>2. IsFiniteSet(S \ U) /\ Cardinality(S \ U) = Cardinality(S) - Cardinality(U)
  BY <1>1, FS_Difference
<1>3. IsFiniteSet(U)
  BY FS_Subset
<1> QED
  BY <1>2, <1>3, FS_CardinalityType

\* The parts of an upload among the holders of a block; their number is what
\* decrement_block is called for.
PartsAmong(u, P, b) == {<<"part", <<u, p>>>> : p \in {p \in P : b \in parts[u][p].blocks}}

\* The parts that list a block are as many as the references they drop.
LEMMA PartsAmongCount ==
    ASSUME NEW u \in Upload, NEW P \in SUBSET PartNo, NEW b \in BlockId
    PROVE  /\ PartsAmong(u, P, b) \in SUBSET Holders(b)
           /\ IsFiniteSet(PartsAmong(u, P, b))
           /\ Cardinality(PartsAmong(u, P, b)) = PartDrops(u, P)[b]
<1> DEFINE A == {p \in P : b \in parts[u][p].blocks}
           T == PartsAmong(u, P, b)
           f == [p \in A |-> <<"part", <<u, p>>>>]
<1>1. IsFiniteSet(A)
  BY PartNoAssumption, FS_Subset
<1>2. f \in Bijection(A, T)
  BY DEF PartsAmong, Bijection, Injection, Surjection, IsInjective
<1>3. ExistsBijection(A, T)
  BY <1>2 DEF ExistsBijection
<1>4. PartDrops(u, P)[b] = Cardinality(A)
  BY DEF PartDrops
<1>5. T \in SUBSET Holders(b)
  BY DEF PartsAmong, Holders
<1> HIDE DEF A, T
<1>6. IsFiniteSet(T) /\ Cardinality(T) = Cardinality(A)
  BY <1>1, <1>3, FS_Bijection
<1> QED
  BY <1>4, <1>5, <1>6 DEF T

\* decrement_block, called once for each of the blocks, stops at zero.
LEMMA DecrementOnce ==
    ASSUME NEW r \in [BlockId -> Nat], NEW blocks, NEW b \in BlockId
    PROVE  Decrement(r, OneEach(blocks))[b] =
             IF One(b \in blocks) <= r[b] THEN r[b] - One(b \in blocks) ELSE 0
<1>1. r[b] \in Nat
  OBVIOUS
<1> QED
  BY <1>1 DEF Decrement, OneEach, One

----------------------------------------------------------------------------
(* The transactions.                                                       *)

\* replace_part uses up the reference an upload has on a block it has staged.
LEMMA ReplacePartCount ==
    ASSUME StoreInv, NEW u \in Upload, NEW p \in PartNo, NEW etag,
           NEW blocks \in SUBSET BlockId, ReplacePart(u, p, etag, blocks), NEW b \in Rows,
           IsFiniteSet(Holders(b))
    PROVE  /\ IsFiniteSet(Holders(b)')
           /\ \/ ref'[b] + Cardinality(Holders(b)) + One(b \in blocks \ parts[u][p].blocks)
                   = ref[b] + Cardinality(Holders(b)')
              \/ StaysLow(b)
<1> DEFINE S == Holders(b)
           x == <<"part", <<u, p>>>>
           old == parts[u][p].blocks
           T == Holders(b)'
<1>1. b \in BlockId /\ ref \in [BlockId -> Nat] /\ ref[b] \in Nat
  BY DEF StoreInv, TypeOK, Rows
<1>2. S \ {x} = T \ {x} /\ (x \in S <=> b \in old) /\ (x \in T <=> b \in blocks)
  <2>1. UNCHANGED objects
    BY DEF ReplacePart
  <2>2. \A v \in Upload, q \in PartNo :
           parts'[v][q].blocks = IF v = u /\ q = p THEN blocks ELSE parts[v][q].blocks
    BY DEF ReplacePart, StoreInv, TypeOK
  <2>3. \A h \in Upload \X PartNo : h # <<u, p>> =>
           parts'[h[1]][h[2]].blocks = parts[h[1]][h[2]].blocks
    BY <2>2
  <2>4. S \ {x} \subseteq T
    BY <2>1, <2>3 DEF Holders
  <2>5. T \ {x} \subseteq S
    BY <2>1, <2>3 DEF Holders
  <2>6. (x \in S <=> b \in old) /\ (x \in T <=> b \in blocks)
    <3>1. /\ <<u, p>> \in Upload \X PartNo
          /\ \A k \in Key : <<"object", k>> # x
          /\ \A h \in Upload \X PartNo : <<"part", h>> = x <=> h = <<u, p>>
      OBVIOUS
    <3>2. x \in S <=> b \in parts[<<u, p>>[1]][<<u, p>>[2]].blocks
      BY <3>1 DEF Holders
    <3>3. x \in T <=> b \in parts'[<<u, p>>[1]][<<u, p>>[2]].blocks
      BY <3>1 DEF Holders
    <3> QED
      BY <2>2, <3>2, <3>3
  <2> QED
    BY <2>4, <2>5, <2>6
<1>3. ref' = Decrement(ref, OneEach(old \ blocks))
  BY DEF ReplacePart, ReplacedBlocks
<1>4. IsFiniteSet(S)
  OBVIOUS
<1> HIDE DEF S, T
<1>5. /\ IsFiniteSet(T) /\ Cardinality(S) \in Nat /\ Cardinality(T) \in Nat
      /\ Cardinality(T) + One(b \in old) = Cardinality(S) + One(b \in blocks)
  BY <1>2, <1>4, SwapElement
<1>6. One(b \in old) <= Cardinality(S)
  BY <1>2, <1>4, ElementCounted DEF One
<1>7. ref'[b] = IF One(b \in old \ blocks) <= ref[b] THEN ref[b] - One(b \in old \ blocks) ELSE 0
  BY <1>1, <1>3, DecrementOnce
<1>8. \/ ref'[b] + Cardinality(S) + One(b \in blocks \ old) = ref[b] + Cardinality(T)
      \/ ref[b] < Cardinality(S) /\ ref'[b] <= Cardinality(T)
  BY <1>1, <1>5, <1>6, <1>7 DEF One
<1> QED
  BY <1>5, <1>8 DEF S, T, StaysLow

\* DeleteObject (Db::delete_object) changes counts and holders alike.
LEMMA DeleteObjectCount ==
    ASSUME StoreInv, NEW k \in Key, NEW cond, DeleteObject(k, cond), NEW b \in Rows,
           IsFiniteSet(Holders(b))
    PROVE  KeepsExcess(b)
<1> DEFINE S == Holders(b)
           x == <<"object", k>>
           old == objects[k].blocks
           T == Holders(b)'
<1>1. b \in BlockId /\ ref \in [BlockId -> Nat] /\ ref[b] \in Nat
  BY DEF StoreInv, TypeOK, Rows
<1>2. S \ {x} = T \ {x} /\ (x \in S <=> b \in old) /\ x \notin T
  BY DEF DeleteObject, StoreInv, TypeOK, Holders, uploadVars, NoObject
<1>3. ref' = Decrement(ref, OneEach(old))
  BY DEF DeleteObject
<1>4. IsFiniteSet(S)
  OBVIOUS
<1> HIDE DEF S, T
<1>5. /\ IsFiniteSet(T) /\ Cardinality(S) \in Nat /\ Cardinality(T) \in Nat
      /\ Cardinality(T) + One(b \in old) = Cardinality(S)
  BY <1>2, <1>4, SwapElement DEF One
<1>6. ref'[b] = IF One(b \in old) <= ref[b] THEN ref[b] - One(b \in old) ELSE 0
  BY <1>1, <1>3, DecrementOnce
<1>7. \/ ref'[b] + Cardinality(S) = ref[b] + Cardinality(T)
      \/ ref[b] < Cardinality(S) /\ ref'[b] <= Cardinality(T)
  BY <1>1, <1>5, <1>6 DEF One
<1> QED
  BY <1>5, <1>7 DEF S, T, KeepsExcess, StaysLow

\* Also when the block is in the overwritten object, or only there.
LEMMA CopyObjectCount ==
    ASSUME StoreInv, NEW src, NEW row, NEW dst \in Key, NEW cond,
           CopyObject(src, row, dst, cond), NEW b \in Rows, IsFiniteSet(Holders(b))
    PROVE  KeepsExcess(b)
<1> DEFINE S == Holders(b)
           x == <<"object", dst>>
           old == objects[dst].blocks
           T == Holders(b)'
           ref1 == Decrement(ref, OneEach(old))
<1>1. b \in BlockId /\ ref \in [BlockId -> Nat] /\ ref[b] \in Nat
  BY DEF StoreInv, TypeOK, Rows
<1>2. PICK i : objects' = [objects EXCEPT ![dst] =
                              [id |-> i, etag |-> row.etag, blocks |-> row.blocks]]
  BY DEF CopyObject
<1>3. S \ {x} = T \ {x} /\ (x \in S <=> b \in old) /\ (x \in T <=> b \in row.blocks)
  BY <1>2 DEF CopyObject, StoreInv, TypeOK, Holders, uploadVars
<1>4. ref'[b] = ref1[b] + One(b \in row.blocks)
  <2>1. ref' = AddReferences(ref1, row.blocks) /\ ref1[b] \in Nat
    BY <1>1 DEF CopyObject, Decrement, OneEach
  <2> QED
    BY <1>1, <2>1 DEF AddReferences, One
<1>5. IsFiniteSet(S)
  OBVIOUS
<1> HIDE DEF S, T
<1>6. /\ IsFiniteSet(T) /\ Cardinality(S) \in Nat /\ Cardinality(T) \in Nat
      /\ Cardinality(T) + One(b \in old) = Cardinality(S) + One(b \in row.blocks)
  BY <1>3, <1>5, SwapElement
<1>7. One(b \in old) <= Cardinality(S)
  BY <1>3, <1>5, ElementCounted DEF One
<1>8. ref1[b] = IF One(b \in old) <= ref[b] THEN ref[b] - One(b \in old) ELSE 0
  BY <1>1, DecrementOnce
<1> HIDE DEF ref1
<1>9. \/ ref'[b] + Cardinality(S) = ref[b] + Cardinality(T)
      \/ ref[b] < Cardinality(S) /\ ref'[b] <= Cardinality(T)
  BY <1>1, <1>4, <1>6, <1>7, <1>8 DEF One
<1> QED
  BY <1>6, <1>9 DEF S, T, KeepsExcess, StaysLow

\* AbortUpload (Db::abort_upload_with_blocks) changes counts and holders alike.
LEMMA AbortUploadCount ==
    ASSUME StoreInv, NEW u \in Upload, AbortUpload(u), NEW b \in Rows,
           IsFiniteSet(Holders(b))
    PROVE  KeepsExcess(b)
<1> DEFINE S == Holders(b)
           U == PartsAmong(u, PartNo, b)
           T == Holders(b)'
           drops == PartDrops(u, PartNo)
<1>1. b \in BlockId /\ ref \in [BlockId -> Nat] /\ ref[b] \in Nat
  BY DEF StoreInv, TypeOK, Rows
<1>2. U \in SUBSET S /\ Cardinality(U) = drops[b]
  BY <1>1, PartsAmongCount
<1>3. T = S \ U
  BY DEF AbortUpload, DeleteUploadRow, StoreInv, TypeOK, Holders, PartsAmong, NoParts, NoPart
<1>4. IsFiniteSet(S)
  OBVIOUS
<1>5. ref'[b] = IF ref[b] > drops[b] THEN ref[b] - drops[b] ELSE 0
  BY <1>1 DEF AbortUpload, Decrement
<1> HIDE DEF S, T, U, drops
<1>6. /\ IsFiniteSet(T) /\ Cardinality(S) \in Nat /\ Cardinality(U) \in Nat
      /\ Cardinality(T) \in Nat /\ Cardinality(T) + Cardinality(U) = Cardinality(S)
  BY <1>2, <1>3, <1>4, RemoveSubset
<1>7. \/ ref'[b] + Cardinality(S) = ref[b] + Cardinality(T)
      \/ ref[b] < Cardinality(S) /\ ref'[b] <= Cardinality(T)
  BY <1>1, <1>2, <1>5, <1>6
<1> QED
  BY <1>6, <1>7 DEF S, T, KeepsExcess, StaysLow

\* The parts of an upload that list a block: the one that is committed, if any,
\* and those that are not.
LEMMA CommittedPartOnce ==
    ASSUME NEW u \in Upload, NEW P \in SUBSET PartNo, NEW snap, DOMAIN snap = P,
           LayoutOk(snap), PartsUnchanged(u, snap), NEW b \in BlockId
    PROVE  /\ PartDrops(u, PartNo \ P)[b] \in Nat
           /\ Cardinality(PartsAmong(u, PartNo, b))
                = PartDrops(u, PartNo \ P)[b] + One(b \in SnapBlocks(snap))
<1> DEFINE U == PartsAmong(u, PartNo, b)
           V == PartsAmong(u, PartNo \ P, b)
<1>1. IsFiniteSet(U) /\ IsFiniteSet(V) /\ Cardinality(V) = PartDrops(u, PartNo \ P)[b]
  BY PartsAmongCount
<1>2. Cardinality(V) \in Nat /\ Cardinality(U) \in Nat
  BY <1>1, FS_CardinalityType
<1>3. CASE b \in SnapBlocks(snap)
  <2>1. PICK p \in P : b \in snap[p].blocks
    BY <1>3 DEF SnapBlocks
  <2> DEFINE y == <<"part", <<u, p>>>>
  <2>2. \A q \in P : b \in parts[u][q].blocks <=> q = p
    BY <2>1 DEF LayoutOk, PartsUnchanged
  <2>3. \A q \in PartNo : <<"part", <<u, q>>>> = y <=> q = p
    OBVIOUS
  <2>4. U \ {y} = V \ {y} /\ y \in U /\ y \notin V
    BY <2>2, <2>3 DEF PartsAmong
  <2> HIDE DEF U, V, y
  <2>5. Cardinality(V) + One(y \in U) = Cardinality(U) + One(y \in V)
    BY <1>1, <2>4, SwapElement
  <2>6. Cardinality(V) + 1 = Cardinality(U)
    BY <1>2, <2>4, <2>5 DEF One
  <2> QED
    BY <1>1, <1>2, <1>3, <2>6 DEF U, V, One
<1>4. CASE b \notin SnapBlocks(snap)
  <2>1. \A q \in P : b \notin parts[u][q].blocks
    BY <1>4 DEF SnapBlocks, PartsUnchanged
  <2>2. U = V
    BY <2>1 DEF PartsAmong
  <2> QED
    BY <1>1, <1>2, <1>4, <2>2 DEF One
<1> QED
  BY <1>3, <1>4

\* The object takes over the references of the committed parts: for a block of
\* one of them the object replaces the part; the clamp at zero and
\* CASE WHEN ref_count < 1 matter only for a row that is counted too low.
LEMMA CommitUploadCount ==
    ASSUME StoreInv, NEW u \in Upload, NEW P \in SUBSET PartNo, NEW snap,
           DOMAIN snap = P, NEW etag, NEW cond, CommitUpload(u, snap, etag, cond),
           NEW b \in Rows, IsFiniteSet(Holders(b))
    PROVE  KeepsExcess(b)
<1> DEFINE k == uploads[u].key
           SB == SnapBlocks(snap)
           old == objects[k].blocks
           x == <<"object", k>>
           S == Holders(b)
           U == PartsAmong(u, PartNo, b)
           T == Holders(b)'
           drops == PartDrops(u, PartNo \ P)
           ref1 == Decrement(ref, OneEach(old))
           ref2 == TakeOver(ref1, SB)
<1>1. /\ b \in BlockId /\ ref \in [BlockId -> Nat] /\ ref[b] \in Nat
      /\ k \in Key /\ CommitUploadOk(u, snap, cond)
  BY DEF StoreInv, TypeOK, Rows, CommitUpload, CommitUploadOk
<1>2. /\ U \in SUBSET S /\ drops[b] \in Nat
      /\ Cardinality(U) = drops[b] + One(b \in SB)
  <2>1. U \in SUBSET S
    BY <1>1, PartsAmongCount
  <2>2. LayoutOk(snap) /\ PartsUnchanged(u, snap)
    BY <1>1 DEF CommitUploadOk
  <2> QED
    BY <1>1, <2>1, <2>2, CommittedPartOnce
<1>3. (S \ U) \ {x} = T \ {x} /\ (x \in S \ U <=> b \in old) /\ (x \in T <=> b \in SB)
  <2>1. PICK i : objects' = [objects EXCEPT ![k] = [id |-> i, etag |-> etag, blocks |-> SB]]
    BY DEF CommitUpload
  <2>2. \A j \in Key : objects'[j].blocks = IF j = k THEN SB ELSE objects[j].blocks
    BY <1>1, <2>1 DEF StoreInv, TypeOK
  <2>3. \A v \in Upload, q \in PartNo :
           parts'[v][q].blocks = IF v = u THEN {} ELSE parts[v][q].blocks
    BY DEF CommitUpload, DeleteUploadRow, StoreInv, TypeOK, NoParts, NoPart
  <2>4. \A h \in Upload \X PartNo : parts'[h[1]][h[2]].blocks =
           IF h[1] = u THEN {} ELSE parts[h[1]][h[2]].blocks
    BY <2>3
  <2>5. U = {<<"part", h>> : h \in {h \in Upload \X PartNo :
                                      h[1] = u /\ b \in parts[h[1]][h[2]].blocks}}
    BY DEF PartsAmong
  <2>6. (x \in S \ U <=> b \in old) /\ (x \in T <=> b \in SB)
    BY <1>1, <2>2 DEF Holders, PartsAmong
  <2>7. (S \ U) \ {x} \subseteq T
    BY <2>2, <2>4, <2>5 DEF Holders
  <2>8. T \ {x} \subseteq S \ U
    BY <2>2, <2>4, <2>5 DEF Holders
  <2> QED
    BY <2>6, <2>7, <2>8
<1>a. ref' = Decrement(ref2, drops)
  BY DEF CommitUpload
<1>6. ref2[b] = IF b \in SB /\ ref1[b] < 1 THEN 1 ELSE ref1[b]
  BY <1>1 DEF TakeOver
<1> HIDE DEF S, T, U, ref2, drops, SB
<1>4. IsFiniteSet(S)
  BY DEF S
<1>5. ref'[b] = IF ref2[b] > drops[b] THEN ref2[b] - drops[b] ELSE 0
  BY <1>1, <1>a DEF Decrement
<1>7. /\ IsFiniteSet(S \ U) /\ Cardinality(S) \in Nat /\ Cardinality(U) \in Nat
      /\ Cardinality(S \ U) \in Nat /\ Cardinality(S \ U) + Cardinality(U) = Cardinality(S)
  BY <1>2, <1>4, RemoveSubset
<1>8. /\ IsFiniteSet(T) /\ Cardinality(T) \in Nat
      /\ Cardinality(T) + One(b \in old) = Cardinality(S \ U) + One(b \in SB)
  BY <1>3, <1>7, SwapElement
<1>9. One(b \in old) <= Cardinality(S \ U)
  <2> DEFINE R == S \ U
  <2>1. IsFiniteSet(R) /\ (x \in R <=> b \in old)
    BY <1>3, <1>7
  <2> HIDE DEF R
  <2>2. Cardinality(R) \in Nat /\ One(x \in R) <= Cardinality(R)
    BY <2>1, ElementCounted
  <2> QED
    BY <2>1, <2>2 DEF One, R
<1>10. ref1[b] = IF One(b \in old) <= ref[b] THEN ref[b] - One(b \in old) ELSE 0
  BY <1>1, DecrementOnce
<1>11. b \in SB => Cardinality(T) >= 1
  <2>1. Cardinality(T) \in Nat /\ One(x \in T) <= Cardinality(T)
    BY <1>8, ElementCounted
  <2> QED
    BY <1>3, <2>1 DEF One
<1> HIDE DEF ref1, old
<1>12. \/ ref'[b] + Cardinality(S) = ref[b] + Cardinality(T)
       \/ ref[b] < Cardinality(S) /\ ref'[b] <= Cardinality(T)
  <2>1. CASE Cardinality(S) <= ref[b]
    <3>1. ref2[b] = ref1[b] /\ ref1[b] = ref[b] - One(b \in old)
      BY <1>1, <1>2, <1>6, <1>7, <1>9, <1>10, <2>1 DEF One
    <3>2. ref'[b] = ref1[b] - drops[b]
      BY <1>1, <1>2, <1>5, <1>7, <1>9, <2>1, <3>1 DEF One
    <3> QED
      BY <1>1, <1>2, <1>7, <1>8, <3>1, <3>2 DEF One
  <2>2. CASE ref[b] < Cardinality(S)
    <3>1. Cardinality(T) = Cardinality(S) - drops[b] - One(b \in old)
      BY <1>2, <1>7, <1>8 DEF One
    <3>2. ref1[b] \in Nat /\ ref1[b] <= Cardinality(S) - One(b \in old)
      BY <1>1, <1>7, <1>9, <1>10, <2>2 DEF One
    <3>3. ref'[b] <= Cardinality(T)
      <4>1. ref2[b] \in Nat /\ (ref2[b] = ref1[b] \/ (ref2[b] = 1 /\ b \in SB))
        BY <1>6, <3>2
      <4>2. CASE ref2[b] = ref1[b]
        BY <1>2, <1>5, <1>7, <1>8, <3>1, <3>2, <4>1, <4>2 DEF One
      <4>3. CASE ref2[b] = 1 /\ b \in SB
        BY <1>2, <1>5, <1>8, <1>11, <4>3
      <4> QED
        BY <4>1, <4>2, <4>3
    <3> QED
      BY <2>2, <3>3
  <2> QED
    BY <1>1, <1>7, <2>1, <2>2
<1> QED
  BY <1>8, <1>12 DEF S, T, KeepsExcess, StaysLow

\* Transactions that list and release nothing.
LEMMA SameHolders ==
    ASSUME UNCHANGED <<objects, parts>>, NEW b
    PROVE  Holders(b)' = Holders(b)
BY DEF Holders

============================================================================
