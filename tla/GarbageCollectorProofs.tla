---------------------- MODULE GarbageCollectorProofs ----------------------
(***************************************************************************)
(* Proofs about GarbageCollector, for every value of its constants.        *)
(*                                                                         *)
(* The argument: a message is deleted only on behalf of a claimed row      *)
(* (DeletingClaimed), a claimed row is never referred to again (ClaimStep, *)
(* proved of each transaction in MetadataStoreProofs), and a new row has a *)
(* new message; so a row that is referred to still has its message, and    *)
(* with a deletion that comes late it is no different.  A cleanup that     *)
(* could not queue its row deletes the message of an unclaimed row all the *)
(* same; but then nobody holds the reference any more (OneReference), so   *)
(* that whoever takes the row has its id from somewhere else.              *)
(***************************************************************************)
EXTENDS GarbageCollector, MetadataStoreProofs

\* What a step may do to the chat.
DeleteStep ==
    \A b \in Rows :
        chat[message[b]] # "deleted" /\ chat'[message[b]] = "deleted"
            => Claimed(b) \/ b \in unqueued

\* The part of the invariant that is about references and history.
HandsInv == OneReference /\ UnqueuedGivenUp /\ HeldIsForeign

\* The empty database and chat satisfy the invariant.
LEMMA GcInitInv == GcInit => GcInv
<1> SUFFICES ASSUME GcInit PROVE GcInv
  OBVIOUS
<1>1. StoreInv
  BY InitInv DEF GcInit
<1>2. Rows = {}
  BY DEF GcInit, StoreInit, Rows
<1>3. DeletionInv
  BY <1>2 DEF GcInit, DeletionInv, MessagesOfRows, UnclaimedPresent, DeletingClaimed,
              ReferencesNameRows, OneReference, UnqueuedGivenUp, HeldIsForeign,
              Deleting, Collecting, Records, Idle
<1>4. GcTypeOK
  BY <1>1, BudgetAssumption DEF StoreInv, GcInit, GcTypeOK, GcTask, Idle, ChatStatus
<1> QED
  BY <1>1, <1>3, <1>4 DEF GcInv

\* What is collected is part of the collector's own state.
LEMMA CollectingSame == UNCHANGED gc => UNCHANGED Collecting
BY DEF Collecting

\* What tasks are about to delete are messages.
LEMMA RecordsTyped ==
    ASSUME GcInv
    PROVE  \A r \in Deleting : r.msg \in Msg
<1>1. \A p \in Process : Records(gc[p]) \subseteq GarbageRecord
  BY DEF GcInv, GcTypeOK, GcTask, Records
<1>2. \A r \in Collecting : r.msg \in Msg
  BY <1>1 DEF Collecting, GarbageRecord
<1> QED
  BY <1>2 DEF Deleting, GcInv, GcTypeOK

----------------------------------------------------------------------------
(* References and history.                                                 *)

\* Cleanups go on with references they had, and none gives up queueing.
CleanupsFrom ==
    \A t \in cleanups' :
        \E s \in cleanups :
            /\ s.id = t.id
            /\ s.msg = t.msg
            /\ t.pc = "untracked" => s.pc = "untracked"

\* What the history remembers of a step.
Recalls ==
    /\ foreign' \in SUBSET BlockId
    /\ unqueued' = unqueued \cap Unclaimed'
    /\ \A b \in Unclaimed' :
          \/ b \in foreign
          \/ ~Held(b) /\ Held(b)' /\ ~\E r \in hands \ hands' : b \in UnclaimedRow(r)
          => b \in foreign'

\* Steps on the store remember.
LEMMA StoreStepRecalls == ASSUME Remember PROVE Recalls
BY DEF Remember, Recalls, Unclaimed, Rows

\* Steps that touch neither store nor history have nothing to remember.
LEMMA UnclaimedSame ==
    ASSUME UNCHANGED storeVars
    PROVE  /\ UNCHANGED <<Rows, Unclaimed, message>>
           /\ \A b \in BlockId : (Claimed(b)' <=> Claimed(b)) /\ (Held(b)' <=> Held(b))
BY DEF storeVars, blockVars, uploadVars, Rows, Unclaimed, Claimed, Held, HeldByObject, HeldByPart

LEMMA OtherStepRecalls ==
    ASSUME GcInv, UNCHANGED <<storeVars, historyVars>>
    PROVE  Recalls
<1>1. foreign' \in SUBSET BlockId /\ unqueued' = unqueued \cap Unclaimed'
  BY UnclaimedSame DEF historyVars, GcInv, GcTypeOK, DeletionInv, UnqueuedGivenUp
<1>2. \A b \in Unclaimed' : b \in BlockId /\ (Held(b)' => Held(b))
  BY UnclaimedSame DEF Unclaimed, Rows
<1> QED
  BY <1>1, <1>2 DEF Recalls, historyVars

\* Whoever takes a row without its reference is remembered, and whoever takes
\* it with the reference leaves none behind.
LEMMA HandsStep ==
    ASSUME GcInv, ClaimStep, KeepsRows, Recalls, hands' \in SUBSET hands, CleanupsFrom
    PROVE  HandsInv'
<1> USE DEF GcInv, DeletionInv
<1>1. \A b \in Rows' : b \in Rows /\ b \in BlockId /\ message'[b] = message[b]
  BY DEF KeepsRows, Rows
<1>2. \A b \in Unclaimed' : b \in Rows' /\ b \in Unclaimed
  BY <1>1 DEF ClaimStep, Unclaimed, Rows
<1>3. \A b, r : b \in UnclaimedRow(r)' => b \in Unclaimed' /\ b \in UnclaimedRow(r)
  BY <1>1, <1>2 DEF UnclaimedRow
<1>4. OneReference'
  BY DEF OneReference, CleanupsFrom
<1>5. UnqueuedGivenUp'
  <2>1. unqueued' \in SUBSET Unclaimed' /\ unqueued' \in SUBSET unqueued
    BY DEF Recalls
  <2>2. \A r \in hands' : UnclaimedRow(r)' \cap unqueued' = {}
    BY <1>3, <2>1 DEF UnqueuedGivenUp
  <2>3. ASSUME NEW t \in cleanups', t.pc = "untracked", NEW b \in UnclaimedRow(t)'
        PROVE  b \in unqueued'
    <3>1. PICK s \in cleanups : s.id = t.id /\ s.msg = t.msg /\ s.pc = "untracked"
      BY <2>3 DEF CleanupsFrom
    <3>2. b \in UnclaimedRow(s)
      BY <1>3, <3>1 DEF UnclaimedRow
    <3> QED
      BY <1>3, <3>1, <3>2 DEF UnqueuedGivenUp, Recalls
  <2> QED
    BY <2>1, <2>2, <2>3 DEF UnqueuedGivenUp
<1>6. HeldIsForeign'
  <2> SUFFICES ASSUME NEW b \in Rows', Held(b)',
                      b \in unqueued' \/ \E r \in (hands \cup cleanups)' : b \in UnclaimedRow(r)'
               PROVE  b \in foreign'
    BY DEF HeldIsForeign
  <2>1. b \in Unclaimed' /\ b \in Rows
    BY <1>1 DEF Unclaimed, Claimed
  <2>2. b \in unqueued \/ \E r \in hands' \cup cleanups : b \in UnclaimedRow(r)
    <3>1. CASE b \in unqueued'
      BY <3>1 DEF Recalls
    <3>2. ASSUME NEW r \in hands', b \in UnclaimedRow(r)' PROVE b \in UnclaimedRow(r)
      BY <1>3, <3>2
    <3>3. ASSUME NEW t \in cleanups', b \in UnclaimedRow(t)'
          PROVE  \E s \in cleanups : b \in UnclaimedRow(s)
      BY <1>3, <3>3 DEF CleanupsFrom, UnclaimedRow
    <3> QED
      BY <3>1, <3>2, <3>3
  <2>3. CASE Held(b)
    BY <2>1, <2>2, <2>3 DEF HeldIsForeign, Recalls
  <2>4. CASE ~Held(b)
    <3>1. ASSUME NEW r \in hands \ hands', b \in UnclaimedRow(r) PROVE FALSE
      BY <2>2, <3>1 DEF UnclaimedRow, OneReference, UnqueuedGivenUp
    <3> QED
      BY <2>1, <2>4, <3>1 DEF Recalls
  <2> QED
    BY <2>3, <2>4
<1> QED
  BY <1>4, <1>5, <1>6 DEF HandsInv

----------------------------------------------------------------------------
(* Two arguments cover every step but the staging of a new block.          *)

\* A step of the store that leaves the chat alone: the collector may take up
\* claimed rows, cleanup tasks act on references they or an upload had.
LEMMA StoreStep ==
    ASSUME GcInv, ClaimStep, KeepsRows, UNCHANGED chat, Recalls,
           \A r \in Deleting' :
               \/ \E s \in Deleting : s.msg = r.msg
               \/ /\ chat[r.msg] # "unsent"
                  /\ \A b \in Rows' : message'[b] = r.msg => Claimed(b)',
           hands' \in SUBSET hands, CleanupsFrom
    PROVE  DeletionInv' /\ DeleteStep
<1> USE DEF GcInv, DeletionInv
<1>1. \A b \in Rows' : /\ b \in Rows /\ b \in BlockId
                       /\ message'[b] = message[b]
                       /\ Claimed(b) => Claimed(b)'
  BY DEF KeepsRows, ClaimStep, Rows
<1>2. MessagesOfRows'
  BY <1>1 DEF MessagesOfRows
<1>3. UnclaimedPresent'
  BY <1>1 DEF UnclaimedPresent, Recalls, Unclaimed
<1>4. DeletingClaimed'
  BY <1>1 DEF DeletingClaimed
<1>5. ReferencesNameRows'
  BY <1>1 DEF ReferencesNameRows, CleanupsFrom
<1>6. DeleteStep
  BY DEF DeleteStep
<1>7. HandsInv'
  BY HandsStep
<1> QED
  BY <1>2, <1>3, <1>4, <1>5, <1>6, <1>7 DEF HandsInv

\* A fault is taken from the budget.
LEMMA FaultBounds == ASSUME budget \in Bounds, Fault PROVE budget' \in Bounds
BY DEF Fault, Bounds

\* The messages that may go: a deletion is late, or a task is at it.
MayGo(m) ==
    \/ chat[m] = "leaving"
    \/ \E r \in Deleting : r.msg = m
    \/ \E t \in cleanups : t.pc = "untracked" /\ t.msg = m

\* No row that could be queued loses its message while it is unclaimed.
LEMMA MayGoUnheld ==
    ASSUME GcInv, NEW m, MayGo(m)
    PROVE  /\ chat[m] # "unsent"
           /\ \A b \in Rows : message[b] = m => Claimed(b) \/ b \in unqueued
<1> USE DEF GcInv, DeletionInv
<1>1. CASE chat[m] = "leaving"
  BY <1>1 DEF UnclaimedPresent
<1>2. CASE \E r \in Deleting : r.msg = m
  BY <1>2 DEF DeletingClaimed
<1>3. ASSUME NEW t \in cleanups, t.pc = "untracked" /\ t.msg = m
      PROVE  /\ chat[m] # "unsent"
             /\ \A b \in Rows : message[b] = m => Claimed(b) \/ b \in unqueued
  BY <1>3 DEF ReferencesNameRows, UnqueuedGivenUp, UnclaimedRow, Unclaimed
<1> QED
  BY <1>1, <1>2, <1>3 DEF MayGo

\* Messages of D, which may go, are deleted, or about to be; the tasks go on
\* with what they had.
LEMMA ChatStep ==
    ASSUME GcInv, UNCHANGED storeVars, NEW D, chat' = Deleted(D) \/ chat' = Leaving(D),
           \A m \in D : MayGo(m),
           \A r \in Deleting' : \E s \in Deleting : s.msg = r.msg /\ s.msg \in Msg,
           \A r \in (hands \cup cleanups)' :
               \E s \in hands \cup cleanups : s.msg = r.msg /\ s.id = r.id /\ s.msg \in Msg,
           unqueued \in SUBSET unqueued', HandsInv'
    PROVE  DeletionInv' /\ DeleteStep /\ chat' \in [Msg -> ChatStatus]
<1> USE DEF GcInv, DeletionInv
<1>1. /\ Rows' = Rows /\ UNCHANGED message
      /\ \A b \in BlockId : Claimed(b)' <=> Claimed(b)
  BY UnclaimedSame
<1>2. /\ chat' \in [Msg -> ChatStatus]
      /\ \A m \in Msg : m \notin D => chat'[m] = chat[m]
      /\ \A m \in Msg : chat[m] # "unsent" => chat'[m] # "unsent"
  BY DEF Deleted, Leaving, GcTypeOK, ChatStatus
<1>3. \A b \in Rows : b \in BlockId
  BY DEF Rows
<1>4. \A b \in Rows : message[b] \in D => Claimed(b) \/ b \in unqueued
  BY MayGoUnheld
<1>5. MessagesOfRows'
  BY <1>1, <1>2 DEF MessagesOfRows
<1>6. UnclaimedPresent'
  BY <1>1, <1>2, <1>3, <1>4 DEF UnclaimedPresent, MessagesOfRows
<1>7. DeletingClaimed'
  BY <1>1, <1>2, <1>3 DEF DeletingClaimed
<1>8. ReferencesNameRows'
  BY <1>1, <1>2 DEF ReferencesNameRows
<1>9. DeleteStep
  BY <1>2, <1>4 DEF DeleteStep, MessagesOfRows
<1> QED
  BY <1>2, <1>5, <1>6, <1>7, <1>8, <1>9 DEF HandsInv

\* The chat is left alone.
LEMMA ChatSame == ASSUME GcInv, UNCHANGED chat PROVE chat' = Deleted({})
BY DEF GcInv, GcTypeOK, Deleted

----------------------------------------------------------------------------
(* Writers.                                                                *)

\* A transaction that neither touches claimed rows nor removes any keeps the invariant.
LEMMA WriterKeeps ==
    ASSUME GcInv, StoreInv', ClaimStep, KeepsRows, Remember,
           UNCHANGED <<chat, cleanups, gc, budget>>,
           hands' \in SUBSET hands, reclaim' \in SUBSET BlockId
    PROVE  GcInv' /\ DeleteStep /\ ClaimStep
<1>1. Deleting' = Deleting
  BY CollectingSame DEF Deleting
<1>2. Recalls /\ CleanupsFrom
  BY StoreStepRecalls DEF CleanupsFrom
<1>3. DeletionInv' /\ DeleteStep
  BY <1>1, <1>2, StoreStep
<1>4. unqueued' \in SUBSET BlockId
  BY <1>2 DEF Recalls, GcInv, GcTypeOK
<1>5. GcTypeOK'
  BY <1>2, <1>4 DEF Recalls, GcInv, GcTypeOK, StoreInv
<1> QED
  BY <1>3, <1>5 DEF GcInv

\* The one step that adds a row: its message was not sent before, so it is
\* none that a task deletes, and no other row has it.
LEMMA StageBlockKeeps ==
    ASSUME GcInv, NEW m \in Msg, StageBlock(m)
    PROVE  GcInv' /\ DeleteStep /\ ClaimStep
<1> USE DEF GcInv, DeletionInv
<1>1. PICK b \in BlockId : /\ AddStagedBlock(b, m)
                           /\ hands' = hands \cup {[id |-> b, msg |-> m]}
  BY DEF StageBlock
<1>2. /\ StoreInv' /\ ClaimStep /\ b \notin Rows
      /\ \A c \in Rows' : c = b \/ (c \in Rows /\ message'[c] = message[c])
  BY <1>1, AddStagedBlockInv
<1>3. message'[b] = m /\ b \in Rows'
  BY <1>1 DEF AddStagedBlock, Rows, StoreInv, TypeOK
<1>4. /\ \A n \in Msg : chat'[n] = IF n = m THEN "present" ELSE chat[n]
      /\ chat' \in [Msg -> ChatStatus]
      /\ chat[m] = "unsent"
  BY DEF StageBlock, GcTypeOK, ChatStatus
<1>5. /\ \A c \in Rows : c \in BlockId
      /\ \A c \in Rows' : c \in BlockId /\ state'[c] # "absent"
  BY DEF Rows
<1>recalls. Recalls
  BY StoreStepRecalls DEF StageBlock
<1>6. MessagesOfRows'
  BY <1>2, <1>3, <1>4 DEF MessagesOfRows
<1>7. UnclaimedPresent'
  BY <1>2, <1>3, <1>4, <1>5, <1>recalls
     DEF UnclaimedPresent, ClaimStep, MessagesOfRows, Recalls, Unclaimed
<1>8. /\ Deleting' = Deleting /\ \A r \in Deleting : r.msg \in Msg
      /\ UNCHANGED cleanups /\ \A r \in hands \cup cleanups : r.msg \in Msg
  BY RecordsTyped, CollectingSame DEF Deleting, StageBlock, GcTypeOK, Reference
<1>9. DeletingClaimed'
  BY <1>2, <1>3, <1>4, <1>5, <1>8 DEF DeletingClaimed, ClaimStep
<1>10. ReferencesNameRows'
  BY <1>1, <1>2, <1>3, <1>4, <1>8 DEF ReferencesNameRows, MessagesOfRows
<1>11. HandsInv'
  <2>1. /\ hands' = hands \cup {[id |-> b, msg |-> m]} /\ cleanups' = cleanups
        /\ \A r \in hands \cup cleanups : r.msg # m
    BY <1>1, <1>4, <1>8 DEF ReferencesNameRows
  <2>2. \A c \in Rows' : /\ c # b => c \in Rows /\ message'[c] = message[c]
                         /\ c \in Unclaimed' /\ c # b => c \in Unclaimed
    BY <1>2, <1>5 DEF ClaimStep, Unclaimed
  <2>3. b \notin unqueued /\ unqueued' = unqueued \cap Unclaimed'
    BY <1>2, <1>recalls DEF UnqueuedGivenUp, Unclaimed, Recalls
  <2>4. \A c \in Unclaimed' : c \in Rows'
    BY DEF Unclaimed
  <2>5. \A r \in hands \cup cleanups : \A c \in UnclaimedRow(r)' : c \in UnclaimedRow(r)
    BY <1>3, <2>1, <2>2, <2>4 DEF UnclaimedRow
  <2>6. OneReference'
    BY <2>1 DEF OneReference
  <2>7. UnqueuedGivenUp'
    <3>1. \A r \in hands' : UnclaimedRow(r)' \cap unqueued' = {}
      <4>1. ASSUME NEW r \in hands', NEW c \in UnclaimedRow(r)', c \in unqueued'
            PROVE  FALSE
        <5>1. r \notin hands
          BY <2>3, <2>5, <4>1 DEF UnqueuedGivenUp
        <5>2. c = b
          BY <2>1, <4>1, <5>1 DEF UnclaimedRow
        <5> QED
          BY <2>3, <4>1, <5>2
      <4> QED
        BY <4>1
    <3>2. \A t \in cleanups' : t.pc = "untracked" => UnclaimedRow(t)' \subseteq unqueued'
      BY <2>1, <2>3, <2>5 DEF UnqueuedGivenUp, UnclaimedRow
    <3> QED
      BY <2>3, <3>1, <3>2 DEF UnqueuedGivenUp
  <2>8. \A c \in BlockId : Held(c)' => Held(c) /\ c \in Rows
    BY <1>1 DEF AddStagedBlock, uploadVars, Held, HeldByObject, HeldByPart, StoreInv,
                References, Rows
  <2>9. HeldIsForeign'
    <3> SUFFICES ASSUME NEW c \in Rows', Held(c)',
                        c \in unqueued' \/ \E r \in (hands \cup cleanups)' : c \in UnclaimedRow(r)'
                 PROVE  c \in foreign'
      BY DEF HeldIsForeign
    <3>1. Held(c) /\ c \in Rows /\ c \in Unclaimed' /\ c # b
      BY <1>2, <1>5, <2>8 DEF Unclaimed, Claimed
    <3>2. c \in unqueued \/ \E r \in hands \cup cleanups : c \in UnclaimedRow(r)
      BY <2>1, <2>3, <2>5, <3>1 DEF UnclaimedRow
    <3> QED
      BY <1>recalls, <3>1, <3>2 DEF HeldIsForeign, Recalls
  <2> QED
    BY <2>6, <2>7, <2>9 DEF HandsInv
<1>12. GcTypeOK'
  <2>1. unqueued' \in SUBSET BlockId /\ foreign' \in SUBSET BlockId
    BY <1>recalls DEF Recalls, GcTypeOK
  <2> QED
    BY <1>1, <1>2, <1>4, <2>1 DEF GcTypeOK, StoreInv, StageBlock, Reference
<1>13. DeleteStep
  BY <1>4 DEF DeleteStep, MessagesOfRows
<1> QED
  BY <1>2, <1>6, <1>7, <1>9, <1>10, <1>11, <1>12, <1>13 DEF HandsInv

\* All transactions of the request handlers are of this kind.
LEMMA WritersKeep ==
    ASSUME GcInv, Writers
    PROVE  GcInv' /\ DeleteStep /\ ClaimStep
<1> USE DEF GcInv
<1>1. CASE \E bkt \in Bucket : bkt \notin buckets /\ NewBucket(bkt)
  <2>1. PICK bkt \in Bucket : NewBucket(bkt)
    BY <1>1
  <2> QED
    BY <2>1, BucketOpsInv, WriterKeeps DEF NewBucket, taskVars, GcTypeOK
<1>2. CASE \E u \in Upload, k \in Key, kind \in Kind : NewUpload(u, k, kind)
  <2>1. PICK u \in Upload, k \in Key, kind \in Kind : NewUpload(u, k, kind)
    BY <1>2
  <2> QED
    BY <2>1, CreateUploadInv, KindAssumption, WriterKeeps
       DEF NewUpload, taskVars, GcTypeOK
<1>3. CASE \E m \in Msg : StageBlock(m)
  BY <1>3, StageBlockKeeps
<1>4. CASE \E u \in Upload, p \in PartNo, e \in Etag, refs \in SUBSET hands :
             AttachPart(u, p, e, refs)
  <2>1. PICK u \in Upload, p \in PartNo, e \in Etag, refs \in SUBSET hands :
          AttachPart(u, p, e, refs)
    BY <1>4
  <2> DEFINE blocks == {r.id : r \in refs}
  <2>2. blocks \in SUBSET BlockId
    BY DEF GcTypeOK, Reference
  <2>3. ReplacePart(u, p, e, blocks) /\ ReplacedBlocks(u, p, blocks) \in SUBSET BlockId
    BY <2>1 DEF AttachPart, ReplacedBlocks, GcTypeOK, TypeOK, PartRow
  <2>4. /\ hands' \in SUBSET hands /\ UNCHANGED <<chat, cleanups, gc, budget>> /\ Remember
        /\ reclaim' = reclaim \cup ReplacedBlocks(u, p, blocks)
    BY <2>1 DEF AttachPart
  <2> HIDE DEF blocks
  <2>5. StoreInv' /\ ClaimStep /\ KeepsRows
    BY <2>2, <2>3, ReplacePartInv
  <2> QED
    BY <2>3, <2>4, <2>5, WriterKeeps DEF GcTypeOK
<1>5. CASE \E u \in Upload : \E snap \in PartSnaps(u), e \in Etag, cond \in Condition :
             Complete(u, snap, e, cond)
  <2>1. PICK u \in Upload : \E snap \in PartSnaps(u), e \in Etag, cond \in Condition :
          Complete(u, snap, e, cond)
    BY <1>5
  <2>2. PICK snap \in PartSnaps(u), e \in Etag, cond \in Condition :
          Complete(u, snap, e, cond)
    BY <2>1
  <2>3. PICK P \in SUBSET PartNo : snap \in [P -> PartRow]
    BY SnapType DEF StoreInv
  <2>4. StoreInv' /\ ClaimStep /\ KeepsRows
    BY <2>2, <2>3, CommitUploadInv DEF Complete
  <2>5. CommitReleases(u, snap) \in SUBSET BlockId
    <3>1. Active(u)
      BY <2>2 DEF Complete, CommitUpload, CommitUploadOk
    <3>2. objects[uploads[u].key].blocks \in SUBSET BlockId
      BY <3>1 DEF StoreInv, TypeOK, ObjectRow
    <3>3. \A p \in PartNo : parts[u][p].blocks \in SUBSET BlockId
      BY DEF StoreInv, TypeOK, PartRow
    <3> QED
      BY <3>2, <3>3 DEF CommitReleases
  <2> QED
    BY <2>2, <2>4, <2>5, WriterKeeps DEF Complete, GcTypeOK
<1>6. CASE \E u \in Upload : Abort(u)
  <2>1. PICK u \in Upload : Abort(u)
    BY <1>6
  <2>2. UploadBlocks(u) \in SUBSET BlockId
    BY DEF UploadBlocks, StoreInv, TypeOK, PartRow
  <2> QED
    BY <2>1, <2>2, AbortUploadInv, WriterKeeps DEF Abort, GcTypeOK
<1>7. CASE \E k \in Key, cond \in Condition : Delete(k, cond)
  <2>1. PICK k \in Key, cond \in Condition : Delete(k, cond)
    BY <1>7
  <2>2. objects[k].blocks \in SUBSET BlockId
    BY DEF StoreInv, TypeOK, ObjectRow
  <2> QED
    BY <2>1, <2>2, DeleteObjectInv, WriterKeeps DEF Delete, GcTypeOK
<1>8. CASE \E k \in Key, cond \in Condition :
             \E src \in Key : \E row \in CopyRows(src) : Copy(src, row, k, cond)
  <2>1. PICK k \in Key, cond \in Condition :
          \E src \in Key : \E row \in CopyRows(src) : Copy(src, row, k, cond)
    BY <1>8
  <2>2. PICK src \in Key : \E row \in CopyRows(src) : Copy(src, row, k, cond)
    BY <2>1
  <2>3. PICK row \in CopyRows(src) : Copy(src, row, k, cond)
    BY <2>2
  <2>4. row.etag \in Etag \cup {NoEtag} /\ row.blocks \in SUBSET BlockId
    BY CopyRowType DEF StoreInv
  <2>5. StoreInv' /\ ClaimStep /\ KeepsRows
    BY <2>3, <2>4, CopyObjectInv DEF Copy
  <2>6. objects[k].blocks \in SUBSET BlockId
    BY DEF StoreInv, TypeOK, ObjectRow
  <2> QED
    BY <2>3, <2>5, <2>6, WriterKeeps DEF Copy, GcTypeOK
<1> QED
  BY <1>1, <1>2, <1>3, <1>4, <1>5, <1>6, <1>7, <1>8 DEF Writers

\* So is the passing of time.
LEMMA TimeKeeps ==
    ASSUME GcInv,
           \/ \E b \in BlockId : BlockTime(b)
           \/ \E u \in Upload : UploadTime(u)
    PROVE  GcInv' /\ DeleteStep /\ ClaimStep
<1>1. StoreInv' /\ ClaimStep /\ KeepsRows
  BY QueueUpdateInv, UploadExpiresInv DEF GcInv, BlockTime, UploadTime
<1> QED
  BY <1>1, WriterKeeps DEF GcInv, GcTypeOK, BlockTime, UploadTime, taskVars

----------------------------------------------------------------------------
(* Cleanup tasks.                                                          *)

CleanupPc == {"queue", "delete", "untracked", "settle", "done"}
CleanupTask == [id : BlockId, msg : Msg, pc : CleanupPc]

\* The tasks move one reference from step to step.
LEMMA CleanupToType ==
    ASSUME GcInv, NEW t \in cleanups, NEW pc \in CleanupPc, CleanupTo(t, pc)
    PROVE  /\ cleanups' \in SUBSET CleanupTask
           /\ \A r \in cleanups' : r \in cleanups \/ (r.id = t.id /\ r.msg = t.msg /\ r.pc = pc)
           /\ pc # "untracked" => CleanupsFrom
<1> DEFINE n == [t EXCEPT !.pc = pc]
<1>1. cleanups \in SUBSET CleanupTask
  BY DEF GcInv, GcTypeOK, CleanupTask, CleanupPc
<1>2. n \in CleanupTask /\ n.id = t.id /\ n.msg = t.msg /\ n.pc = pc
  BY <1>1 DEF CleanupTask
<1>3. cleanups' = (cleanups \ {t}) \cup {n}
  BY DEF CleanupTo
<1> HIDE DEF n
<1>4. cleanups' \in SUBSET CleanupTask
  BY <1>1, <1>2, <1>3
<1>5. \A r \in cleanups' : r \in cleanups \/ (r.id = t.id /\ r.msg = t.msg /\ r.pc = pc)
  BY <1>2, <1>3
<1> QED
  BY <1>4, <1>5 DEF CleanupsFrom

\* Steps of a cleanup task on the store: the reference goes to a step at
\* which the task deletes nothing, or deletes a claimed row's message.
LEMMA CleanupStoreStep ==
    ASSUME GcInv, StoreInv', ClaimStep, KeepsRows, Remember, NEW t \in cleanups,
           NEW pc \in CleanupPc, CleanupTo(t, pc),
           \/ pc = "done"
           \/ pc = "delete" /\ Claimed(t.id)',
           UNCHANGED <<chat, hands, reclaim, gc, budget>>
    PROVE  GcInv' /\ DeleteStep /\ ClaimStep
<1>1. /\ cleanups' \in SUBSET CleanupTask
      /\ \A r \in cleanups' : r \in cleanups \/ (r.id = t.id /\ r.msg = t.msg /\ r.pc = pc)
      /\ CleanupsFrom
  BY CleanupToType
<1>2. /\ chat[t.msg] # "unsent"
      /\ \A b \in Rows' : message'[b] = t.msg => b = t.id
  BY DEF GcInv, DeletionInv, ReferencesNameRows, KeepsRows
<1>3. ASSUME NEW r \in Deleting'
      PROVE  \/ \E s \in Deleting : s.msg = r.msg
             \/ /\ chat[r.msg] # "unsent"
                /\ \A b \in Rows' : message'[b] = r.msg => Claimed(b)'
  <2>1. r \in Deleting \/ (r \in cleanups' /\ r.pc \in {"delete", "settle"})
    BY CollectingSame DEF Deleting
  <2>2. r \in Deleting \/ (r.id = t.id /\ r.msg = t.msg /\ pc = "delete")
    BY <1>1, <2>1 DEF Deleting
  <2> QED
    BY <1>2, <2>2
<1>4. Recalls
  BY StoreStepRecalls
<1>5. DeletionInv' /\ DeleteStep
  BY <1>1, <1>3, <1>4, StoreStep
<1>6. unqueued' \in SUBSET BlockId /\ foreign' \in SUBSET BlockId
  BY <1>4 DEF Recalls, GcInv, GcTypeOK
<1>7. GcTypeOK'
  BY <1>1, <1>6 DEF GcInv, GcTypeOK, StoreInv, CleanupTask, CleanupPc
<1> QED
  BY <1>5, <1>7 DEF GcInv

\* Steps that leave the store alone.  Tasks go on with references they had,
\* messages that may go are deleted or given up.
LEMMA OutsideStep ==
    ASSUME GcInv, UNCHANGED storeVars, NEW D, chat' = Deleted(D) \/ chat' = Leaving(D),
           \A m \in D : MayGo(m),
           \A r \in Deleting' : \E s \in Deleting : s.msg = r.msg,
           \A r \in (hands \cup cleanups)' :
               \E s \in hands \cup cleanups : s.msg = r.msg /\ s.id = r.id,
           unqueued \in SUBSET unqueued', HandsInv',
           hands' \in SUBSET hands, reclaim' \in SUBSET reclaim,
           cleanups' \in SUBSET CleanupTask, gc' \in [Process -> GcTask],
           budget' \in Bounds, unqueued' \in SUBSET BlockId, foreign' \in SUBSET BlockId
    PROVE  GcInv' /\ DeleteStep /\ ClaimStep
<1>1. \A r \in Deleting' : \E s \in Deleting : s.msg = r.msg /\ s.msg \in Msg
  BY RecordsTyped
<1>2. \A r \in (hands \cup cleanups)' :
         \E s \in hands \cup cleanups : s.msg = r.msg /\ s.id = r.id /\ s.msg \in Msg
  BY DEF GcInv, GcTypeOK, Reference
<1>3. DeletionInv' /\ DeleteStep /\ chat' \in [Msg -> ChatStatus]
  BY <1>1, <1>2, ChatStep
<1>4. StoreInv' /\ ClaimStep
  BY StutterInv DEF GcInv
<1>5. GcTypeOK'
  BY <1>3, <1>4 DEF GcInv, GcTypeOK, StoreInv, CleanupTask, CleanupPc
<1> QED
  BY <1>3, <1>4, <1>5 DEF GcInv

\* Of those, the steps without history.
LEMMA OutsideKeeps ==
    ASSUME GcInv, UNCHANGED <<storeVars, historyVars>>, NEW D,
           chat' = Deleted(D) \/ chat' = Leaving(D),
           \A m \in D : MayGo(m),
           \A r \in Deleting' : \E s \in Deleting : s.msg = r.msg,
           CleanupsFrom, hands' \in SUBSET hands, reclaim' \in SUBSET reclaim,
           cleanups' \in SUBSET CleanupTask, gc' \in [Process -> GcTask], budget' \in Bounds
    PROVE  GcInv' /\ DeleteStep /\ ClaimStep
<1>1. ClaimStep /\ KeepsRows
  BY StutterInv DEF GcInv
<1>2. HandsInv'
  BY <1>1, OtherStepRecalls, HandsStep
<1>3. \A r \in (hands \cup cleanups)' :
         \E s \in hands \cup cleanups : s.msg = r.msg /\ s.id = r.id
  BY DEF CleanupsFrom
<1>4. /\ unqueued' = unqueued /\ unqueued' \in SUBSET BlockId
      /\ foreign' \in SUBSET BlockId
  BY DEF historyVars, GcInv, GcTypeOK
<1> QED
  BY <1>2, <1>3, <1>4, OutsideStep

\* Steps that end or fail to find work only forget references.
LEMMA TasksForget ==
    ASSUME GcInv, UNCHANGED <<storeVars, historyVars, chat, gc, budget>>,
           hands' \in SUBSET hands, cleanups' \in SUBSET cleanups,
           reclaim' \in SUBSET reclaim
    PROVE  GcInv' /\ DeleteStep /\ ClaimStep
<1>1. \A r \in Deleting' : r \in Deleting
  BY CollectingSame DEF Deleting
<1>2. CleanupsFrom /\ chat' = Deleted({})
  BY ChatSame DEF CleanupsFrom
<1>3. /\ cleanups' \in SUBSET CleanupTask /\ gc' \in [Process -> GcTask]
      /\ budget' \in Bounds
  BY DEF GcInv, GcTypeOK, CleanupTask, CleanupPc
<1> QED
  BY <1>1, <1>2, <1>3, OutsideKeeps

\* An upload that fails hands its reference on to a cleanup.
LEMMA UploadFailsKeeps ==
    ASSUME GcInv, NEW r \in hands, UploadFails(r)
    PROVE  GcInv' /\ DeleteStep /\ ClaimStep
<1> DEFINE t == [id |-> r.id, msg |-> r.msg, pc |-> "queue"]
<1>1. /\ hands' = hands \ {r} /\ cleanups' = cleanups \cup {t}
      /\ UNCHANGED <<storeVars, chat, reclaim, gc, budget, historyVars>>
  BY DEF UploadFails
<1>2. t \in CleanupTask /\ t.id = r.id /\ t.msg = r.msg /\ t.pc = "queue"
  BY DEF GcInv, GcTypeOK, Reference, CleanupTask, CleanupPc
<1> HIDE DEF t
<1>3. \A s \in Deleting' : s \in Deleting
  BY <1>1, <1>2, CollectingSame DEF Deleting
<1>4. \A s \in (hands \cup cleanups)' :
         \E q \in hands \cup cleanups : q.msg = s.msg /\ q.id = s.id
  BY <1>1, <1>2
<1>5. HandsInv'
  <2> USE DEF GcInv, DeletionInv
  <2>1. \A q : UnclaimedRow(q)' = UnclaimedRow(q)
    BY <1>1, UnclaimedSame DEF UnclaimedRow
  <2>2. UnclaimedRow(t) = UnclaimedRow(r)
    BY <1>2 DEF UnclaimedRow
  <2>3. OneReference'
    BY <1>1, <1>2 DEF OneReference
  <2>4. UnqueuedGivenUp'
    BY <1>1, <1>2, <2>1, UnclaimedSame DEF UnqueuedGivenUp, historyVars
  <2>5. HeldIsForeign'
    BY <1>1, <2>1, <2>2, UnclaimedSame DEF HeldIsForeign, historyVars, Rows
  <2> QED
    BY <2>3, <2>4, <2>5 DEF HandsInv
<1>6. /\ cleanups' \in SUBSET CleanupTask /\ gc' \in [Process -> GcTask]
      /\ budget' \in Bounds /\ unqueued' \in SUBSET BlockId /\ foreign' \in SUBSET BlockId
  BY <1>1, <1>2 DEF historyVars, GcInv, GcTypeOK, CleanupTask, CleanupPc
<1>7. chat' = Deleted({}) /\ unqueued' = unqueued
  BY <1>1, ChatSame DEF historyVars
<1> QED
  BY <1>1, <1>3, <1>4, <1>5, <1>6, <1>7, OutsideStep

\* A cleanup that cannot queue its row is the only one to have its reference.
LEMMA QueueFailsKeeps ==
    ASSUME GcInv, NEW t \in cleanups, CleanupQueueFails(t)
    PROVE  GcInv' /\ DeleteStep /\ ClaimStep
<1>1. /\ CleanupTo(t, "untracked") /\ unqueued' = unqueued \cup UnclaimedRow(t)
      /\ UNCHANGED <<storeVars, chat, hands, reclaim, gc, foreign>>
  BY DEF CleanupQueueFails
<1>2. /\ cleanups' \in SUBSET CleanupTask
      /\ \A r \in cleanups' :
            r \in cleanups \/ (r.id = t.id /\ r.msg = t.msg /\ r.pc = "untracked")
  BY <1>1, CleanupToType DEF CleanupPc
<1>3. \A s \in Deleting' : s \in Deleting
  BY <1>1, <1>2, CollectingSame DEF Deleting
<1>4. \A s \in (hands \cup cleanups)' :
         \E q \in hands \cup cleanups : q.msg = s.msg /\ q.id = s.id
  BY <1>1, <1>2
<1>5. HandsInv'
  <2> USE DEF GcInv, DeletionInv
  <2>1. /\ \A q : UnclaimedRow(q)' = UnclaimedRow(q)
        /\ UnclaimedRow(t) \in SUBSET Unclaimed
    BY <1>1, UnclaimedSame DEF UnclaimedRow
  <2>2. \A r \in cleanups' : \/ r \in cleanups
                             \/ UnclaimedRow(r) = UnclaimedRow(t) /\ r.msg = t.msg
    BY <1>2 DEF UnclaimedRow
  <2>3. OneReference'
    BY <1>1, <1>2 DEF OneReference
  <2>4. UnqueuedGivenUp'
    <3>1. \A r \in hands : UnclaimedRow(r) \cap UnclaimedRow(t) = {}
      BY DEF OneReference, UnclaimedRow
    <3> QED
      BY <1>1, <2>1, <2>2, <3>1, UnclaimedSame DEF UnqueuedGivenUp
  <2>5. HeldIsForeign'
    BY <1>1, <2>1, <2>2, UnclaimedSame DEF HeldIsForeign, Rows
  <2> QED
    BY <2>3, <2>4, <2>5 DEF HandsInv
<1>6. UnclaimedRow(t) \in SUBSET BlockId
  BY DEF UnclaimedRow, Unclaimed, Rows
<1>7. /\ gc' \in [Process -> GcTask] /\ budget' \in Bounds
      /\ unqueued' \in SUBSET BlockId /\ foreign' \in SUBSET BlockId
  BY <1>1, <1>6, FaultBounds DEF CleanupQueueFails, GcInv, GcTypeOK
<1>8. chat' = Deleted({})
  BY <1>1, ChatSame
<1> QED
  BY <1>1, <1>2, <1>3, <1>4, <1>5, <1>7, <1>8, OutsideStep

\* A cleanup task deletes the message of a row it has queued, or could not.
LEMMA CleanupDeletes ==
    ASSUME GcInv, NEW t \in cleanups,
           \/ CleanupDeleteOk(t)
           \/ CleanupDeleteError(t)
           \/ CleanupRestart(t)
    PROVE  GcInv' /\ DeleteStep /\ ClaimStep
<1>1. t \in CleanupTask
  BY DEF GcInv, GcTypeOK, CleanupTask, CleanupPc
<1>2. PICK pc \in {"settle", "done", "queue"} :
        /\ CleanupTo(t, pc)
        /\ pc = "settle" => t.pc = "delete"
  BY DEF CleanupDeleteOk, CleanupDeleteError, CleanupRestart
<1>3. /\ cleanups' \in SUBSET CleanupTask
      /\ \A r \in cleanups' : r \in cleanups \/ (r.id = t.id /\ r.msg = t.msg /\ r.pc = pc)
      /\ CleanupsFrom
  BY <1>2, CleanupToType DEF CleanupPc
<1>4. UNCHANGED <<storeVars, historyVars, hands, reclaim, gc, budget>>
  BY DEF CleanupDeleteOk, CleanupDeleteError, CleanupRestart
<1>5. Asks(t) => MayGo(t.msg)
  BY DEF Asks, MayGo, Deleting
<1>6. PICK D \in {{}, {t.msg}} :
        /\ chat' = Deleted(D) \/ chat' = Leaving(D)
        /\ D # {} => Asks(t)
  BY ChatSame DEF CleanupDeleteOk, CleanupDeleteError, CleanupRestart
<1>7. \A r \in Deleting' : \E s \in Deleting : s.msg = r.msg
  <2>1. \A r \in Deleting' : r \in Deleting \/ (r.msg = t.msg /\ pc = "settle")
    BY <1>2, <1>3, <1>4, CollectingSame DEF Deleting
  <2> QED
    BY <1>2, <2>1 DEF Deleting
<1>8. gc' \in [Process -> GcTask] /\ budget' \in Bounds
  BY <1>4 DEF GcInv, GcTypeOK
<1> QED
  BY <1>3, <1>4, <1>5, <1>6, <1>7, <1>8, OutsideKeeps

\* The cleanup of failed uploads keeps the invariant.
LEMMA CleanupKeeps ==
    ASSUME GcInv, Cleanup
    PROVE  GcInv' /\ DeleteStep /\ ClaimStep
<1>1. CASE \E r \in hands : UploadFails(r) \/ UploadVanishes(r)
  BY <1>1, UploadFailsKeeps, TasksForget DEF UploadVanishes
<1>2. ASSUME NEW t \in cleanups, CleanupQueue(t)
      PROVE  GcInv' /\ DeleteStep /\ ClaimStep
  <2>1. t.id \in BlockId
    BY DEF GcInv, GcTypeOK
  <2>2. CASE QueueStaleOk(t.id)
    <3>1. StoreInv' /\ ClaimStep /\ KeepsRows /\ Claimed(t.id)'
      BY <1>2, <2>1, <2>2, QueueStaleBlockInv DEF GcInv, CleanupQueue
    <3> QED
      BY <1>2, <2>2, <3>1, CleanupStoreStep DEF CleanupQueue, CleanupPc
  <2>3. CASE ~QueueStaleOk(t.id)
    <3>1. /\ UNCHANGED <<storeVars, chat, hands, reclaim, gc, budget>>
          /\ cleanups' = cleanups \ {t} /\ Remember
      BY <1>2, <2>3 DEF CleanupQueue
    <3>2. Recalls /\ CleanupsFrom /\ StoreInv' /\ ClaimStep /\ KeepsRows
      BY <3>1, StoreStepRecalls, StutterInv DEF GcInv, CleanupsFrom
    <3>3. \A r \in Deleting' : r \in Deleting
      BY <3>1, CollectingSame DEF Deleting
    <3>4. DeletionInv' /\ DeleteStep
      BY <3>1, <3>2, <3>3, StoreStep
    <3>5. unqueued' \in SUBSET BlockId
      BY <3>2 DEF Recalls, GcInv, GcTypeOK
    <3>6. GcTypeOK'
      BY <3>1, <3>2, <3>5 DEF GcInv, GcTypeOK, StoreInv, Recalls
    <3> QED
      BY <3>2, <3>4, <3>6 DEF GcInv
  <2> QED
    BY <2>2, <2>3
<1>3. ASSUME NEW t \in cleanups, CleanupSettle(t)
      PROVE  GcInv' /\ DeleteStep /\ ClaimStep
  <2>1. t.id \in BlockId
    BY DEF GcInv, GcTypeOK
  <2>2. StoreInv' /\ ClaimStep /\ KeepsRows
    BY <1>3, <2>1, GcSuccessInv, StutterInv DEF GcInv, CleanupSettle
  <2> QED
    BY <1>3, <2>2, CleanupStoreStep DEF CleanupSettle, CleanupPc
<1>4. ASSUME NEW t \in cleanups, CleanupEnd(t)
      PROVE  GcInv' /\ DeleteStep /\ ClaimStep
  BY <1>4, TasksForget DEF CleanupEnd
<1> QED
  BY <1>1, <1>2, <1>3, <1>4, CleanupDeletes, QueueFailsKeeps DEF Cleanup

----------------------------------------------------------------------------
(* The collector.                                                          *)

\* The task of one process takes a step of its own.
Moves(p) == /\ gc' \in [Process -> GcTask]
            /\ \A q \in Process : q # p => gc'[q] = gc[q]

\* A process that moves on changes only what it is about to delete itself.
LEMMA RecordsDeleting ==
    ASSUME NEW p \in Process, Moves(p), UNCHANGED cleanups
    PROVE  /\ Records(gc[p]) \subseteq Deleting
           /\ \A r \in Deleting' : r \in Deleting \/ r \in Records(gc'[p])
BY DEF Moves, Deleting, Collecting

\* Steps on the store; the records the task goes on with are ones it had, or
\* ones it has just read of claimed rows.
LEMMA GcStoreStep ==
    ASSUME GcInv, StoreInv', ClaimStep, KeepsRows, Recalls,
           UNCHANGED <<chat, hands, cleanups>>,
           budget' \in Bounds, reclaim' \in SUBSET reclaim, NEW p \in Process, Moves(p),
           \A c \in Records(gc'[p]) :
               \/ c \in Records(gc[p])
               \/ \E b \in Rows : message[b] = c.msg /\ Claimed(b)'
    PROVE  GcInv' /\ DeleteStep /\ ClaimStep
<1>1. ASSUME NEW r \in Deleting'
      PROVE  \/ \E s \in Deleting : s.msg = r.msg
             \/ /\ chat[r.msg] # "unsent"
                /\ \A b \in Rows' : message'[b] = r.msg => Claimed(b)'
  <2>1. r \in Deleting \/ \E b \in Rows : message[b] = r.msg /\ Claimed(b)'
    BY RecordsDeleting
  <2>2. CASE r \in Deleting
    BY <2>2
  <2>3. CASE \E b \in Rows : message[b] = r.msg /\ Claimed(b)'
    BY <2>3 DEF GcInv, DeletionInv, MessagesOfRows, KeepsRows
  <2> QED
    BY <2>1, <2>2, <2>3
<1>2. CleanupsFrom
  BY DEF CleanupsFrom
<1>3. DeletionInv' /\ DeleteStep
  BY <1>1, <1>2, StoreStep
<1>4. unqueued' \in SUBSET BlockId /\ foreign' \in SUBSET BlockId
  BY DEF Recalls, GcInv, GcTypeOK
<1>5. GcTypeOK'
  BY <1>4 DEF GcInv, GcTypeOK, StoreInv, Moves
<1> QED
  BY <1>3, <1>5 DEF GcInv

\* Steps that delete, or give up deleting, messages of records the task has.
LEMMA GcChatStep ==
    ASSUME GcInv, UNCHANGED <<storeVars, taskVars, historyVars>>, budget' \in Bounds,
           NEW D, chat' = Deleted(D) \/ chat' = Leaving(D),
           NEW p \in Process, Moves(p), Records(gc'[p]) \in SUBSET Records(gc[p]),
           \A m \in D : \E c \in Records(gc[p]) : c.msg = m
    PROVE  GcInv' /\ DeleteStep /\ ClaimStep
<1> USE DEF taskVars
<1>1. \A r \in Deleting' : r \in Deleting
  BY RecordsDeleting
<1>2. CleanupsFrom
  BY DEF CleanupsFrom
<1>3. \A m \in D : MayGo(m)
  BY RecordsDeleting DEF MayGo
<1>4. cleanups' \in SUBSET CleanupTask /\ gc' \in [Process -> GcTask]
  BY DEF Moves, GcInv, GcTypeOK, CleanupTask, CleanupPc
<1> QED
  BY <1>1, <1>2, <1>3, <1>4, OutsideKeeps

\* A candidate's record is that of a claimed row.
LEMMA CandidateRecords ==
    ASSUME GcInv, NEW b \in BlockId, Candidate(b)
    PROVE  /\ RecordFor(b) \in GarbageRecord
           /\ b \in Rows /\ Claimed(b) /\ message[b] = RecordFor(b).msg
BY DEF GcInv, DeletionInv, MessagesOfRows, Candidate, RecordFor, GarbageRecord, Rows, Claimed

\* Steps that only change the task's own variables, taking up candidates C.
LEMMA GcLocalStep ==
    ASSUME GcInv, UNCHANGED <<storeVars, chat, hands, cleanups, historyVars>>,
           budget' \in Bounds, reclaim' \in SUBSET reclaim, NEW p \in Process, Moves(p),
           \A c \in Records(gc'[p]) :
               \/ c \in Records(gc[p])
               \/ \E b \in BlockId : Candidate(b) /\ c = RecordFor(b)
    PROVE  GcInv' /\ DeleteStep /\ ClaimStep
<1>1. StoreInv' /\ ClaimStep /\ KeepsRows
  BY StutterInv DEF GcInv
<1>2. \A b \in BlockId : Claimed(b)' <=> Claimed(b)
  BY DEF storeVars, blockVars, uploadVars, Claimed, Held, HeldByObject, HeldByPart
<1>3. \A c \in Records(gc'[p]) :
         \/ c \in Records(gc[p])
         \/ \E b \in Rows : message[b] = c.msg /\ Claimed(b)'
  BY <1>2, CandidateRecords
<1> QED
  BY <1>1, <1>3, OtherStepRecalls, GcStoreStep

\* What a step of one process does to its task is what it does to the record.
LEMMA TaskMoves ==
    ASSUME GcInv, NEW p \in Process, NEW task \in GcTask, gc' = [gc EXCEPT ![p] = task]
    PROVE  Moves(p) /\ gc'[p] = task
BY DEF GcInv, GcTypeOK, Moves

\* Every step of a collection keeps the invariant.
LEMMA GcStepKeeps ==
    ASSUME GcInv, NEW p \in Process, GcStep(p)
    PROVE  GcInv' /\ DeleteStep /\ ClaimStep
<1> USE DEF taskVars
<1>0. gc \in [Process -> GcTask] /\ gc[p] \in GcTask /\ budget \in Bounds
  BY DEF GcInv, GcTypeOK
<1>1. ASSUME NEW u \in Upload, GcExpire(p, u)
      PROVE  GcInv' /\ DeleteStep /\ ClaimStep
  <2>1. StoreInv' /\ ClaimStep /\ KeepsRows
    BY <1>1, AbortUploadInv, StutterInv DEF GcInv, GcExpire
  <2>2. Moves(p) /\ Records(gc'[p]) = Records(gc[p])
    BY <1>0, <1>1 DEF GcExpire, GcTask, Records, Moves
  <2> QED
    BY <1>0, <1>1, <2>1, <2>2, GcStoreStep, StoreStepRecalls DEF GcExpire
<1>2. CASE GcScanStale(p)
  <2>1. Moves(p) /\ Records(gc'[p]) = Records(gc[p])
    BY <1>0, <1>2 DEF GcScanStale, GcTask, Records, FirstStale, Moves
  <2> QED
    BY <1>0, <1>2, <2>1, GcLocalStep DEF GcScanStale
<1>3. ASSUME NEW b \in BlockId, GcQueueStale(p, b)
      PROVE  GcInv' /\ DeleteStep /\ ClaimStep
  <2>1. StoreInv' /\ ClaimStep /\ KeepsRows
    BY <1>3, QueueStaleBlockInv, StutterInv DEF GcInv, GcQueueStale
  <2>2. Moves(p) /\ Records(gc'[p]) = Records(gc[p])
    <3>1. PICK n \in {gc[p].processed, gc[p].processed + 1} :
            gc' = [gc EXCEPT ![p] = [gc[p] EXCEPT !.stale = gc[p].stale \ {b}, !.processed = n]]
      <4>1. [gc[p] EXCEPT !.stale = gc[p].stale \ {b}]
              = [gc[p] EXCEPT !.stale = gc[p].stale \ {b}, !.processed = gc[p].processed]
        BY <1>0 DEF GcTask
      <4>2. \/ gc' = [gc EXCEPT ![p] = [gc[p] EXCEPT !.stale = gc[p].stale \ {b},
                                                      !.processed = gc[p].processed + 1]]
            \/ gc' = [gc EXCEPT ![p] = [gc[p] EXCEPT !.stale = gc[p].stale \ {b}]]
        BY <1>0, <1>3 DEF GcQueueStale
      <4> QED
        BY <4>1, <4>2
    <3> DEFINE task == [gc[p] EXCEPT !.stale = gc[p].stale \ {b}, !.processed = n]
    <3>2. n \in Nat /\ gc[p].stale \ {b} \in SUBSET BlockId
      BY <1>0 DEF GcTask
    <3>3. task \in GcTask
      BY <1>0, <3>2 DEF GcTask
    <3>4. task.cands = gc[p].cands /\ task.group = gc[p].group /\ task.current = gc[p].current
      BY <1>0 DEF GcTask
    <3> HIDE DEF task
    <3>5. Moves(p) /\ gc'[p] = task
      BY <3>1, <3>3, TaskMoves DEF task
    <3> QED
      BY <3>4, <3>5 DEF Records
  <2> QED
    BY <1>0, <1>3, <2>1, <2>2, GcStoreStep, StoreStepRecalls DEF GcQueueStale
<1>4. CASE GcLimitReached(p) \/ GcEnd(p)
  <2>1. Moves(p) /\ Records(gc'[p]) = {}
    BY <1>0, <1>4 DEF GcLimitReached, GcEnd, GcTask, Records, Idle, Moves
  <2> QED
    BY <1>0, <1>4, <2>1, GcLocalStep DEF GcLimitReached, GcEnd
<1>5. CASE GcScan(p)
  <2>1. PICK C \in SUBSET {b \in BlockId : Candidate(b)} :
          gc' = [gc EXCEPT ![p] = [Idle EXCEPT !.pc = "sort", !.cands = {RecordFor(b) : b \in C}]]
    BY <1>5, Zenon DEF GcScan
  <2>2. {RecordFor(b) : b \in C} \in SUBSET GarbageRecord
    BY CandidateRecords
  <2>3. Moves(p) /\ Records(gc'[p]) = {RecordFor(b) : b \in C}
    BY <1>0, <2>1, <2>2 DEF GcTask, Records, Idle, Moves
  <2>4. UNCHANGED <<storeVars, chat, taskVars, budget, historyVars>>
    BY <1>5 DEF GcScan
  <2>5. \A c \in Records(gc'[p]) : \E b \in BlockId : Candidate(b) /\ c = RecordFor(b)
    BY <2>3
  <2> QED
    BY SMTT(20), <1>0, <2>3, <2>4, <2>5, GcLocalStep
<1>6. ASSUME NEW c \in gc[p].cands, GcOrphanOld(p, c)
      PROVE  GcInv' /\ DeleteStep /\ ClaimStep
  <2>1. c.id \in BlockId
    BY <1>0 DEF GcTask, GarbageRecord
  <2>2. StoreInv' /\ ClaimStep /\ KeepsRows
    BY <1>6, <2>1, QueueUpdateInv, StutterInv DEF GcInv, GcOrphanOld
  <2>3. Moves(p) /\ Records(gc'[p]) \in SUBSET Records(gc[p])
    <3>1. PICK t : t = [gc[p] EXCEPT !.cands = gc[p].cands \ {c}]
      OBVIOUS
    <3>2. gc' = [gc EXCEPT ![p] = t]
      <4>1. gc' = [gc EXCEPT ![p].cands = @ \ {c}]
        BY <1>6, Zenon DEF GcOrphanOld
      <4> QED
        BY <1>0, <3>1, <4>1
    <3>3. t \in GcTask /\ Records(t) \in SUBSET Records(gc[p])
      <4>1. /\ t.cands = gc[p].cands \ {c} /\ t.group = gc[p].group
            /\ t.current = gc[p].current
        BY <1>0, <3>1 DEF GcTask
      <4>2. gc[p].cands \ {c} \in SUBSET GarbageRecord
        BY <1>0 DEF GcTask
      <4>3. t \in GcTask
        BY <1>0, <3>1, <4>2 DEF GcTask
      <4> QED
        BY <4>1, <4>3 DEF Records
    <3> QED
      BY <1>0, <3>2, <3>3 DEF Moves
  <2> QED
    BY <1>0, <1>6, <2>2, <2>3, GcStoreStep, StoreStepRecalls DEF GcOrphanOld
<1>7. ASSUME NEW backend, GcPickGroup(p, backend)
      PROVE  GcInv' /\ DeleteStep /\ ClaimStep
  <2> DEFINE G == {c \in gc[p].cands : c.msg \in backend}
             pc == IF Cardinality(G) > 1 THEN "batch" ELSE "single"
  <2>1. PICK t : t = [gc[p] EXCEPT !.cands = gc[p].cands \ G, !.group = G, !.pc = pc]
    OBVIOUS
  <2>2. gc' = [gc EXCEPT ![p] = t]
    BY <1>0, <1>7, <2>1 DEF GcPickGroup
  <2>3. G \in SUBSET gc[p].cands /\ pc \in {"batch", "single"}
    OBVIOUS
  <2>4. t \in GcTask /\ Records(t) \in SUBSET Records(gc[p])
    <3> HIDE DEF G, pc
    <3> QED
      BY <1>0, <2>1, <2>3 DEF GcTask, Records
  <2>5. Moves(p) /\ Records(gc'[p]) \in SUBSET Records(gc[p])
    BY <1>0, <2>2, <2>4 DEF Moves
  <2>6. UNCHANGED <<storeVars, chat, taskVars, budget, historyVars>>
    BY <1>7 DEF GcPickGroup
  <2> QED
    BY <1>0, <2>5, <2>6, GcLocalStep
<1>8. CASE GcBatchOk(p) \/ GcBatchError(p)
  <2>1. Moves(p) /\ Records(gc'[p]) \in SUBSET Records(gc[p])
    BY <1>0, <1>8 DEF GcBatchOk, GcBatchError, GcTask, Records, Moves
  <2>2. PICK D \in SUBSET {c.msg : c \in gc[p].group} : chat' = Deleted(D) \/ chat' = Leaving(D)
    BY <1>8 DEF GcBatchOk, GcBatchError
  <2> QED
    BY <1>0, <1>8, <2>1, <2>2, GcChatStep DEF GcBatchOk, GcBatchError, Records
<1>9. ASSUME NEW c \in gc[p].group, GcDeleteOk(p, c) \/ GcDeleteError(p, c)
      PROVE  GcInv' /\ DeleteStep /\ ClaimStep
  <2>1. Moves(p) /\ Records(gc'[p]) \in SUBSET Records(gc[p])
    <3>1. PICK reply \in {"gone", "error"} :
            gc' = [gc EXCEPT ![p] = [gc[p] EXCEPT !.pc = "record", !.current = {c},
                                       !.group = gc[p].group \ {c}, !.reply = reply]]
      BY <1>0, <1>9 DEF GcDeleteOk, GcDeleteError
    <3> QED
      BY <1>0, <3>1 DEF GcTask, Records, Moves
  <2>2. chat' = Deleted({c.msg}) \/ chat' = Leaving({c.msg})
    BY <1>9 DEF GcDeleteOk, GcDeleteError
  <2> QED
    BY <1>0, <1>9, <2>1, <2>2, GcChatStep DEF GcDeleteOk, GcDeleteError, Records
<1>10. ASSUME NEW c \in gc[p].current, GcRecord(p, c)
       PROVE  GcInv' /\ DeleteStep /\ ClaimStep
  <2>1. c.id \in BlockId
    BY <1>0 DEF GcTask, GarbageRecord
  <2>2. GcSuccess(c.id) \/ GcFailure(c.id) \/ UNCHANGED storeVars
    BY <1>10 DEF GcRecord
  <2>3. StoreInv' /\ ClaimStep /\ KeepsRows
    BY <2>1, <2>2, GcSuccessInv, QueueUpdateInv, StutterInv DEF GcInv
  <2>4. Moves(p) /\ Records(gc'[p]) \in SUBSET Records(gc[p])
    <3>1. PICK pc \in {"record", "single", "sort"} :
            gc' = [gc EXCEPT ![p] = [gc[p] EXCEPT !.current = gc[p].current \ {c}, !.pc = pc]]
      BY <1>0, <1>10 DEF GcRecord
    <3> QED
      BY <1>0, <3>1 DEF GcTask, Records, Moves
  <2> QED
    BY <1>0, <1>10, <2>3, <2>4, GcStoreStep, StoreStepRecalls DEF GcRecord
<1> QED
  BY <1>1, <1>2, <1>3, <1>4, <1>5, <1>6, <1>7, <1>8, <1>9, <1>10 DEF GcStep

\* Taking or losing a gc_lock.
LEMMA LockKeeps ==
    ASSUME GcInv, NEW p \in Process,
           \/ p = Server /\ RunGc
           \/ p = Server /\ Reclaim
           \/ GcCommand(p)
           \/ GcDbError(p)
    PROVE  GcInv' /\ DeleteStep /\ ClaimStep
<1> USE DEF taskVars
<1>0. gc \in [Process -> GcTask] /\ budget \in Bounds
  BY DEF GcInv, GcTypeOK
<1>1. CASE StartGc(p) /\ budget' \in Bounds
  <2>1. expired \in SUBSET Upload
    BY DEF GcInv, GcTypeOK, TypeOK
  <2>2. Moves(p) /\ Records(gc'[p]) = {}
    BY <1>0, <1>1, <2>1 DEF StartGc, GcTask, Records, Idle, Moves
  <2> QED
    BY <1>1, <2>2, GcLocalStep DEF StartGc
<1>2. CASE GcDbError(p)
  <2>1. budget' \in Bounds
    BY <1>0, <1>2, FaultBounds DEF GcDbError
  <2>2. Moves(p) /\ Records(gc'[p]) = {}
    BY <1>0, <1>2 DEF GcDbError, GcTask, Records, Idle, Moves
  <2>3. \A m \in GcAsks(p) : \E c \in Records(gc[p]) : c.msg = m
    BY DEF GcAsks, Records
  <2> QED
    BY <1>2, <2>1, <2>2, <2>3, GcChatStep DEF GcDbError
<1>3. CASE p = Server /\ Reclaim
  <2>1. PICK blocks \in SUBSET reclaim : ReclaimBlocksNow(blocks)
    BY <1>3 DEF Reclaim
  <2> DEFINE C == {b \in blocks : Candidate(b)}
  <2>2. C \in SUBSET BlockId
    BY DEF GcInv, GcTypeOK
  <2>3. {RecordFor(b) : b \in C} \in SUBSET GarbageRecord
    BY <2>2, CandidateRecords
  <2>4. Moves(p) /\ Records(gc'[p]) = {RecordFor(b) : b \in C}
    BY <1>0, <1>3, <2>1, <2>3 DEF ReclaimBlocksNow, GcTask, Records, Idle, Moves
  <2> QED
    BY <1>0, <2>1, <2>2, <2>4, GcLocalStep DEF ReclaimBlocksNow
<1>4. GcCommand(p) => budget' \in Bounds
  BY <1>0 DEF GcCommand, Bounds
<1> QED
  BY <1>0, <1>1, <1>2, <1>3, <1>4 DEF RunGc, GcCommand

\* A crash forgets tasks; what they held is found again by the rows.  What
\* they asked Telegram for may happen later.
LEMMA CrashKeeps ==
    ASSUME GcInv, Crash
    PROVE  GcInv' /\ DeleteStep /\ ClaimStep
<1>1. /\ gc' \in [Process -> GcTask]
      /\ \A p \in Process : Records(gc'[p]) \subseteq Records(gc[p])
  BY DEF GcInv, GcTypeOK, GcTask, Idle, Records, Crash
<1>2. \A r \in Deleting' : r \in Deleting
  BY <1>1 DEF Crash, Deleting, Collecting
<1>3. PICK D : /\ chat' = Leaving(D)
               /\ D = GcAsks(Server) \cup {t.msg : t \in {t \in cleanups : Asks(t)}}
  BY DEF Crash
<1>4. \A m \in GcAsks(Server) : MayGo(m)
  BY ProcessAssumption DEF GcAsks, MayGo, Deleting, Collecting, Records
<1>5. \A t \in cleanups : Asks(t) => MayGo(t.msg)
  BY DEF Asks, MayGo, Deleting
<1>6. \A m \in D : MayGo(m)
  BY <1>3, <1>4, <1>5
<1>7. /\ CleanupsFrom /\ hands' \in SUBSET hands /\ reclaim' \in SUBSET reclaim
      /\ cleanups' \in SUBSET CleanupTask /\ UNCHANGED <<storeVars, historyVars>>
  BY DEF Crash, CleanupsFrom
<1>8. budget' \in Bounds
  BY FaultBounds DEF Crash, GcInv, GcTypeOK
<1> QED
  BY <1>1, <1>2, <1>3, <1>6, <1>7, <1>8, OutsideKeeps

\* Telegram deletes what it was asked to.
LEMMA EraseKeeps ==
    ASSUME GcInv, NEW m \in Msg, Erase(m)
    PROVE  GcInv' /\ DeleteStep /\ ClaimStep
<1>1. /\ chat' = Deleted({m})
      /\ UNCHANGED <<storeVars, taskVars, gc, budget, historyVars>>
  BY DEF Erase
<1>2. \A p \in Process : \A n \in GcAsks(p) : MayGo(n)
  BY DEF GcAsks, MayGo, Deleting, Collecting, Records
<1>3. MayGo(m)
  BY <1>2 DEF Erase, MayGo, Asks, Deleting
<1>4. \A r \in Deleting' : r \in Deleting
  BY <1>1, CollectingSame DEF Deleting, taskVars
<1>5. /\ CleanupsFrom /\ hands' \in SUBSET hands /\ reclaim' \in SUBSET reclaim
      /\ cleanups' \in SUBSET CleanupTask /\ gc' \in [Process -> GcTask] /\ budget' \in Bounds
  BY <1>1 DEF CleanupsFrom, taskVars, GcInv, GcTypeOK, CleanupTask, CleanupPc
<1> QED
  BY <1>1, <1>3, <1>4, <1>5, OutsideKeeps

----------------------------------------------------------------------------
(* The specification.                                                      *)

\* Every step keeps the invariant and deletes claimed messages only.
LEMMA GcNextInv ==
    ASSUME GcInv, [GcNext]_gcVars
    PROVE  GcInv' /\ DeleteStep /\ ClaimStep
<1>1. CASE UNCHANGED gcVars
  BY <1>1, TasksForget DEF gcVars, taskVars
<1>2. CASE GcNext
  BY <1>2, ProcessAssumption, WritersKeep, CleanupKeeps, GcStepKeeps, LockKeeps,
     CrashKeeps, EraseKeeps, TimeKeeps DEF GcNext
<1> QED
  BY <1>1, <1>2

\* The inductive invariant holds with any number of blocks, uploads, tasks and
\* faults, for callers with arbitrarily stale data, and whatever requests to
\* Telegram come late.
THEOREM GcInvariant == GcSpec => []GcInv
<1>1. GcInit => GcInv
  BY GcInitInv
<1>2. GcInv /\ [GcNext]_gcVars => GcInv'
  BY GcNextInv
<1> QED
  BY <1>1, <1>2, PTL DEF GcSpec

\* No data loss: the message of a block that an object or a part lists is in
\* the chat, whatever collector, reclaiming tasks, cleanups and writers do; but
\* for a row that was taken with an id out of date and whose own upload failed
\* with its cleanup unable to queue the row.
THEOREM NoDataLoss == GcSpec => []LiveMessagesPresent
<1>1. GcInv => LiveMessagesPresent
  <2> SUFFICES ASSUME GcInv, NEW b \in BlockId, Held(b), chat[message[b]] # "present"
               PROVE  b \in unqueued \cap foreign
    BY DEF LiveMessagesPresent
  <2> USE DEF GcInv, DeletionInv
  <2>1. b \in Rows /\ ~Claimed(b)
    BY DEF StoreInv, References, Rows, Claimed
  <2>2. b \in unqueued
    BY <2>1 DEF UnclaimedPresent
  <2> QED
    BY <2>1, <2>2 DEF HeldIsForeign
<1> QED
  BY <1>1, GcInvariant, PTL

\* A message is deleted only while its row, if it has one, is claimed, or could
\* not be queued by the cleanup of its upload.
THEOREM OnlyClaimedDeleted == GcSpec => DeletesOnlyClaimed
<1>1. GcInv /\ [GcNext]_gcVars
        => [\A b \in Rows :
               chat[message[b]] # "deleted" /\ chat'[message[b]] = "deleted"
                   => Claimed(b) \/ b \in unqueued]_gcVars
  BY GcNextInv DEF DeleteStep
<1> QED
  BY <1>1, GcInvariant, PTL DEF GcSpec, DeletesOnlyClaimed

----------------------------------------------------------------------------
(* Of the two liveness properties one is enough.                           *)

\* A claimed block stays claimed until its row is deleted.
LEMMA ClaimedStays ==
    ASSUME GcInv, [GcNext]_gcVars, NEW b \in BlockId, Claimed(b)
    PROVE  Claimed(b)' \/ queue'[b] = "none"
BY GcNextInv DEF ClaimStep, GcInv, StoreInv, References

\* If no unreferenced block stays, then every entry of gc_queue is dealt with:
\* a claimed block is not referred to again, so that it goes, or is marked.
THEOREM QueuedFollowsCollected == GcSpec /\ GarbageIsCollected => QueuedIsProcessed
<1> SUFFICES ASSUME NEW b \in BlockId
             PROVE  GcSpec /\ GarbageIsCollected
                      => (queue[b] = "due" /\ ~Held(b) ~> queue[b] \in {"none", "orphan"})
  BY DEF QueuedIsProcessed
<1> DEFINE Due == queue[b] = "due" /\ ~Held(b)
           Done == queue[b] \in {"none", "orphan"}
<1>1. GarbageIsCollected => (Unreferenced(b) ~> ~Unreferenced(b))
  BY DEF GarbageIsCollected
<1>2. GcInv => (Due => Claimed(b)) /\ (Claimed(b) /\ ~Unreferenced(b) => Done)
  BY DEF GcInv, StoreInv, References, Claimed, Unreferenced, Rows
<1>3. GcInv /\ [GcNext]_gcVars => (Claimed(b) => Claimed(b)' \/ Done')
  BY ClaimedStays
<1> QED
  BY <1>1, <1>2, <1>3, GcInvariant, PTL DEF GcSpec

============================================================================
