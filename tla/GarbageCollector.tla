-------------------------- MODULE GarbageCollector --------------------------
(***************************************************************************)
(* The garbage collector of tg2s3 (src/src/engine/gc.rs), the cleanup of   *)
(* failed uploads (src/src/transfer/cleanup.rs) and the writers they race  *)
(* with, on top of the transactions of MetadataStore.                      *)
(*                                                                         *)
(* Three kinds of task delete Telegram messages: run_gc (the interval loop *)
(* and the gc command), reclaim_blocks_now (spawned by every request that  *)
(* releases blocks) and cleanup_untracked_block (spawned or awaited by a   *)
(* failed upload).  The first two exclude each other with gc_lock, but the *)
(* gc command is a process of its own and has a lock of its own; the third *)
(* takes no lock.  Each reads a (block id, message id) pair, deletes the   *)
(* message, and then records the outcome under the block id; every await   *)
(* between those steps lets the others and the writers run.                *)
(***************************************************************************)
EXTENDS MetadataStore

CONSTANTS BotApiMsg,       \* messages stored with the Bot API backend
          GcLimit,         \* the limit run_gc is called with
          Process,         \* the server, and processes of the gc command
          Server,
          Budget           \* bounds on what a behaviour explores

ASSUME BotApiAssumption == BotApiMsg \subseteq Msg
ASSUME GcLimitAssumption == GcLimit \in Nat \ {0}
ASSUME ProcessAssumption == Server \in Process

\* Crashes and database errors, gc commands, whether uploads fail, and whether
\* rows and uploads age.
Bounds == [faults : Nat, commands : Nat, failures : BOOLEAN, aging : BOOLEAN]
ASSUME BudgetAssumption == Budget \subseteq Bounds

VARIABLES
    chat,       \* the storage chat: per message "unsent", "present", "deleted",
                \* or "leaving": there, but a deletion nobody waits for any more
                \* may still be carried out
    hands,      \* references (id and message) running uploads hold
    reclaim,    \* block ids handed to reclaim_blocks tasks that wait for gc_lock
    cleanups,   \* cleanup tasks: a reference and the step it is at
    gc,         \* per process, the task that holds its gc_lock, or Idle
    budget,     \* what is left of the bounds
    unqueued,   \* history: unclaimed rows whose message a cleanup deletes
                \* although it could not queue them
    foreign     \* history: unclaimed rows a part or an object took without the
                \* reference their upload got

taskVars == <<hands, reclaim, cleanups>>
historyVars == <<unqueued, foreign>>
gcVars == <<storeVars, chat, taskVars, gc, budget, historyVars>>

ChatStatus == {"unsent", "present", "leaving", "deleted"}

Reference == [id : BlockId, msg : Msg]

\* GarbageRecord as the collector read it; old: past the Bot API's 48 hours.
GarbageRecord == [id : BlockId, msg : Msg, old : BOOLEAN]

Idle == [pc |-> "idle", uploads |-> {}, stale |-> {}, processed |-> 0,
         cands |-> {}, group |-> {}, current |-> {}, reply |-> "none"]

\* The locals of the task: expired uploads and stale blocks still to visit,
\* candidates read, those of the backend being served, and those whose
\* deletion is answered but not recorded.
GcTask == [pc : {"idle", "expire", "stale", "sort", "batch", "single", "record"},
           uploads : SUBSET Upload, stale : SUBSET BlockId, processed : Nat,
           cands : SUBSET GarbageRecord, group : SUBSET GarbageRecord,
           current : SUBSET GarbageRecord, reply : {"none", "gone", "error"}]

GcTypeOK ==
    /\ TypeOK
    /\ chat \in [Msg -> ChatStatus]
    /\ hands \in SUBSET Reference
    /\ reclaim \in SUBSET BlockId
    /\ cleanups \in SUBSET [id : BlockId, msg : Msg,
                            pc : {"queue", "delete", "untracked", "settle", "done"}]
    /\ gc \in [Process -> GcTask]
    /\ budget \in Bounds
    /\ unqueued \in SUBSET BlockId
    /\ foreign \in SUBSET BlockId

GcInit ==
    /\ StoreInit
    /\ chat = [m \in Msg |-> "unsent"]
    /\ hands = {}
    /\ reclaim = {}
    /\ cleanups = {}
    /\ gc = [p \in Process |-> Idle]
    /\ budget \in Budget
    /\ unqueued = {}
    /\ foreign = {}

\* A crash or a database error
Fault ==
    /\ budget.faults > 0
    /\ budget' = [budget EXCEPT !.faults = @ - 1]

Deleted(msgs) == [m \in Msg |-> IF m \in msgs THEN "deleted" ELSE chat[m]]

\* Nobody waits for these deletions any more: they failed, or were given up.
Leaving(msgs) ==
    [m \in Msg |-> IF m \in msgs /\ chat[m] = "present" THEN "leaving" ELSE chat[m]]

\* Rows the collector has not claimed, of them that of a reference, if any
Unclaimed == {b \in Rows : ~Claimed(b)}
UnclaimedRow(r) == {b \in Unclaimed : b = r.id /\ message[b] = r.msg}

\* History of a step on the store: foreign are the rows it lets a part or an
\* object take, but for those taken with their reference; a row that is
\* claimed, or deleted, is forgotten.
Remember ==
    LET own == UNION {UnclaimedRow(r) : r \in hands \ hands'}
        taken == {b \in BlockId : ~Held(b) /\ Held(b)'}
    IN  /\ foreign' = (foreign \cup (taken \ own)) \cap Unclaimed'
        /\ unqueued' = unqueued \cap Unclaimed'

----------------------------------------------------------------------------
(* Writers: the calls requests make, each with the blocks it releases.     *)

\* upload_one: Telegram accepted the document and the row was inserted.
StageBlock(m) ==
    /\ chat[m] = "unsent"
    /\ chat' = [chat EXCEPT ![m] = "present"]
    /\ \E b \in BlockId :
         /\ AddStagedBlock(b, m)
         /\ hands' = hands \cup {[id |-> b, msg |-> m]}
    /\ UNCHANGED <<reclaim, cleanups, gc, budget>>
    /\ Remember

\* replace_part for the references of one upload
AttachPart(u, p, etag, refs) ==
    LET blocks == {r.id : r \in refs}
    IN  /\ \A r, s \in refs : r.id = s.id => r = s
        /\ ReplacePart(u, p, etag, blocks)
        /\ hands' = hands \ refs
        /\ reclaim' = reclaim \cup ReplacedBlocks(u, p, blocks)
        /\ UNCHANGED <<chat, cleanups, gc, budget>>
        /\ Remember

Complete(u, snap, etag, cond) ==
    /\ CommitUpload(u, snap, etag, cond)
    /\ reclaim' = reclaim \cup CommitReleases(u, snap)
    /\ UNCHANGED <<chat, hands, cleanups, gc, budget>>
    /\ Remember

Abort(u) ==
    /\ AbortUpload(u)
    /\ reclaim' = reclaim \cup UploadBlocks(u)
    /\ UNCHANGED <<chat, hands, cleanups, gc, budget>>
    /\ Remember

Delete(k, cond) ==
    /\ DeleteObject(k, cond)
    /\ reclaim' = reclaim \cup objects[k].blocks
    /\ UNCHANGED <<chat, hands, cleanups, gc, budget>>
    /\ Remember

Copy(src, row, dst, cond) ==
    /\ CopyObject(src, row, dst, cond)
    /\ reclaim' = reclaim \cup objects[dst].blocks
    /\ UNCHANGED <<chat, hands, cleanups, gc, budget>>
    /\ Remember

NewUpload(u, k, kind) ==
    /\ CreateUpload(u, k, kind)
    /\ UNCHANGED <<chat, taskVars, gc, budget>>
    /\ Remember

NewBucket(bkt) ==
    /\ CreateBucket(bkt)
    /\ UNCHANGED <<chat, taskVars, gc, budget>>
    /\ Remember

BlockTime(b) ==
    /\ \/ budget.aging /\ BlockAges(b)
       \/ RetryFallsDue(b)
    /\ UNCHANGED <<chat, taskVars, gc, budget>>
    /\ Remember

UploadTime(u) ==
    /\ budget.aging
    /\ UploadExpires(u)
    /\ UNCHANGED <<chat, taskVars, gc, budget>>
    /\ Remember

----------------------------------------------------------------------------
(* Cleanup of failed uploads; it does not take gc_lock.                    *)

\* The upload or its replace_part failed: its references are cleaned up.
UploadFails(r) ==
    /\ budget.failures
    /\ hands' = hands \ {r}
    /\ cleanups' = cleanups \cup {[id |-> r.id, msg |-> r.msg, pc |-> "queue"]}
    /\ UNCHANGED <<storeVars, chat, reclaim, gc, budget, historyVars>>

\* The request is dropped after the guard was disarmed: nobody cleans up.
UploadVanishes(r) ==
    /\ hands' = hands \ {r}
    /\ UNCHANGED <<storeVars, chat, reclaim, cleanups, gc, budget, historyVars>>

CleanupTo(t, pc) == cleanups' = (cleanups \ {t}) \cup {[t EXCEPT !.pc = pc]}

\* queue_stale_block answers true; false ends the task.
CleanupQueue(t) ==
    /\ t.pc = "queue"
    /\ IF QueueStaleOk(t.id)
       THEN QueueStaleBlock(t.id) /\ CleanupTo(t, "delete")
       ELSE UNCHANGED storeVars /\ cleanups' = cleanups \ {t}
    /\ UNCHANGED <<chat, hands, reclaim, gc, budget>>
    /\ Remember

\* queue_stale_block failed: the message is deleted all the same.
CleanupQueueFails(t) ==
    /\ t.pc = "queue"
    /\ Fault
    /\ CleanupTo(t, "untracked")
    /\ unqueued' = unqueued \cup UnclaimedRow(t)
    /\ UNCHANGED <<storeVars, chat, hands, reclaim, gc, foreign>>

\* A cleanup that waits for Telegram's answer
Asks(t) == t.pc \in {"delete", "untracked"}

\* Telegram deleted the message or answered that there is none.
CleanupDeleteOk(t) ==
    /\ Asks(t)
    /\ chat' = Deleted({t.msg})
    /\ CleanupTo(t, IF t.pc = "delete" THEN "settle" ELSE "done")
    /\ UNCHANGED <<storeVars, hands, reclaim, gc, budget, historyVars>>

\* The call failed; the message may be gone, or go later, all the same.
CleanupDeleteError(t) ==
    /\ Asks(t)
    /\ chat' = Leaving({t.msg})
    /\ CleanupTo(t, "done")
    /\ UNCHANGED <<storeVars, hands, reclaim, gc, budget, historyVars>>

CleanupSettle(t) ==
    /\ t.pc = "settle"
    /\ IF GcSuccessOk(t.id) THEN GcSuccess(t.id) ELSE UNCHANGED storeVars
    /\ CleanupTo(t, "done")
    /\ UNCHANGED <<chat, hands, reclaim, gc, budget>>
    /\ Remember

\* The last reference of the list is done: clear() and disarm.
CleanupEnd(t) ==
    /\ t.pc = "done"
    /\ cleanups' = cleanups \ {t}
    /\ UNCHANGED <<storeVars, chat, hands, reclaim, gc, budget, historyVars>>

\* The future awaiting cleanup() is dropped before clear(), while it awaits
\* Telegram or gc_success or works on a later reference: the guard's Drop starts
\* over with every registered reference, those that are done included.
CleanupRestart(t) ==
    /\ t.pc # "queue"
    /\ chat' = IF Asks(t) THEN Leaving({t.msg}) ELSE chat
    /\ CleanupTo(t, "queue")
    /\ UNCHANGED <<storeVars, hands, reclaim, gc, budget, historyVars>>

----------------------------------------------------------------------------
(* run_gc and reclaim_blocks_now.                                          *)

RecordFor(b) ==
    [id |-> b, msg |-> message[b], old |-> age[b] = 2 /\ message[b] \in BotApiMsg]

\* stale_blocks: ORDER BY created_at, id LIMIT limit
FirstStale(limit) ==
    LET S == {b \in BlockId : Stale(b)}
    IN  {b \in S : Cardinality({c \in S : c < b}) < limit}

StartGc(p) ==
    /\ gc[p].pc = "idle"
    /\ gc' = [gc EXCEPT ![p] = [Idle EXCEPT !.pc = "expire", !.uploads = expired]]
    /\ UNCHANGED <<storeVars, chat, taskVars, historyVars>>

\* The interval loop of the server
RunGc == StartGc(Server) /\ UNCHANGED budget

\* The gc command: a process of its own, with a gc_lock of its own
GcCommand(p) ==
    /\ p # Server
    /\ budget.commands > 0
    /\ budget' = [budget EXCEPT !.commands = @ - 1]
    /\ StartGc(p)

\* expire_uploads
GcExpire(p, u) ==
    /\ gc[p].pc = "expire"
    /\ u \in gc[p].uploads
    /\ IF Active(u) THEN AbortUpload(u) ELSE UNCHANGED storeVars
    /\ gc' = [gc EXCEPT ![p].uploads = @ \ {u}]
    /\ UNCHANGED <<chat, taskVars, budget>>
    /\ Remember

GcScanStale(p) ==
    /\ gc[p].pc = "expire"
    /\ gc[p].uploads = {}
    /\ gc' = [gc EXCEPT ![p].pc = "stale", ![p].stale = FirstStale(GcLimit)]
    /\ UNCHANGED <<storeVars, chat, taskVars, budget, historyVars>>

GcQueueStale(p, b) ==
    /\ gc[p].pc = "stale"
    /\ b \in gc[p].stale
    /\ \A c \in gc[p].stale : b <= c
    /\ IF QueueStaleOk(b)
       THEN /\ QueueStaleBlock(b)
            /\ gc' = [gc EXCEPT ![p].stale = @ \ {b}, ![p].processed = @ + 1]
       ELSE /\ UNCHANGED storeVars
            /\ gc' = [gc EXCEPT ![p].stale = @ \ {b}]
    /\ UNCHANGED <<chat, taskVars, budget>>
    /\ Remember

\* Nothing is left of the limit: the pass ends before it reads candidates.
GcLimitReached(p) ==
    /\ gc[p].pc = "stale"
    /\ gc[p].stale = {}
    /\ gc[p].processed >= GcLimit
    /\ gc' = [gc EXCEPT ![p] = Idle]
    /\ UNCHANGED <<storeVars, chat, taskVars, budget, historyVars>>

\* gc_candidates: at most the remaining number of them
GcScan(p) ==
    LET remaining == GcLimit - gc[p].processed
        all == {b \in BlockId : Candidate(b)}
    IN  /\ gc[p].pc = "stale"
        /\ gc[p].stale = {}
        /\ remaining > 0
        /\ \E C \in SUBSET all :
             /\ IF Cardinality(all) <= remaining
                THEN C = all ELSE Cardinality(C) = remaining
             /\ gc' = [gc EXCEPT ![p] = [Idle EXCEPT !.pc = "sort", !.cands = {RecordFor(b) : b \in C}]]
        /\ UNCHANGED <<storeVars, chat, taskVars, budget, historyVars>>

\* Tasks that got gc_lock look their blocks up one by one with gc_candidate.
ReclaimBlocksNow(blocks) ==
    /\ gc[Server].pc = "idle"
    /\ reclaim' = reclaim \ blocks
    /\ gc' = [gc EXCEPT ![Server] = [Idle EXCEPT !.pc = "sort",
                !.cands = {RecordFor(b) : b \in {b \in blocks : Candidate(b)}}]]
    /\ UNCHANGED <<storeVars, chat, hands, cleanups, budget, historyVars>>

GcOrphanOld(p, c) ==
    /\ gc[p].pc = "sort"
    /\ c \in gc[p].cands
    /\ c.old
    /\ IF queue[c.id] # "none" THEN GcOrphan(c.id) ELSE UNCHANGED storeVars
    /\ gc' = [gc EXCEPT ![p].cands = @ \ {c}]
    /\ UNCHANGED <<chat, taskVars, budget>>
    /\ Remember

\* The candidates of one backend; a batch call when there are several.
GcPickGroup(p, backend) ==
    LET group == {c \in gc[p].cands : c.msg \in backend}
    IN  /\ gc[p].pc = "sort"
        /\ \A c \in gc[p].cands : ~c.old
        /\ group # {}
        /\ gc' = [gc EXCEPT ![p].cands = @ \ group, ![p].group = group,
                    ![p].pc = IF Cardinality(group) > 1 THEN "batch" ELSE "single"]
        /\ UNCHANGED <<storeVars, chat, taskVars, budget, historyVars>>

GcEnd(p) ==
    /\ gc[p].pc = "sort"
    /\ gc[p].cands = {}
    /\ gc' = [gc EXCEPT ![p] = Idle]
    /\ UNCHANGED <<storeVars, chat, taskVars, budget, historyVars>>

GcBatchOk(p) ==
    /\ gc[p].pc = "batch"
    /\ chat' = Deleted({c.msg : c \in gc[p].group})
    /\ gc' = [gc EXCEPT ![p].pc = "record", ![p].current = gc[p].group, ![p].group = {},
                ![p].reply = "gone"]
    /\ UNCHANGED <<storeVars, taskVars, budget, historyVars>>

\* Some chunk failed, or its answer was lost: fall back to single deletions.
GcBatchError(p) ==
    /\ gc[p].pc = "batch"
    /\ chat' = Leaving({c.msg : c \in gc[p].group})
    /\ gc' = [gc EXCEPT ![p].pc = "single"]
    /\ UNCHANGED <<storeVars, taskVars, budget, historyVars>>

\* Deleted, or "message not found", which counts as deleted.
GcDeleteOk(p, c) ==
    /\ gc[p].pc = "single"
    /\ c \in gc[p].group
    /\ chat' = Deleted({c.msg})
    /\ gc' = [gc EXCEPT ![p].pc = "record", ![p].current = {c}, ![p].group = @ \ {c},
                ![p].reply = "gone"]
    /\ UNCHANGED <<storeVars, taskVars, budget, historyVars>>

GcDeleteError(p, c) ==
    /\ gc[p].pc = "single"
    /\ c \in gc[p].group
    /\ chat' = Leaving({c.msg})
    /\ gc' = [gc EXCEPT ![p].pc = "record", ![p].current = {c}, ![p].group = @ \ {c},
                ![p].reply = "error"]
    /\ UNCHANGED <<storeVars, taskVars, budget, historyVars>>

\* gc_success or gc_failure for one record
GcRecord(p, c) ==
    LET rest == gc[p].current \ {c}
    IN  /\ gc[p].pc = "record"
        /\ c \in gc[p].current
        /\ CASE gc[p].reply = "gone" /\ GcSuccessOk(c.id) -> GcSuccess(c.id)
             [] gc[p].reply = "error" /\ queue[c.id] # "none" -> GcFailure(c.id)
             [] OTHER -> UNCHANGED storeVars
        /\ gc' = [gc EXCEPT ![p].current = rest,
                    ![p].pc = CASE rest # {} -> "record"
                             [] rest = {} /\ gc[p].group # {} -> "single"
                             [] OTHER -> "sort"]
        /\ UNCHANGED <<chat, taskVars, budget>>
        /\ Remember

\* The messages the task may have asked Telegram to delete
GcAsks(p) == IF gc[p].pc \in {"batch", "single"} THEN {c.msg : c \in gc[p].group} ELSE {}

\* A database error ends the task (the ? operator); gc_lock is released.  So is
\* that of a gc command that stops.
GcDbError(p) ==
    /\ gc[p].pc # "idle"
    /\ Fault
    /\ chat' = Leaving(GcAsks(p))
    /\ gc' = [gc EXCEPT ![p] = Idle]
    /\ UNCHANGED <<storeVars, taskVars, historyVars>>

\* The server stops and starts again: only SQLite and the chat survive, and the
\* requests Telegram has received.
Crash ==
    /\ Fault
    /\ hands' = {}
    /\ reclaim' = {}
    /\ cleanups' = {}
    /\ gc' = [gc EXCEPT ![Server] = Idle]
    /\ chat' = Leaving(GcAsks(Server) \cup {t.msg : t \in {t \in cleanups : Asks(t)}})
    /\ UNCHANGED <<storeVars, historyVars>>

\* Telegram carries out a deletion: one a task waits for, or one that is late.
Erase(m) ==
    /\ \/ chat[m] = "leaving"
       \/ /\ chat[m] = "present"
          /\ \/ \E p \in Process : m \in GcAsks(p)
             \/ \E t \in cleanups : Asks(t) /\ t.msg = m
    /\ chat' = Deleted({m})
    /\ UNCHANGED <<storeVars, taskVars, gc, budget, historyVars>>

----------------------------------------------------------------------------

Writers ==
    \/ \E bkt \in Bucket : bkt \notin buckets /\ NewBucket(bkt)
    \/ \E u \in Upload, k \in Key, kind \in Kind : NewUpload(u, k, kind)
    \/ \E m \in Msg : StageBlock(m)
    \/ \E u \in Upload, p \in PartNo, e \in Etag, refs \in SUBSET hands :
         /\ (p = 0) <=> (uploads[u].kind = "put")
         /\ AttachPart(u, p, e, refs)
    \/ \E u \in Upload : \E snap \in PartSnaps(u), e \in Etag, cond \in Condition :
         Complete(u, snap, e, cond)
    \/ \E u \in Upload : Abort(u)
    \/ \E k \in Key, cond \in Condition :
         \/ Delete(k, cond)
         \/ \E src \in Key : \E row \in CopyRows(src) : Copy(src, row, k, cond)

Cleanup ==
    \/ \E r \in hands : UploadFails(r) \/ UploadVanishes(r)
    \/ \E t \in cleanups :
         \/ CleanupQueue(t)
         \/ CleanupQueueFails(t)
         \/ CleanupDeleteOk(t)
         \/ CleanupDeleteError(t)
         \/ CleanupSettle(t)
         \/ CleanupEnd(t)
         \/ CleanupRestart(t)

GcStep(p) ==
    \/ \E u \in Upload : GcExpire(p, u)
    \/ GcScanStale(p)
    \/ \E b \in BlockId : GcQueueStale(p, b)
    \/ GcLimitReached(p)
    \/ GcScan(p)
    \/ \E c \in gc[p].cands : GcOrphanOld(p, c)
    \/ \E backend \in {BotApiMsg, Msg \ BotApiMsg} : GcPickGroup(p, backend)
    \/ GcEnd(p)
    \/ GcBatchOk(p)
    \/ GcBatchError(p)
    \/ \E c \in gc[p].group : GcDeleteOk(p, c) \/ GcDeleteError(p, c)
    \/ \E c \in gc[p].current : GcRecord(p, c)

Reclaim == \E blocks \in SUBSET reclaim \ {{}} : ReclaimBlocksNow(blocks)

GcNext ==
    \/ Writers
    \/ Cleanup
    \/ RunGc
    \/ Reclaim
    \/ \E p \in Process : GcCommand(p) \/ GcStep(p) \/ GcDbError(p)
    \/ Crash
    \/ \E b \in BlockId : BlockTime(b)
    \/ \E u \in Upload \ expired : UploadTime(u)
    \/ \E m \in Msg : Erase(m)

GcSpec == GcInit /\ [][GcNext]_gcVars

(***************************************************************************)
(* Fairness.  The interval loop calls run_gc for ever and tokio runs every *)
(* task that can run, so the task that holds the server's gc_lock moves on *)
(* (a gc command may hang); gc_lock, a tokio Mutex, is handed out first    *)
(* come first served, so run_gc gets it (strong fairness) however many     *)
(* reclaiming tasks compete; the clock moves on; and a Telegram failure is *)
(* transient: a block whose deletion is tried again and again is deleted   *)
(* at last.  Nothing is assumed of the writers, of reclaim_blocks and      *)
(* cleanup tasks, or of database errors (which Budget bounds).             *)
(***************************************************************************)
Fairness ==
    /\ SF_gcVars(RunGc)
    /\ WF_gcVars(GcStep(Server))
    /\ \A b \in BlockId : WF_gcVars(BlockTime(b))
    /\ \A b \in BlockId : SF_gcVars(\E c \in gc[Server].group : c.id = b /\ GcDeleteOk(Server, c))

FairGcSpec == GcSpec /\ Fairness

----------------------------------------------------------------------------
(* Safety.                                                                 *)

\* No data is lost: the Telegram message of every block that an object or an
\* upload part lists is in the chat, and no deletion of it is on its way,
\* whatever the collector, the reclaiming tasks, the cleanup tasks and the
\* writers do in whatever order, however late Telegram carries out a deletion,
\* and however stale the block ids are that they act on.  The one exception
\* takes two mishaps: the row was taken with an id somebody remembered, not
\* with the reference of its upload, and that upload failed and its cleanup
\* could not queue the row before it deleted the message.
LiveMessagesPresent ==
    \A b \in BlockId :
        Held(b) => \/ chat[message[b]] = "present"
                   \/ b \in unqueued \cap foreign

\* The references a task may be deleting the message of.
Records(task) == task.cands \cup task.group \cup task.current
Collecting == UNION {Records(gc[p]) : p \in Process}
Deleting ==
    Collecting \cup {t \in cleanups : t.pc \in {"delete", "settle"}}

\* What makes it so: no two rows name one message, nor is a message recorded
\* that was not sent; a row whose message may be gone is claimed, or could not
\* be queued; a message some task is about to delete belongs to a claimed row
\* or to none (the row was deleted, its id perhaps reused); and the message of
\* a reference is in no row but the one of its id.
MessagesOfRows ==
    /\ \A b, c \in Rows : message[b] = message[c] => b = c
    /\ \A b \in Rows : message[b] \in Msg /\ chat[message[b]] # "unsent"
UnclaimedPresent ==
    \A b \in Rows :
        ~Claimed(b) => chat[message[b]] = "present" \/ b \in unqueued
DeletingClaimed ==
    \A r \in Deleting :
        /\ chat[r.msg] # "unsent"
        /\ \A b \in Rows : message[b] = r.msg => Claimed(b)
ReferencesNameRows ==
    \A r \in hands \cup cleanups :
        /\ chat[r.msg] # "unsent"
        /\ \A b \in Rows : message[b] = r.msg => b = r.id

\* A message has one reference, which an upload or its cleanup holds; only a
\* cleanup deletes a message whose row it could not queue; and a row in use is
\* foreign to whoever still holds or gave up its reference.
OneReference ==
    /\ \A r, s \in hands : r.msg = s.msg => r = s
    /\ \A r \in hands, t \in cleanups : r.msg # t.msg
UnqueuedGivenUp ==
    /\ unqueued \in SUBSET Unclaimed
    /\ \A r \in hands : UnclaimedRow(r) \cap unqueued = {}
    /\ \A t \in cleanups : t.pc = "untracked" => UnclaimedRow(t) \subseteq unqueued
HeldIsForeign ==
    \A b \in Rows :
        /\ Held(b)
        /\ b \in unqueued \/ \E r \in hands \cup cleanups : b \in UnclaimedRow(r)
        => b \in foreign

DeletionInv ==
    /\ MessagesOfRows
    /\ UnclaimedPresent
    /\ DeletingClaimed
    /\ ReferencesNameRows
    /\ OneReference
    /\ UnqueuedGivenUp
    /\ HeldIsForeign

\* The inductive invariant that ties rows, messages and references together:
\* no row shares its message, an unclaimed row has its message, a message that
\* is being deleted belongs to claimed rows only, what run_gc,
\* reclaim_blocks_now, uploads and cleanup_untracked_block have in hand names
\* no row but its own, and each message is in one hand only.
GcInv == GcTypeOK /\ StoreInv /\ DeletionInv

\* A message goes, however late, only if its row is in gc_queue or gone, or
\* could not be queued by the cleanup of its own upload.
DeletesOnlyClaimed ==
    [][\A b \in Rows :
          chat[message[b]] # "deleted" /\ chat'[message[b]] = "deleted"
              => Claimed(b) \/ b \in unqueued]_gcVars

\* replace_part never takes a block the collector has claimed: the reference
\* an upload gets into a part is the one whose message its row still names.
AttachesOwnBlocks ==
    [][\A r \in hands, u \in Upload, p \in PartNo :
          r \notin hands' /\ parts'[u][p] # parts[u][p] /\ r.id \in parts'[u][p].blocks
              => message[r.id] = r.msg]_gcVars

----------------------------------------------------------------------------
(* Liveness.                                                               *)

\* A row nothing refers to, because its upload failed or vanished or because
\* its object was deleted, does not stay: it is listed by a part or an object,
\* or its message and row are deleted, or it is marked orphan.
Unreferenced(b) == b \in Rows /\ ~Held(b) /\ queue[b] # "orphan"
GarbageIsCollected == \A b \in BlockId : Unreferenced(b) ~> ~Unreferenced(b)

\* gc_queue guarantees the retry: a released block is deleted or marked orphan.
QueuedIsProcessed ==
    \A b \in BlockId : queue[b] = "due" /\ ~Held(b) ~> queue[b] \in {"none", "orphan"}

============================================================================
