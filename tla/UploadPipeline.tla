--------------------------- MODULE UploadPipeline ---------------------------
(***************************************************************************)
(* The upload pipeline of tg2s3 (src/src/transfer/upload.rs, upload/*.rs,  *)
(* cleanup.rs): how one request body becomes Telegram messages and staged  *)
(* rows.  The request cuts its body into blocks and spawns a task for each *)
(* one, fed through a pipe when the length is known and reading a spool    *)
(* file when it is not.  Tasks share upload_slots with all requests and    *)
(* register what they stored with the cleanup guard of their request.      *)
(* Requests fail and are dropped at any await; tasks are aborted, or go on *)
(* by themselves.                                                          *)
(*                                                                         *)
(* Data abstraction: bodies are measured in blocks, the frames of a block  *)
(* are one write, and shutting the in-memory pipe down does not fail.      *)
(* Rows are identified with their task.  The collector is left out, which  *)
(* may take the rows of uploads that last over an hour: for that, for the  *)
(* reuse of row ids and the steps of a cleanup, see GarbageCollector and   *)
(* Engine.                                                                 *)
(***************************************************************************)
EXTENDS Integers, FiniteSets

CONSTANTS Req,     \* requests
          Setup    \* the settings and bounds a behaviour may have

\* concurrency: config.upload_concurrency; fitsPipe: does a whole block fit
\* into the pipe's buffer; requests, modes, blocks: the bounds on which run, on
\* how they send ("known": with Content-Length, "spool": without) and on how
\* long their bodies are; faulty: who may fail.
ASSUME SetupAssumption ==
    \A s \in Setup :
        /\ s.concurrency \in Nat \ {0} /\ s.fitsPipe \in BOOLEAN
        /\ s.requests \subseteq Req /\ s.modes \subseteq {"known", "spool"}
        /\ s.blocks \in Nat \ {0}
        /\ s.faulty \subseteq {"client", "telegram", "database"}
\* Bodies have a longest one, of max_object_size.
ASSUME BoundAssumption == \E s \in Setup : \A t \in Setup : t.blocks <= s.blocks

VARIABLES
    setup,      \* the settings; never change
    up,         \* the locals of each request, its guard and its spool file
    task,       \* the step each block's task is at
    message,    \* the Telegram message of the block: "none", "present", "deleted"
    row,        \* its row: "none", "staged", "queued" (for the collector), "gone"
    fed,        \* blocks written to their pipe to the last byte
    eof,        \* blocks whose pipe is closed
    aborting,   \* tasks that abort() was called on
    cleanups,   \* blocks in the hands of spawned cleanup tasks
    deletes,    \* messages whose deletion MessageCleanupGuard::drop spawned
    lost,       \* history: sent, but the reply or the deletion failed
    left        \* history: rows left to the scan for stale blocks

pipeVars == <<up, task, message, row, fed, eof, aborting, cleanups, deletes, lost, left>>
storedVars == <<message, row, lost, left>>

MaxBlocks == CHOOSE n \in {s.blocks : s \in Setup} : \A s \in Setup : s.blocks <= n
Ordinal == 0..(MaxBlocks - 1)
Task == Req \X Ordinal

Idle == [pc |-> "idle", mode |-> "none", length |-> 0, next |-> 0, current |-> {},
         running |-> {}, uploaded |-> {}, failed |-> FALSE, closed |-> FALSE,
         refs |-> {}, todo |-> {}, spool |-> "none"]

Active == {"spool", "source", "reap", "drain", "cleanup"}
Over == {"ok", "error", "cancelled"}
Ended == {"none", "done", "failed", "gone"}

\* running and current are UploadTasks and the open pipe; closed and refs are
\* CleanupState; todo is what cleanup() has yet to visit.
Locals == [pc : {"idle"} \cup Active \cup Over, mode : {"none", "known", "spool"},
           length : 0..MaxBlocks, next : 0..MaxBlocks,
           current : SUBSET Ordinal, running : SUBSET Ordinal,
           uploaded : SUBSET Ordinal, failed : BOOLEAN, closed : BOOLEAN,
           refs : SUBSET Ordinal, todo : SUBSET Ordinal,
           spool : {"none", "present", "dropped", "removed"}]

PipeTypeOK ==
    /\ setup \in Setup
    /\ up \in [Req -> Locals]
    /\ task \in [Task -> {"open", "slot", "sending", "staging", "discard"} \cup Ended]
    /\ message \in [Task -> {"none", "present", "deleted"}]
    /\ row \in [Task -> {"none", "staged", "queued", "gone"}]
    /\ \A S \in {fed, eof, aborting, cleanups, deletes, lost, left} : S \subseteq Task

PipeInit ==
    /\ setup \in Setup
    /\ up = [r \in Req |-> Idle]
    /\ task = [t \in Task |-> "none"]
    /\ message = [t \in Task |-> "none"]
    /\ row = [t \in Task |-> "none"]
    /\ fed = {} /\ eof = {} /\ aborting = {}
    /\ cleanups = {} /\ deletes = {} /\ lost = {} /\ left = {}

TasksOf(r, ordinals) == {<<r, i>> : i \in ordinals}
SetTask(t, s) == task' = [task EXCEPT ![t] = s]

----------------------------------------------------------------------------
(* The request: upload, upload_known_length, upload_unknown_length.        *)

Start(r, mode, n) ==
    /\ r \in setup.requests /\ n <= setup.blocks
    /\ up[r].pc = "idle"
    /\ up' = [up EXCEPT ![r] = [Idle EXCEPT !.mode = mode, !.length = n,
                 !.pc = IF mode = "spool" THEN "spool" ELSE "source",
                 !.spool = IF mode = "spool" THEN "present" ELSE "none"]]
    /\ UNCHANGED <<task, storedVars, fed, eof, aborting, cleanups, deletes>>

\* spool_body has written the whole body to the spool file.
SpoolWritten(r) ==
    /\ up[r].pc = "spool"
    /\ up' = [up EXCEPT ![r].pc = "source"]
    /\ UNCHANGED <<task, storedVars, fed, eof, aborting, cleanups, deletes>>

\* The guard's cleanup(): close the registry and visit what it holds.
StartCleanup(u) ==
    [u EXCEPT !.pc = "cleanup", !.closed = TRUE, !.todo = u.refs]

SpoolFails(r) ==
    /\ "client" \in setup.faulty
    /\ up[r].pc = "spool"
    /\ up' = [up EXCEPT ![r] = StartCleanup([@ EXCEPT !.spool = "removed"])]
    /\ UNCHANGED <<task, storedVars, fed, eof, aborting, cleanups, deletes>>

\* start_pipe_task
OpenPipe(r) ==
    LET u == up[r]
    IN  /\ u.pc = "source" /\ u.mode = "known"
        /\ u.current = {} /\ u.next < u.length
        /\ up' = [up EXCEPT ![r].current = {u.next}, ![r].next = @ + 1]
        /\ SetTask(<<r, u.next>>, "slot")
        /\ UNCHANGED <<storedVars, fed, eof, aborting, cleanups, deletes>>

\* tasks.push, and then reap_one when there are upload_concurrency tasks
PushTask(u, i) ==
    [u EXCEPT !.running = @ \cup {i},
              !.pc = IF Cardinality(u.running) + 1 >= setup.concurrency THEN "reap" ELSE "source"]

\* The last byte of the block is written, which needs a reader at the other
\* end of the pipe unless its buffer holds the block; finish_pipe_task.
WriteBlock(r) ==
    \E i \in up[r].current :
        /\ up[r].pc = "source"
        /\ task[<<r, i>>] = "sending" \/ (setup.fitsPipe /\ task[<<r, i>>] = "slot")
        /\ fed' = fed \cup {<<r, i>>}
        /\ eof' = eof \cup {<<r, i>>}
        /\ up' = [up EXCEPT ![r] = PushTask([@ EXCEPT !.current = {}], i)]
        /\ UNCHANGED <<task, storedVars, aborting, cleanups, deletes>>

\* Mutant: the last pipe is pushed without being shut down.
CloseCurrent_keepsOpen(r) == UNCHANGED eof

CloseCurrent(r) == eof' = eof \cup TasksOf(r, up[r].current)

\* The loop over the body ends; the block that is being written is finished.
EndSource(r, failed) ==
    /\ CloseCurrent(r)
    /\ up' = [up EXCEPT ![r].pc = "drain", ![r].failed = @ \/ failed,
                        ![r].running = @ \cup up[r].current, ![r].current = {}]

\* The reader's task has failed and dropped its end: a broken pipe.
WriteFails(r) ==
    /\ up[r].pc = "source"
    /\ \E i \in up[r].current : task[<<r, i>>] = "failed"
    /\ EndSource(r, TRUE)
    /\ UNCHANGED <<task, storedVars, fed, aborting, cleanups, deletes>>

\* The stream fails, is too long, or ends early (total # expected_length).
SourceFails(r) ==
    /\ "client" \in setup.faulty
    /\ up[r].pc = "source" /\ up[r].mode = "known"
    /\ EndSource(r, TRUE)
    /\ UNCHANGED <<task, storedVars, fed, aborting, cleanups, deletes>>

SourceEnds(r) ==
    /\ up[r].pc = "source"
    /\ up[r].next = up[r].length /\ up[r].current = {}
    /\ EndSource(r, FALSE)
    /\ UNCHANGED <<task, storedVars, fed, aborting, cleanups, deletes>>

\* Mutant: a task too many at the end of the file.
StartFileTask_pastEnd(r) ==
    LET u == up[r]
    IN  /\ u.pc = "source" /\ u.mode = "spool" /\ u.next <= u.length
        /\ up' = [up EXCEPT ![r] = PushTask([u EXCEPT !.next = u.next + 1], u.next)]
        /\ task' = [t \in DOMAIN task |-> IF t = <<r, u.next>> THEN "open" ELSE task[t]]
        /\ UNCHANGED <<storedVars, fed, eof, aborting, cleanups, deletes>>

\* upload_spooled
StartFileTask(r) ==
    LET u == up[r]
    IN  /\ u.pc = "source" /\ u.mode = "spool" /\ u.next < u.length
        /\ up' = [up EXCEPT ![r] = PushTask([u EXCEPT !.next = u.next + 1], u.next)]
        /\ SetTask(<<r, u.next>>, "open")
        /\ UNCHANGED <<storedVars, fed, eof, aborting, cleanups, deletes>>

\* Mutant: the error of a task that is joined is dropped.
Join_ignoresError(r, i) ==
    [up[r] EXCEPT !.running = @ \ {i},
                  !.uploaded = IF task[<<r, i>>] = "done" THEN @ \cup {i} ELSE @]

\* join_task: a task that failed, or was aborted, is the request's failure.
Join(r, i) ==
    [up[r] EXCEPT !.running = @ \ {i},
                  !.uploaded = IF task[<<r, i>>] = "done" THEN @ \cup {i} ELSE @,
                  !.failed = @ \/ task[<<r, i>>] # "done"]

ReapOne(r) ==
    /\ up[r].pc = "reap"
    /\ \E i \in up[r].running :
         LET u == Join(r, i)
         IN  /\ task[<<r, i>>] \in Ended
             /\ up' = [up EXCEPT ![r] =
                         [u EXCEPT !.pc = IF u.failed THEN "drain" ELSE "source"]]
    /\ UNCHANGED <<task, storedVars, fed, eof, aborting, cleanups, deletes>>

DrainTask(r) ==
    /\ up[r].pc = "drain"
    /\ \E i \in up[r].running :
         task[<<r, i>>] \in Ended /\ up' = [up EXCEPT ![r] = Join(r, i)]
    /\ UNCHANGED <<task, storedVars, fed, eof, aborting, cleanups, deletes>>

\* Mutant: the request does not wait for its tasks after a failure.
Drained_skipped(u) == u.running = {} \/ u.failed

Drained(u) == u.running = {}

\* The spool is removed; then either cleanup() or disarm().
Conclude(r) ==
    LET u == [up[r] EXCEPT !.spool = IF @ = "present" THEN "removed" ELSE @]
    IN  /\ u.pc = "drain" /\ Drained(u)
        /\ up' = [up EXCEPT ![r] = IF u.failed THEN StartCleanup(u)
                     ELSE [u EXCEPT !.pc = "ok", !.closed = TRUE, !.refs = {}]]
        /\ UNCHANGED <<task, storedVars, fed, eof, aborting, cleanups, deletes>>

----------------------------------------------------------------------------
(* cleanup_untracked_block, in one step.                                   *)

CleanupBlock(t) ==
    \/ /\ row[t] \notin {"staged", "queued"}
       /\ UNCHANGED storedVars
    \/ /\ row[t] \in {"staged", "queued"}     \* queue_stale_block is true,
       /\ message' = [message EXCEPT ![t] = "deleted"]
       /\ row' = [row EXCEPT ![t] = "gone"]   \* deleted, gc_success
       /\ UNCHANGED <<lost, left>>
    \/ /\ row[t] \in {"staged", "queued"} /\ "telegram" \in setup.faulty
       /\ \E m \in {message[t], "deleted"} : message' = [message EXCEPT ![t] = m]
       /\ row' = [row EXCEPT ![t] = "queued"] \* not deleted, as far as we know
       /\ UNCHANGED <<lost, left>>
    \/ /\ row[t] = "staged" /\ "database" \in setup.faulty   \* queue_stale_block failed
       /\ \E m \in {message[t], "deleted"} : message' = [message EXCEPT ![t] = m]
       /\ left' = left \cup {t}
       /\ UNCHANGED <<row, lost>>

CleanupNext(r) ==
    /\ up[r].pc = "cleanup"
    /\ \E i \in up[r].todo :
         /\ CleanupBlock(<<r, i>>)
         /\ up' = [up EXCEPT ![r].todo = @ \ {i}]
    /\ UNCHANGED <<task, fed, eof, aborting, cleanups, deletes>>

CleanupEnds(r) ==
    /\ up[r].pc = "cleanup" /\ up[r].todo = {}
    /\ up' = [up EXCEPT ![r].pc = "error", ![r].refs = {}]
    /\ UNCHANGED <<task, storedVars, fed, eof, aborting, cleanups, deletes>>

SpawnedCleanup(t) ==
    /\ t \in cleanups
    /\ CleanupBlock(t)
    /\ cleanups' = cleanups \ {t}
    /\ UNCHANGED <<up, task, fed, eof, aborting, deletes>>

\* delete_message_by_id for a message without a row
DeleteMessage(t) ==
    \/ message' = [message EXCEPT ![t] = "deleted"] /\ UNCHANGED lost
    \/ "telegram" \in setup.faulty /\ lost' = lost \cup {t} /\ UNCHANGED message

SpawnedDelete(t) ==
    /\ t \in deletes
    /\ DeleteMessage(t)
    /\ deletes' = deletes \ {t}
    /\ UNCHANGED <<up, task, row, left, fed, eof, aborting, cleanups>>

\* The request is dropped.  UploadTasks::drop aborts its tasks, but the task
\* of the open pipe goes on with a closed pipe; the guard's Drop hands what is
\* registered to a spawned cleanup; Spool::drop removes the file.
Cancel(r) ==
    LET u == up[r]
    IN  /\ "client" \in setup.faulty
        /\ u.pc \in Active
        /\ aborting' = aborting \cup TasksOf(r, u.running)
        /\ CloseCurrent(r)
        /\ cleanups' = cleanups \cup TasksOf(r, u.refs)
        /\ up' = [up EXCEPT ![r] =
                    [Idle EXCEPT !.pc = "cancelled", !.mode = u.mode, !.closed = TRUE,
                       !.length = u.length, !.next = u.next,
                       !.spool = IF u.spool = "present" THEN "dropped" ELSE u.spool]]
        /\ UNCHANGED <<task, storedVars, fed, deletes>>

SpawnedRemove(r) ==
    /\ up[r].spool = "dropped"
    /\ up' = [up EXCEPT ![r].spool = "removed"]
    /\ UNCHANGED <<task, storedVars, fed, eof, aborting, cleanups, deletes>>

----------------------------------------------------------------------------
(* A block's task: start_file_task and upload_one.                         *)

OpenFile(t) ==
    /\ task[t] = "open"
    /\ SetTask(t, IF up[t[1]].spool \in {"present", "dropped"} THEN "slot" ELSE "failed")
    /\ UNCHANGED <<up, storedVars, fed, eof, aborting, cleanups, deletes>>

HoldsSlot(t) == task[t] \in {"sending", "staging", "discard"}
Holders == {t \in Task : HoldsSlot(t)}
SlotFree == Cardinality(Holders) < setup.concurrency

TakeSlot(t) ==
    /\ task[t] = "slot"
    /\ SlotFree
    /\ SetTask(t, "sending")
    /\ UNCHANGED <<up, storedVars, fed, eof, aborting, cleanups, deletes>>

\* All bytes are there: the file's, or what was written to the pipe.
HasData(t) == up[t[1]].mode = "spool" \/ t \in fed

\* Telegram answers: stored, or stored with another size.
Sent(t) ==
    /\ task[t] = "sending" /\ HasData(t)
    /\ message' = [message EXCEPT ![t] = "present"]
    /\ \E s \in {"staging"} \cup (IF "telegram" \in setup.faulty THEN {"discard"} ELSE {}) :
         SetTask(t, s)
    /\ UNCHANGED <<up, row, lost, left, fed, eof, aborting, cleanups, deletes>>

\* An error: the pipe was closed early, or Telegram failed, which may hide
\* that the message was stored.
SendFails(t) ==
    /\ task[t] = "sending"
    /\ "telegram" \in setup.faulty \/ (t \in eof /\ ~HasData(t))
    /\ SetTask(t, "failed")
    /\ \/ UNCHANGED storedVars
       \/ /\ HasData(t)
          /\ message' = [message EXCEPT ![t] = "present"]
          /\ lost' = lost \cup {t}
          /\ UNCHANGED <<row, left>>
    /\ UNCHANGED <<up, fed, eof, aborting, cleanups, deletes>>

\* Mutant: registering ignores that the guard was closed.
Register_ignoresClosed(t) ==
    /\ up' = [up EXCEPT ![t[1]].refs = @ \cup {t[2]}]
    /\ UNCHANGED cleanups

\* UploadCleanup::register
Register(t) ==
    IF up[t[1]].closed
    THEN cleanups' = cleanups \cup {t} /\ UNCHANGED up
    ELSE up' = [up EXCEPT ![t[1]].refs = @ \cup {t[2]}] /\ UNCHANGED cleanups

\* add_staged_block; no await separates it from register and disarm.
Staged(t) ==
    /\ task[t] = "staging"
    /\ row' = [row EXCEPT ![t] = "staged"]
    /\ Register(t)
    /\ SetTask(t, "done")
    /\ UNCHANGED <<message, lost, left, fed, eof, aborting, deletes>>

StagingFails(t) ==
    /\ "database" \in setup.faulty
    /\ task[t] = "staging"
    /\ SetTask(t, "discard")
    /\ UNCHANGED <<up, storedVars, fed, eof, aborting, cleanups, deletes>>

\* message_cleanup.cleanup()
Discard(t) ==
    /\ task[t] = "discard"
    /\ DeleteMessage(t)
    /\ SetTask(t, "failed")
    /\ UNCHANGED <<up, row, left, fed, eof, aborting, cleanups, deletes>>

\* Mutant: MessageCleanupGuard has no Drop.
GuardDrop_missing(t) == UNCHANGED deletes

\* MessageCleanupGuard::drop while the guard is armed
GuardDrop(t) ==
    deletes' = IF task[t] \in {"staging", "discard"} THEN deletes \cup {t} ELSE deletes

\* abort() takes effect at an await: the call that is under way may have been
\* executed by Telegram, or by SQLite.
Aborted(t) ==
    /\ t \in aborting /\ task[t] \notin Ended
    /\ SetTask(t, "gone")
    /\ GuardDrop(t)
    /\ \/ UNCHANGED storedVars
       \/ /\ task[t] = "sending" /\ HasData(t)
          /\ message' = [message EXCEPT ![t] = "present"]
          /\ lost' = lost \cup {t}
          /\ UNCHANGED <<row, left>>
       \/ /\ task[t] = "staging"
          /\ row' = [row EXCEPT ![t] = "staged"]
          /\ left' = left \cup {t}
          /\ UNCHANGED <<message, lost>>
    /\ UNCHANGED <<up, fed, eof, aborting, cleanups>>

----------------------------------------------------------------------------

\* What a request does by itself, given a client that keeps sending.
RequestStep(r) ==
    \/ SpoolWritten(r)
    \/ OpenPipe(r)
    \/ WriteBlock(r)
    \/ WriteFails(r)
    \/ SourceEnds(r)
    \/ StartFileTask(r)
    \/ ReapOne(r)
    \/ DrainTask(r)
    \/ Conclude(r)
    \/ CleanupNext(r)
    \/ CleanupEnds(r)

TaskStep(t) ==
    \/ OpenFile(t)
    \/ Sent(t)
    \/ t \in eof /\ SendFails(t)
    \/ Staged(t)
    \/ StagingFails(t)
    \/ Discard(t)

Spawned(t) == SpawnedCleanup(t) \/ SpawnedDelete(t)

PipeNext ==
    \/ \E r \in Req :
         \/ \E mode \in setup.modes, n \in 0..MaxBlocks : Start(r, mode, n)
         \/ RequestStep(r)
         \/ SpoolFails(r)
         \/ SourceFails(r)
         \/ Cancel(r)
         \/ SpawnedRemove(r)
    \/ \E t \in Task :
         \/ TakeSlot(t)
         \/ TaskStep(t)
         \/ t \notin eof /\ SendFails(t)
         \/ Aborted(t)
         \/ Spawned(t)

PipeSpec == PipeInit /\ [][PipeNext /\ UNCHANGED setup]_<<setup, pipeVars>>

(***************************************************************************)
(* Fairness: tokio runs what can run; upload_slots is a fair semaphore, so *)
(* a task that waits for a slot gets one; Telegram and SQLite answer, with *)
(* success or failure, once they have the data or know that no more comes; *)
(* clients keep sending.  Nothing forces a failure or a cancellation.      *)
(***************************************************************************)
PipeFairness ==
    /\ \A r \in Req : WF_pipeVars(RequestStep(r) \/ SpawnedRemove(r))
    /\ \A t \in Task :
         /\ SF_pipeVars(TakeSlot(t))
         /\ WF_pipeVars(TaskStep(t) \/ Aborted(t))
         /\ WF_pipeVars(Spawned(t))

FairPipeSpec == PipeSpec /\ PipeFairness

----------------------------------------------------------------------------
(* Properties.                                                             *)

\* An upload succeeds only with all its blocks, and keeps them: each is sent
\* and staged, and no cleanup, spawned before or after, touches it.  (What the
\* collector does to rows of uploads over an hour is outside this module.)
SuccessIsComplete ==
    \A r \in Req : up[r].pc = "ok" =>
        /\ up[r].uploaded = 0..(up[r].length - 1)
        /\ \A t \in TasksOf(r, up[r].uploaded) :
             message[t] = "present" /\ row[t] = "staged" /\ t \notin cleanups \cup deletes

\* No message is forgotten: one that has no row is in the hands of its task
\* or of a spawned deletion, or Telegram failed (reply or deletion lost).
MessagesAccounted ==
    \A t \in Task : message[t] = "present" /\ row[t] = "none" =>
        task[t] \in {"staging", "discard"} \/ t \in deletes \cup lost

\* No staged row is forgotten: it is in the registry of a request that runs,
\* in the result of one that succeeded, or in a cleanup that is still to come,
\* also when its task registered it after the request had failed or was
\* dropped.  Excepted are rows whose INSERT or queueing failed half way, which
\* only the scan for stale blocks finds.
RowsAccounted ==
    \A t \in Task : row[t] = "staged" =>
        \/ up[t[1]].pc \in Active \ {"cleanup"} /\ t[2] \in up[t[1]].refs
        \/ up[t[1]].pc = "cleanup" /\ t[2] \in up[t[1]].todo
        \/ up[t[1]].pc = "ok" /\ t[2] \in up[t[1]].uploaded
        \/ t \in cleanups \cup left

\* The spool file outlives the tasks that read it, unless the request was
\* dropped, and is removed, or about to be, when the request is over.
SpoolOutlivesTasks ==
    \A r \in Req : up[r].mode = "spool" =>
        /\ \A i \in Ordinal : task[<<r, i>>] = "open" /\ up[r].spool # "present"
                                  => up[r].pc = "cancelled"
        /\ up[r].pc \in Over => up[r].spool \in {"dropped", "removed"}

\* The inductive invariant: what the locals of a request say about each other,
\* and about every block of its body.
Feeding == {"source", "reap", "drain"}

LocalsOK(u) ==
    /\ u.next <= u.length
    /\ u.pc \in {"idle", "spool"} => u.next = 0
    /\ u.pc # "idle" => u.mode \in {"known", "spool"}
    /\ u.closed <=> u.pc \in {"cleanup"} \cup Over
    /\ u.todo \subseteq u.refs /\ (u.pc # "cleanup" => u.todo = {})
    /\ u.pc \in Over => u.refs = {}
    \* Only a body under way has tasks to wait for, and no error is forgotten:
    \* each block that was cut is being written, sent or stored.
    /\ u.pc # "source" => u.current = {}
    /\ u.current \subseteq {u.next - 1}
    /\ u.pc \notin Feeding => u.running = {}
    /\ u.pc \in {"idle", "spool", "source", "reap", "ok"} => ~u.failed
    /\ u.pc \in Feeding \cup {"ok"} /\ ~u.failed =>
         0..(u.next - 1) \subseteq u.current \cup u.running \cup u.uploaded
    /\ u.pc \in {"drain", "ok"} /\ ~u.failed => u.next = u.length
    /\ u.mode = "spool" =>
         /\ u.current = {}
         /\ u.pc \in {"spool"} \cup Feeding => u.spool = "present"
         /\ u.pc \in {"cleanup", "ok", "error"} => u.spool = "removed"
         /\ u.pc = "cancelled" => u.spool \in {"dropped", "removed"}

\* What a block's task has got to decides what there is of the block.
StoredOK(t) ==
    /\ task[t] \in {"none", "open", "slot", "sending"} => message[t] = "none" /\ row[t] = "none"
    /\ task[t] \in {"staging", "discard"} => message[t] = "present" /\ row[t] = "none"
    /\ task[t] = "failed" => row[t] = "none" /\ (message[t] = "present" => t \in lost)
    /\ task[t] = "done" => row[t] # "none"
    /\ task[t] = "gone" =>
         /\ message[t] = "present" /\ row[t] = "none" => t \in deletes \cup lost
         /\ row[t] = "staged" => t \in left
    /\ t \in deletes => task[t] = "gone"
    /\ t \in cleanups => task[t] = "done"

BlockOK(r, i) ==
    LET u == up[r]
        t == <<r, i>>
    IN  /\ StoredOK(t)
        /\ i >= u.next => task[t] = "none"
        /\ task[t] = "open" => u.mode = "spool"
        \* Tasks end before their request does, but for the dropped ones.
        /\ t \in aborting \/ task[t] = "gone" => u.pc = "cancelled"
        /\ task[t] \notin Ended => i \in u.current \cup u.running \/ u.pc = "cancelled"
        \* Stored blocks are registered, and kept until the guard is closed.
        /\ i \in u.refs \cup u.uploaded => task[t] = "done"
        /\ task[t] = "done" /\ ~u.closed => i \in u.refs
        /\ task[t] = "done" /\ (~u.closed \/ u.pc = "ok") =>
             message[t] = "present" /\ row[t] = "staged" /\ t \notin cleanups
        /\ row[t] = "staged" =>
             /\ u.pc = "cleanup" => i \in u.todo \/ t \in cleanups \cup left
             /\ u.pc \in {"error", "cancelled"} => t \in cleanups \cup left

BlocksInv ==
    /\ PipeTypeOK
    /\ \A r \in Req : LocalsOK(up[r]) /\ \A i \in Ordinal : BlockOK(r, i)

\* What waiting rests on: a block is written to a pipe with a task at its other
\* end, and closed when no more is written; a full task list has a task.
FeedOK(r, i) ==
    LET t == <<r, i>>
    IN  /\ i \in up[r].current => task[t] \in {"slot", "sending", "failed"}
        /\ t \in fed => i < up[r].next /\ i \notin up[r].current
        /\ task[t] \notin Ended => up[r].mode = "spool" \/ i \in up[r].current \/ t \in eof

SlotsKept == IsFiniteSet(Holders) /\ Cardinality(Holders) <= setup.concurrency

FlowInv ==
    /\ SlotsKept
    /\ \A r \in Req :
         /\ up[r].pc = "reap" => up[r].running # {}
         /\ \A i \in Ordinal : FeedOK(r, i)

PipeInv == BlocksInv /\ FlowInv

\* The guards of the steps of a request, and of a task, that wait for nobody.
RequestMoves(r) ==
    \/ up[r].pc \in {"spool", "cleanup"}
    \/ /\ up[r].pc = "source"
       /\ \A i \in up[r].current :
            \/ task[<<r, i>>] \in {"sending", "failed"}
            \/ task[<<r, i>>] = "slot" /\ setup.fitsPipe
    \/ /\ up[r].pc \in {"reap", "drain"}
       /\ \E i \in up[r].running : task[<<r, i>>] \in Ended
    \/ up[r].pc = "drain" /\ Drained(up[r])

TaskMoves(t) ==
    \/ task[t] \in {"open", "staging", "discard"}
    \/ task[t] = "slot" /\ SlotFree
    \/ task[t] = "sending" /\ (HasData(t) \/ t \in eof)

\* Nobody waits in a circle.  A request that cannot go on waits for a task of
\* its own that has not ended; a task that cannot go on waits for the rest of
\* its block, which its request can write, or for a slot, and then who holds
\* one goes on, or is written to by its own request, whose pipe and whose task
\* list wait for no slot.
NobodyStuck ==
    /\ \A r \in Req : up[r].pc \in Active =>
         \/ RequestMoves(r)
         \/ \E i \in up[r].current \cup up[r].running : task[<<r, i>>] \notin Ended
    /\ \A t \in Task : task[t] \notin Ended =>
         \/ TaskMoves(t)
         \/ task[t] = "sending" /\ RequestMoves(t[1])
         \/ /\ task[t] = "slot"
            /\ \E h \in Holders : TaskMoves(h) \/ RequestMoves(h[1])

\* No deadlock between slots, pipes and full task lists: every upload ends.
\* When it failed or was dropped, its tasks end too, its spool file goes, and
\* what it stored is deleted or left to the collector.
Settled(t) ==
    /\ task[t] \in Ended
    /\ message[t] = "present" => row[t] = "queued" \/ t \in lost \cup left
UploadsEndCleanly ==
    \A r \in Req : up[r].pc \in Active ~>
        \/ up[r].pc = "ok"
        \/ /\ up[r].pc \in Over
           /\ \A t \in TasksOf(r, Ordinal) : Settled(t)
           /\ up[r].spool \in {"none", "removed"}

============================================================================
