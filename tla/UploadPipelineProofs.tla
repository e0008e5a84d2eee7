------------------------ MODULE UploadPipelineProofs ------------------------
(* Proofs about the upload pipeline, for any number of requests, blocks    *)
(* and slots: BlocksInv is inductive, and what it implies of messages, rows  *)
(* and spool files.  Every step is one of a single request and its tasks,  *)
(* most are one of a single task.                                          *)
EXTENDS UploadPipeline, FiniteSetTheorems, TLAPS

\* Bodies of all settings are cut into a bounded number of blocks.
LEMMA Bounds ==
    /\ MaxBlocks \in Nat \ {0}
    /\ \A s \in Setup : s.blocks <= MaxBlocks
    /\ Ordinal = {i \in Nat : i < MaxBlocks}
<1>1. \E n \in {s.blocks : s \in Setup} : \A s \in Setup : s.blocks <= n
  BY BoundAssumption
<1>2. MaxBlocks \in {s.blocks : s \in Setup} /\ \A s \in Setup : s.blocks <= MaxBlocks
  BY <1>1 DEF MaxBlocks
<1>3. MaxBlocks \in Nat \ {0}
  BY <1>2, SetupAssumption
<1> QED
  BY <1>2, <1>3 DEF Ordinal

RequestOK(r) == LocalsOK(up[r]) /\ \A i \in Ordinal : BlockOK(r, i)

\* Nothing that BlockOK reads of a block changes.
Same(t) ==
    /\ task'[t] = task[t] /\ message'[t] = message[t] /\ row'[t] = row[t]
    /\ t \in aborting' <=> t \in aborting
    /\ t \in cleanups' <=> t \in cleanups
    /\ t \in deletes' <=> t \in deletes
    /\ t \in lost' <=> t \in lost
    /\ t \in left' <=> t \in left

\* At the start there is no request, no task and no block.
LEMMA PipeInitInv == PipeInit => BlocksInv
<1> SUFFICES ASSUME PipeInit PROVE BlocksInv
  OBVIOUS
<1>1. Idle \in Locals /\ LocalsOK(Idle)
  BY Bounds DEF Idle, Locals, LocalsOK, Active, Over, Feeding
<1>2. PipeTypeOK
  BY <1>1 DEF PipeInit, PipeTypeOK, Ended
<1>3. \A r \in Req, i \in Ordinal : BlockOK(r, i)
  BY Bounds DEF PipeInit, BlockOK, StoredOK, Idle, Task, Ended
<1> QED
  BY <1>1, <1>2, <1>3 DEF BlocksInv, PipeInit

----------------------------------------------------------------------------
(* What a step leaves alone.                                               *)

\* A step of one request: the others' locals and blocks stay as they are.
LEMMA RequestFrame ==
    ASSUME BlocksInv, NEW r \in Req, NEW l, l \in Locals, up' = [up EXCEPT ![r] = l],
           PipeTypeOK', \A q \in Req, i \in Ordinal : q # r => Same(<<q, i>>),
           LocalsOK(l), \A i \in Ordinal : BlockOK(r, i)'
    PROVE  BlocksInv'
<1>1. up'[r] = l /\ \A q \in Req : q # r => up'[q] = up[q]
  BY DEF BlocksInv, PipeTypeOK
<1>2. \A q \in Req : LocalsOK(up'[q])
  BY <1>1 DEF BlocksInv
<1>3. \A q \in Req, i \in Ordinal : q # r => BlockOK(q, i)'
  BY <1>1 DEF BlocksInv, BlockOK, StoredOK, Same
<1> QED
  BY <1>1, <1>2, <1>3 DEF BlocksInv, LocalsOK

\* A step of one block, which changes no locals.
LEMMA BlockFrame ==
    ASSUME BlocksInv, NEW r \in Req, NEW i \in Ordinal, UNCHANGED up,
           PipeTypeOK', \A s \in Task : s # <<r, i>> => Same(s), BlockOK(r, i)'
    PROVE  BlocksInv'
<1>1. \A q \in Req, j \in Ordinal : <<q, j>> # <<r, i>> => BlockOK(q, j)'
  BY DEF BlocksInv, BlockOK, StoredOK, Same, Task
<1> QED
  BY <1>1 DEF BlocksInv, LocalsOK

\* A step of one request that changes nothing else.
LEMMA LocalFrame ==
    ASSUME BlocksInv, UNCHANGED setup, NEW r \in Req, NEW l, l \in Locals, up' = [up EXCEPT ![r] = l],
           UNCHANGED <<task, storedVars, aborting, cleanups, deletes>>,
           fed' \in SUBSET Task, eof' \in SUBSET Task,
           LocalsOK(l), \A i \in Ordinal : BlockOK(r, i)'
    PROVE  BlocksInv'
<1>1. PipeTypeOK'
  BY DEF BlocksInv, PipeTypeOK, storedVars
<1>2. \A q \in Req, i \in Ordinal : Same(<<q, i>>)
  BY DEF Same, storedVars
<1> QED
  BY <1>1, <1>2, RequestFrame

----------------------------------------------------------------------------
(* The request's own steps.                                                *)

\* Start (upload) keeps the invariant.
LEMMA StartInv ==
    ASSUME BlocksInv, UNCHANGED setup, NEW r \in Req, NEW mode \in setup.modes, NEW n \in 0..MaxBlocks,
           Start(r, mode, n)
    PROVE  BlocksInv'
<1>1. PICK l : l = [Idle EXCEPT !.mode = mode, !.length = n,
                       !.pc = IF mode = "spool" THEN "spool" ELSE "source",
                       !.spool = IF mode = "spool" THEN "present" ELSE "none"]
  OBVIOUS
<1>2. mode \in {"known", "spool"} /\ up[r].pc = "idle" /\ LocalsOK(up[r]) /\ up[r] \in Locals
  BY SetupAssumption DEF Start, BlocksInv, PipeTypeOK
<1>3. Idle \in Locals
  BY Bounds DEF Idle, Locals, Active, Over
<1>4. l.mode = mode /\ l.length = n /\ l.next = 0 /\ l.failed = FALSE /\ l.closed = FALSE
  BY <1>1 DEF Idle
<1>5. /\ l.current = {} /\ l.running = {} /\ l.uploaded = {} /\ l.refs = {} /\ l.todo = {}
      /\ mode = "spool" => l.pc = "spool" /\ l.spool = "present"
      /\ mode = "known" => l.pc = "source" /\ l.spool = "none"
  BY <1>1 DEF Idle
<1>6. l \in Locals
  BY <1>1, <1>2, <1>3 DEF Locals, Active
<1>7. LocalsOK(l)
  BY <1>2, <1>4, <1>5, <1>6, Bounds DEF LocalsOK, Over, Feeding
<1>8. up' = [up EXCEPT ![r] = l] /\ up'[r] = l
  BY <1>1 DEF Start, BlocksInv, PipeTypeOK
<1>9. ASSUME NEW i \in Ordinal PROVE BlockOK(r, i)'
  <2>1. task[<<r, i>>] = "none" /\ StoredOK(<<r, i>>) /\ <<r, i>> \notin aborting
    BY <1>2, Bounds DEF BlocksInv, BlockOK, LocalsOK
  <2>2. StoredOK(<<r, i>>)'
    BY <2>1 DEF StoredOK, Start, storedVars
  <2>3. task'[<<r, i>>] = "none" /\ <<r, i>> \notin aborting' /\ row'[<<r, i>>] = "none"
    BY <2>1 DEF StoredOK, Start, storedVars
  <2> QED
    BY <1>4, <1>5, <1>8, <2>2, <2>3 DEF BlockOK, Ended
<1> QED
  BY <1>6, <1>7, <1>8, <1>9, LocalFrame DEF Start, BlocksInv, PipeTypeOK

\* SpoolWritten (spool_body) keeps the invariant.
LEMMA SpoolWrittenInv ==
    ASSUME BlocksInv, UNCHANGED setup, NEW r \in Req, SpoolWritten(r) PROVE BlocksInv'
<1>1. PICK l : l = [up[r] EXCEPT !.pc = "source"]
  OBVIOUS
<1>2. up[r].pc = "spool" /\ LocalsOK(up[r]) /\ up[r] \in Locals
  BY DEF SpoolWritten, BlocksInv, PipeTypeOK
<1>3. l \in Locals /\ LocalsOK(l)
  BY <1>1, <1>2, Bounds DEF Locals, LocalsOK, Active, Over, Feeding
<1>4. up' = [up EXCEPT ![r] = l] /\ up'[r] = l
  BY <1>1 DEF SpoolWritten, BlocksInv, PipeTypeOK
<1>5. \A i \in Ordinal : BlockOK(r, i)'
  BY <1>1, <1>2, <1>4 DEF BlocksInv, BlockOK, StoredOK, SpoolWritten, storedVars, Locals
<1> QED
  BY <1>3, <1>4, <1>5, LocalFrame DEF SpoolWritten, BlocksInv, PipeTypeOK

\* Closing the guard hands every stored block to cleanup().
LEMMA StartCleanupInv ==
    ASSUME BlocksInv, UNCHANGED setup, NEW r \in Req, NEW s \in {"none", "present", "dropped", "removed"},
           up[r].pc \in {"spool", "drain"}, up[r].running = {},
           up[r].mode = "spool" => s = "removed",
           up' = [up EXCEPT ![r] = StartCleanup([up[r] EXCEPT !.spool = s])],
           UNCHANGED <<task, storedVars, fed, eof, aborting, cleanups, deletes>>
    PROVE  BlocksInv'
<1>1. PICK l : l = StartCleanup([up[r] EXCEPT !.spool = s])
  OBVIOUS
<1>2. LocalsOK(up[r]) /\ up[r] \in Locals
  BY DEF BlocksInv, PipeTypeOK
<1>3. l \in Locals /\ LocalsOK(l)
  <2>1. l \in Locals /\ l.pc = "cleanup" /\ l.closed = TRUE /\ l.todo = l.refs /\ l.spool = s
    BY <1>1, <1>2 DEF StartCleanup, Locals, Active
  <2>2. /\ l.next = up[r].next /\ l.length = up[r].length /\ l.mode = up[r].mode
        /\ l.current = up[r].current /\ l.running = up[r].running
    BY <1>1, <1>2 DEF StartCleanup, Locals
  <2> QED
    BY <1>2, <2>1, <2>2 DEF LocalsOK, Over, Feeding
<1>4. up' = [up EXCEPT ![r] = l] /\ up'[r] = l
  BY <1>1 DEF BlocksInv, PipeTypeOK
<1>5. \A i \in Ordinal : BlockOK(r, i)'
  BY <1>1, <1>2, <1>4 DEF BlocksInv, BlockOK, StoredOK, StartCleanup, storedVars, Locals,
                          LocalsOK, Ended, Over
<1> QED
  BY <1>3, <1>4, <1>5, LocalFrame DEF BlocksInv, PipeTypeOK

\* SpoolFails (upload_unknown_length) keeps the invariant.
LEMMA SpoolFailsInv ==
    ASSUME BlocksInv, UNCHANGED setup, NEW r \in Req, SpoolFails(r) PROVE BlocksInv'
<1>1. /\ up[r].pc = "spool" /\ up[r].running = {} /\ up' = [up EXCEPT ![r] = StartCleanup([up[r] EXCEPT !.spool = "removed"])]
  BY DEF SpoolFails, BlocksInv, LocalsOK, Feeding
<1> QED
  BY <1>1, StartCleanupInv DEF SpoolFails

\* Conclude (upload) keeps the invariant.
LEMMA ConcludeInv ==
    ASSUME BlocksInv, UNCHANGED setup, NEW r \in Req, Conclude(r) PROVE BlocksInv'
<1>1. PICK s \in {"none", "present", "dropped", "removed"} : s = IF up[r].spool = "present" THEN "removed" ELSE up[r].spool
  BY DEF BlocksInv, PipeTypeOK, Locals
<1>2. /\ up[r].pc = "drain" /\ up[r].running = {} /\ LocalsOK(up[r]) /\ up[r] \in Locals
      /\ up[r].mode = "spool" => s = "removed"
  BY <1>1 DEF Conclude, Drained, BlocksInv, PipeTypeOK, LocalsOK, Feeding, Locals
<1>3. CASE up[r].failed
  <2>1. up' = [up EXCEPT ![r] = StartCleanup([up[r] EXCEPT !.spool = s])]
    BY <1>1, <1>2, <1>3 DEF Conclude, Locals
  <2> QED
    BY <1>2, <2>1, StartCleanupInv DEF Conclude
<1>4. CASE ~up[r].failed
  <2>1. PICK l : l = [up[r] EXCEPT !.spool = s, !.pc = "ok", !.closed = TRUE, !.refs = {}]
    OBVIOUS
  <2>2. up' = [up EXCEPT ![r] = l] /\ up'[r] = l
    BY <1>1, <1>2, <1>4, <2>1 DEF Conclude, BlocksInv, PipeTypeOK, Locals
  <2>a. /\ l.pc = "ok" /\ l.closed = TRUE /\ l.refs = {} /\ l.spool = s
        /\ l.mode = up[r].mode /\ l.length = up[r].length /\ l.next = up[r].next
        /\ l.current = {} /\ l.running = {} /\ l.failed = FALSE /\ l.todo = {}
        /\ l.uploaded = up[r].uploaded /\ l \in Locals
        /\ up[r].current = {} /\ up[r].running = {} /\ up[r].todo = {}
    BY <1>2, <1>4, <2>1 DEF Locals, LocalsOK, Active, Over
  <2>3. LocalsOK(l)
    BY <1>2, <1>4, <2>a DEF LocalsOK, Over, Feeding
  <2>4. \A i \in Ordinal : BlockOK(r, i)'
    BY <1>2, <1>4, <2>a, <2>2 DEF BlocksInv, BlockOK, StoredOK, Conclude, storedVars,
                                  LocalsOK, Ended, Over
  <2> QED
    BY <2>2, <2>a, <2>3, <2>4, LocalFrame DEF Conclude, BlocksInv, PipeTypeOK
<1> QED
  BY <1>3, <1>4 DEF BlocksInv, PipeTypeOK, Locals

\* CleanupEnds (UploadCleanupGuard::cleanup) keeps the invariant.
LEMMA CleanupEndsInv ==
    ASSUME BlocksInv, UNCHANGED setup, NEW r \in Req, CleanupEnds(r) PROVE BlocksInv'
<1>1. PICK l : l = [up[r] EXCEPT !.pc = "error", !.refs = {}]
  OBVIOUS
<1>2. up[r].pc = "cleanup" /\ up[r].todo = {} /\ LocalsOK(up[r]) /\ up[r] \in Locals
  BY DEF CleanupEnds, BlocksInv, PipeTypeOK
<1>3. /\ l.pc = "error" /\ l.refs = {} /\ l.closed = up[r].closed /\ l.todo = up[r].todo
      /\ l.next = up[r].next /\ l.length = up[r].length /\ l.mode = up[r].mode
      /\ l.failed = up[r].failed /\ l.uploaded = up[r].uploaded /\ l.spool = up[r].spool
      /\ l.current = up[r].current /\ l.running = up[r].running
  BY <1>1, <1>2 DEF Locals
<1>4. up' = [up EXCEPT ![r] = l] /\ up'[r] = l
  BY <1>1 DEF CleanupEnds, BlocksInv, PipeTypeOK
<1>a. l \in Locals
  BY <1>1, <1>2 DEF Locals, Over
<1>b. /\ up[r].current = {} /\ up[r].running = {} /\ up[r].closed
      /\ up[r].mode = "spool" => up[r].spool = "removed"
  BY <1>2 DEF LocalsOK, Feeding
<1>c. LocalsOK(l)
  BY <1>2, <1>3, <1>b DEF LocalsOK, Over, Feeding
<1>5. ASSUME NEW i \in Ordinal PROVE BlockOK(r, i)'
  <2>1. BlockOK(r, i) /\ StoredOK(<<r, i>>)'
    BY DEF BlocksInv, BlockOK, StoredOK, CleanupEnds, storedVars
  <2> QED
    BY <1>2, <1>3, <1>b, <1>4, <2>1 DEF BlockOK, CleanupEnds, storedVars
<1> QED
  BY <1>a, <1>c, <1>4, <1>5, LocalFrame DEF CleanupEnds, BlocksInv, PipeTypeOK

\* SpawnedRemove (Spool::drop) keeps the invariant.
LEMMA SpawnedRemoveInv ==
    ASSUME BlocksInv, UNCHANGED setup, NEW r \in Req, SpawnedRemove(r) PROVE BlocksInv'
<1>1. PICK l : l = [up[r] EXCEPT !.spool = "removed"]
  OBVIOUS
<1>2. up[r].spool = "dropped" /\ LocalsOK(up[r]) /\ up[r] \in Locals
  BY DEF SpawnedRemove, BlocksInv, PipeTypeOK
<1>3. l \in Locals /\ LocalsOK(l)
  BY <1>1, <1>2, Bounds DEF Locals, LocalsOK, Active, Over, Feeding
<1>4. up' = [up EXCEPT ![r] = l] /\ up'[r] = l
  BY <1>1 DEF SpawnedRemove, BlocksInv, PipeTypeOK
<1>5. \A i \in Ordinal : BlockOK(r, i)'
  BY <1>1, <1>2, <1>4 DEF BlocksInv, BlockOK, StoredOK, SpawnedRemove, storedVars, Locals
<1> QED
  BY <1>3, <1>4, <1>5, LocalFrame DEF SpawnedRemove, BlocksInv, PipeTypeOK

\* The loop over the body ends, for whatever reason.
LEMMA EndSourceInv ==
    ASSUME BlocksInv, UNCHANGED setup, NEW r \in Req, NEW failed \in BOOLEAN, up[r].pc = "source",
           failed \/ up[r].next = up[r].length,
           EndSource(r, failed), UNCHANGED <<task, storedVars, fed, aborting, cleanups, deletes>>
    PROVE  BlocksInv'
<1>1. PICK l : l = [up[r] EXCEPT !.pc = "drain", !.failed = up[r].failed \/ failed,
                                 !.running = up[r].running \cup up[r].current, !.current = {}]
  OBVIOUS
<1>2. LocalsOK(up[r]) /\ up[r] \in Locals
  BY DEF BlocksInv, PipeTypeOK
<1>3. /\ l.pc = "drain" /\ l.failed = (up[r].failed \/ failed) /\ l.current = {}
      /\ l.running = up[r].running \cup up[r].current /\ l.uploaded = up[r].uploaded
      /\ l.next = up[r].next /\ l.length = up[r].length /\ l.mode = up[r].mode
      /\ l.closed = up[r].closed /\ l.refs = up[r].refs /\ l.todo = up[r].todo
      /\ l.spool = up[r].spool
  BY <1>1, <1>2 DEF Locals
<1>a. l \in Locals
  BY <1>1, <1>2 DEF Locals, Active
<1>b. ~l.failed => ~failed /\ ~up[r].failed
  BY <1>2, <1>3 DEF Locals
<1>c. LocalsOK(l)
  BY <1>2, <1>3, <1>b DEF LocalsOK, Over, Feeding
<1>4. up' = [up EXCEPT ![r] = l] /\ up'[r] = l
  BY <1>1 DEF EndSource, BlocksInv, PipeTypeOK
<1>5. ASSUME NEW i \in Ordinal PROVE BlockOK(r, i)'
  <2>1. BlockOK(r, i) /\ StoredOK(<<r, i>>)'
    BY DEF BlocksInv, BlockOK, StoredOK, storedVars
  <2> QED
    BY <1>3, <1>4, <2>1 DEF BlockOK, storedVars
<1>6. eof' \in SUBSET Task
  BY <1>2 DEF EndSource, CloseCurrent, TasksOf, Task, BlocksInv, PipeTypeOK, Locals
<1> QED
  BY <1>a, <1>c, <1>4, <1>5, <1>6, LocalFrame DEF BlocksInv, PipeTypeOK

\* The end of the body, or an error, lets the request wait for its tasks.
LEMMA SourceOverInv ==
    ASSUME BlocksInv, UNCHANGED setup, NEW r \in Req, WriteFails(r) \/ SourceFails(r) \/ SourceEnds(r)
    PROVE  BlocksInv'
BY EndSourceInv DEF WriteFails, SourceFails, SourceEnds

\* What join_task leaves of the locals.
LEMMA JoinInv ==
    ASSUME BlocksInv, UNCHANGED setup, NEW r \in Req, NEW i \in up[r].running,
           up[r].pc \in {"reap", "drain"}, task[<<r, i>>] \in Ended,
           NEW pc \in {"source", "drain"},
           up[r].pc = "reap" => pc = IF Join(r, i).failed THEN "drain" ELSE "source",
           up[r].pc = "drain" => pc = "drain",
           up' = [up EXCEPT ![r] = [Join(r, i) EXCEPT !.pc = pc]],
           UNCHANGED <<task, storedVars, fed, eof, aborting, cleanups, deletes>>
    PROVE  BlocksInv'
<1>1. PICK l : l = [Join(r, i) EXCEPT !.pc = pc]
  OBVIOUS
<1>2. LocalsOK(up[r]) /\ up[r] \in Locals /\ i \in Ordinal
  BY DEF BlocksInv, PipeTypeOK, Locals
<1>3. /\ l.running = up[r].running \ {i}
      /\ l.uploaded = IF task[<<r, i>>] = "done" THEN up[r].uploaded \cup {i} ELSE up[r].uploaded
      /\ l.failed = (up[r].failed \/ task[<<r, i>>] # "done")
      /\ l.pc = pc /\ l \in Locals
      /\ l.next = up[r].next /\ l.length = up[r].length /\ l.mode = up[r].mode
      /\ l.current = up[r].current /\ l.closed = up[r].closed /\ l.refs = up[r].refs
      /\ l.todo = up[r].todo /\ l.spool = up[r].spool
  BY <1>1, <1>2 DEF Join, Locals, Active
<1>4. (pc = "source" => ~l.failed) /\ (pc = "drain" /\ ~l.failed => up[r].pc = "drain")
  BY <1>1, <1>2, <1>3 DEF Join, Locals
<1>5. LocalsOK(l)
  <2>1. ~l.failed => l.current \cup l.running \cup l.uploaded
                      = up[r].current \cup up[r].running \cup up[r].uploaded
    BY <1>3
  <2> QED
    BY <1>2, <1>3, <1>4, <2>1 DEF LocalsOK, Over, Feeding
<1>6. up' = [up EXCEPT ![r] = l] /\ up'[r] = l
  BY <1>1 DEF BlocksInv, PipeTypeOK
<1>7. ASSUME NEW j \in Ordinal PROVE BlockOK(r, j)'
  <2>1. BlockOK(r, j) /\ StoredOK(<<r, j>>)'
    BY DEF BlocksInv, BlockOK, StoredOK, storedVars
  <2>2. task[<<r, j>>] \notin Ended => j # i
    OBVIOUS
  <2>3. /\ up'[r].pc # "cancelled" /\ up[r].pc # "cancelled" /\ up[r].pc # "ok"
        /\ up'[r].pc \notin {"cleanup", "error", "ok"}
    BY <1>3, <1>6
  <2>4. j \in l.refs \cup l.uploaded => task[<<r, j>>] = "done"
    BY <1>3, <2>1 DEF BlockOK
  <2>5. task[<<r, j>>] \notin Ended => j \in l.current \cup l.running
    BY <1>3, <2>1, <2>2, <2>3 DEF BlockOK
  <2> QED
    BY <1>3, <1>6, <2>1, <2>3, <2>4, <2>5 DEF BlockOK, storedVars
<1> QED
  BY <1>3, <1>5, <1>6, <1>7, LocalFrame DEF BlocksInv, PipeTypeOK

\* ReapOne (reap_one) keeps the invariant.
LEMMA ReapOneInv ==
    ASSUME BlocksInv, UNCHANGED setup, NEW r \in Req, ReapOne(r) PROVE BlocksInv'
<1>1. PICK i \in up[r].running :
        /\ task[<<r, i>>] \in Ended
        /\ up' = [up EXCEPT ![r] = [Join(r, i) EXCEPT !.pc = IF Join(r, i).failed THEN "drain" ELSE "source"]]
  BY DEF ReapOne
<1> QED
  BY <1>1, JoinInv DEF ReapOne

\* DrainTask (drain_tasks) keeps the invariant.
LEMMA DrainTaskInv ==
    ASSUME BlocksInv, UNCHANGED setup, NEW r \in Req, DrainTask(r) PROVE BlocksInv'
<1>1. PICK i \in up[r].running : task[<<r, i>>] \in Ended /\ up' = [up EXCEPT ![r] = Join(r, i)]
  BY DEF DrainTask
<1>2. Join(r, i) = [Join(r, i) EXCEPT !.pc = "drain"]
  BY DEF DrainTask, Join, BlocksInv, PipeTypeOK, Locals
<1> QED
  BY <1>1, <1>2, JoinInv DEF DrainTask

\* OpenPipe (start_pipe_task) keeps the invariant.
LEMMA OpenPipeInv ==
    ASSUME BlocksInv, UNCHANGED setup, NEW r \in Req, OpenPipe(r) PROVE BlocksInv'
<1>1. PICK n : n = up[r].next
  OBVIOUS
<1>2. PICK l : l = [up[r] EXCEPT !.current = {n}, !.next = n + 1]
  OBVIOUS
<1>3. /\ LocalsOK(up[r]) /\ up[r] \in Locals /\ up[r].pc = "source" /\ up[r].mode = "known"
      /\ up[r].current = {} /\ n + 1 <= up[r].length /\ n \in Ordinal /\ n + 1 \in 0..MaxBlocks
  BY <1>1, Bounds DEF OpenPipe, BlocksInv, PipeTypeOK, Locals
<1>4. /\ l \in Locals /\ l.pc = "source" /\ l.mode = "known" /\ l.current = {n} /\ l.next = n + 1
      /\ l.running = up[r].running /\ l.uploaded = up[r].uploaded
  BY <1>2, <1>3 DEF Locals
<1>5. /\ l.length = up[r].length /\ l.closed = up[r].closed /\ l.refs = up[r].refs
      /\ l.todo = up[r].todo /\ l.failed = up[r].failed
  BY <1>2, <1>3 DEF Locals
<1>6. LocalsOK(l)
  <2>1. 0..((n + 1) - 1) \subseteq 0..(n - 1) \cup {n}
    BY <1>3, Bounds
  <2>2. 0..(n - 1) \subseteq up[r].running \cup up[r].uploaded
    BY <1>1, <1>3 DEF LocalsOK, Feeding
  <2>3. 0..(l.next - 1) \subseteq l.current \cup l.running \cup l.uploaded
    BY <1>4, <2>1, <2>2
  <2>4. l.current \subseteq {l.next - 1}
    BY <1>3, <1>4, Bounds
  <2> QED
    BY <1>3, <1>4, <1>5, <2>3, <2>4 DEF LocalsOK, Over, Feeding
<1>7. up' = [up EXCEPT ![r] = l] /\ up'[r] = l
  BY <1>1, <1>2, <1>3 DEF OpenPipe, BlocksInv, PipeTypeOK, Locals
<1>8. /\ task' = [task EXCEPT ![<<r, n>>] = "slot"] /\ PipeTypeOK'
      /\ UNCHANGED <<message, row, lost, left, aborting, cleanups, deletes>>
  BY <1>1, <1>3, <1>4, <1>7 DEF OpenPipe, SetTask, BlocksInv, PipeTypeOK, Task, storedVars
<1>9. \A q \in Req, i \in Ordinal : <<q, i>> # <<r, n>> => Same(<<q, i>>)
  BY <1>8 DEF Same, BlocksInv, PipeTypeOK, Task
<1>10. ASSUME NEW i \in Ordinal PROVE BlockOK(r, i)'
  <2>1. CASE i # n
    <3>1. BlockOK(r, i) /\ Same(<<r, i>>) /\ (i >= n + 1 => i >= n)
      BY <1>3, <1>9, <2>1, Bounds DEF BlocksInv
    <3>2. BlockOK(r, i)'
      BY <1>1, <1>3, <1>4, <1>5, <1>7, <2>1, <3>1 DEF BlockOK, StoredOK, Same
    <3> QED
      BY <3>2
  <2>2. CASE i = n
    <3>1. task[<<r, n>>] = "none" /\ StoredOK(<<r, n>>) /\ BlockOK(r, n) /\ ~(n >= n + 1)
      BY <1>1, <1>3, Bounds DEF BlocksInv, BlockOK
    <3>2. task'[<<r, n>>] = "slot"
      BY <1>3, <1>8 DEF BlocksInv, PipeTypeOK, Task
    <3>3. StoredOK(<<r, n>>)' /\ <<r, n>> \notin aborting'
      BY <1>3, <1>8, <3>1, <3>2 DEF StoredOK, BlockOK
    <3>4. row'[<<r, n>>] = "none" /\ n \notin up[r].refs \cup up[r].uploaded
      BY <1>8, <3>1 DEF StoredOK, BlockOK
    <3> QED
      BY <1>4, <1>5, <1>7, <2>2, <3>1, <3>2, <3>3, <3>4 DEF BlockOK
  <2> QED
    BY <2>1, <2>2
<1> QED
  BY <1>4, <1>6, <1>7, <1>8, <1>9, <1>10, RequestFrame

\* A block that was cut joins the tasks the request waits for.
LEMMA PushTaskInv ==
    ASSUME BlocksInv, UNCHANGED setup, NEW r \in Req, NEW i \in Ordinal, up[r].pc = "source",
           NEW l, l \in Locals, l.mode = up[r].mode, l.length = up[r].length,
           l.next \in {up[r].next, i + 1}, l.next <= l.length, i < l.next,
           l.current = {}, up[r].current \subseteq {i}, l.running = up[r].running \cup {i},
           l.uploaded = up[r].uploaded, l.failed = up[r].failed, l.closed = up[r].closed,
           l.refs = up[r].refs, l.todo = up[r].todo, l.spool = up[r].spool,
           l.pc \in {"source", "reap"}, l.next # up[r].next => i = up[r].next,
           up' = [up EXCEPT ![r] = l], PipeTypeOK',
           \/ UNCHANGED task
           \/ /\ task[<<r, i>>] = "none" /\ task' = [task EXCEPT ![<<r, i>>] = "open"]
              /\ l.mode = "spool"
           \/ /\ task[<<r, i>>] = "none" /\ task' = [task EXCEPT ![<<r, i>>] = "slot"],
           UNCHANGED <<storedVars, aborting, cleanups, deletes>>
    PROVE  BlocksInv'
<1>1. LocalsOK(up[r]) /\ up[r] \in Locals /\ up'[r] = l /\ i \in Nat
  BY Bounds DEF BlocksInv, PipeTypeOK
<1>2. LocalsOK(l)
  <2>1. 0..(up[r].next - 1) \subseteq up[r].current \cup up[r].running \cup up[r].uploaded
    BY <1>1 DEF LocalsOK, Feeding
  <2>2. 0..(l.next - 1) \subseteq 0..(up[r].next - 1) \cup {i}
    BY <1>1, Bounds DEF Locals
  <2>3. 0..(l.next - 1) \subseteq l.current \cup l.running \cup l.uploaded
    BY <2>1, <2>2
  <2> QED
    BY <1>1, <2>3 DEF LocalsOK, Over, Feeding
<1>3. \A q \in Req, j \in Ordinal : <<q, j>> # <<r, i>> => Same(<<q, j>>)
  BY DEF Same, BlocksInv, PipeTypeOK, Task, storedVars
<1>4. ASSUME NEW j \in Ordinal, j # i PROVE BlockOK(r, j)'
  <2>1. BlockOK(r, j) /\ Same(<<r, j>>) /\ (j >= l.next => j >= up[r].next)
    BY <1>1, <1>3, <1>4, Bounds DEF BlocksInv, Locals
  <2>2. j \in up[r].current \cup up[r].running => j \in l.current \cup l.running
    BY <1>4
  <2> QED
    BY <1>1, <2>1, <2>2 DEF BlockOK, StoredOK, Same
<1>5. BlockOK(r, i)'
  <2>1. BlockOK(r, i) /\ StoredOK(<<r, i>>) /\ ~(i >= l.next) /\ i \in l.running
    BY <1>1, Bounds DEF BlocksInv, BlockOK, Locals
  <2>2. \/ task'[<<r, i>>] = task[<<r, i>>]
        \/ /\ task[<<r, i>>] = "none"
           /\ task'[<<r, i>>] = "slot" \/ (task'[<<r, i>>] = "open" /\ l.mode = "spool")
    BY DEF BlocksInv, PipeTypeOK, Task
  <2>3. StoredOK(<<r, i>>)'
    BY <2>1, <2>2 DEF StoredOK, storedVars
  <2>4. row'[<<r, i>>] = row[<<r, i>>] /\ message'[<<r, i>>] = message[<<r, i>>]
    BY DEF storedVars
  <2>5. task[<<r, i>>] = "none" => row[<<r, i>>] = "none" /\ i \notin up[r].refs \cup up[r].uploaded
    BY <2>1 DEF StoredOK, BlockOK
  <2>6. CASE task'[<<r, i>>] = task[<<r, i>>]
    BY <1>1, <2>1, <2>3, <2>4, <2>6 DEF BlockOK, storedVars
  <2>7. CASE task'[<<r, i>>] \in {"slot", "open"} /\ task[<<r, i>>] = "none"
    BY <1>1, <2>1, <2>2, <2>3, <2>4, <2>5, <2>7 DEF BlockOK, storedVars
  <2> QED
    BY <2>2, <2>6, <2>7
<1> QED
  BY <1>1, <1>2, <1>3, <1>4, <1>5, RequestFrame

\* A request that spawned a task for a block waits for one when the list is full.
LEMMA PushedLocals ==
    ASSUME NEW u \in Locals, NEW i \in Ordinal, u.pc = "source"
    PROVE  /\ PushTask(u, i) \in Locals /\ PushTask(u, i).running = u.running \cup {i}
           /\ PushTask(u, i).pc \in {"source", "reap"}
           /\ PushTask(u, i).mode = u.mode /\ PushTask(u, i).length = u.length
           /\ PushTask(u, i).next = u.next /\ PushTask(u, i).current = u.current
           /\ PushTask(u, i).uploaded = u.uploaded /\ PushTask(u, i).failed = u.failed
           /\ PushTask(u, i).closed = u.closed /\ PushTask(u, i).refs = u.refs
           /\ PushTask(u, i).todo = u.todo /\ PushTask(u, i).spool = u.spool
<1>1. CASE Cardinality(u.running) + 1 >= setup.concurrency
  BY <1>1 DEF PushTask, Locals, Active
<1>2. CASE ~(Cardinality(u.running) + 1 >= setup.concurrency)
  BY <1>2 DEF PushTask, Locals, Active
<1> QED
  BY <1>1, <1>2

\* WriteBlock (upload_known_length) keeps the invariant.
LEMMA WriteBlockInv ==
    ASSUME BlocksInv, UNCHANGED setup, NEW r \in Req, WriteBlock(r) PROVE BlocksInv'
<1>1. PICK i \in up[r].current :
        /\ fed' = fed \cup {<<r, i>>} /\ eof' = eof \cup {<<r, i>>}
        /\ up' = [up EXCEPT ![r] = PushTask([up[r] EXCEPT !.current = {}], i)]
  BY DEF WriteBlock
<1>2. PICK u : u = [up[r] EXCEPT !.current = {}]
  OBVIOUS
<1>3. /\ up[r] \in Locals /\ up[r].pc = "source" /\ LocalsOK(up[r]) /\ i \in Ordinal
      /\ UNCHANGED <<task, storedVars, aborting, cleanups, deletes>>
  BY DEF WriteBlock, BlocksInv, PipeTypeOK, Locals
<1>4. /\ u \in Locals /\ u.pc = "source" /\ u.mode = up[r].mode /\ u.length = up[r].length
      /\ u.next = up[r].next /\ u.current = {} /\ u.running = up[r].running
  BY <1>2, <1>3 DEF Locals
<1>5. /\ u.uploaded = up[r].uploaded /\ u.failed = up[r].failed /\ u.closed = up[r].closed
      /\ u.refs = up[r].refs /\ u.todo = up[r].todo /\ u.spool = up[r].spool
  BY <1>2, <1>3 DEF Locals
<1>6. PICK l : l = PushTask(u, i)
  OBVIOUS
<1>7. up' = [up EXCEPT ![r] = l]
  BY <1>1, <1>2, <1>6
<1>8. l \in Locals
  BY <1>3, <1>4, <1>6, PushedLocals
<1>9. PipeTypeOK'
  BY <1>1, <1>3, <1>7, <1>8 DEF BlocksInv, PipeTypeOK, Task, storedVars
<1>10. i < up[r].next /\ up[r].current = {i} /\ up[r].next <= up[r].length
  BY <1>3 DEF LocalsOK, Locals
<1>11. /\ l.running = up[r].running \cup {i} /\ l.pc \in {"source", "reap"}
       /\ l.mode = up[r].mode /\ l.length = up[r].length /\ l.next = up[r].next
       /\ l.current = {} /\ l.uploaded = up[r].uploaded /\ l.failed = up[r].failed
       /\ l.closed = up[r].closed /\ l.refs = up[r].refs /\ l.todo = up[r].todo
       /\ l.spool = up[r].spool
  BY <1>3, <1>4, <1>5, <1>6, PushedLocals
<1> QED
  BY <1>3, <1>7, <1>8, <1>9, <1>10, <1>11, PushTaskInv

\* StartFileTask (upload_spooled) keeps the invariant.
LEMMA StartFileTaskInv ==
    ASSUME BlocksInv, UNCHANGED setup, NEW r \in Req, StartFileTask(r) PROVE BlocksInv'
<1>1. PICK n : n = up[r].next
  OBVIOUS
<1>2. /\ up[r] \in Locals /\ up[r].pc = "source" /\ up[r].mode = "spool" /\ LocalsOK(up[r])
      /\ up' = [up EXCEPT ![r] = PushTask([up[r] EXCEPT !.next = n + 1], n)]
      /\ task' = [task EXCEPT ![<<r, n>>] = "open"]
      /\ UNCHANGED <<storedVars, fed, eof, aborting, cleanups, deletes>>
  <2>1. up[r].pc = "source" /\ up[r].mode = "spool"
    BY DEF StartFileTask
  <2>2. up' = [up EXCEPT ![r] = PushTask([up[r] EXCEPT !.next = n + 1], n)]
    <3>1. up' = [up EXCEPT ![r] = PushTask([up[r] EXCEPT !.next = up[r].next + 1], up[r].next)]
      BY DEF StartFileTask
    <3> QED
      BY <1>1, <3>1
  <2>3. task' = [task EXCEPT ![<<r, n>>] = "open"]
    BY <1>1 DEF StartFileTask, SetTask
  <2> QED
    BY <2>1, <2>2, <2>3 DEF StartFileTask, BlocksInv, PipeTypeOK
<1>3. n + 1 <= up[r].length /\ n \in Ordinal /\ n + 1 \in 0..MaxBlocks /\ n < n + 1
  BY <1>1, <1>2, Bounds DEF StartFileTask, Locals
<1>4. PICK u : u = [up[r] EXCEPT !.next = n + 1]
  OBVIOUS
<1>5. /\ u \in Locals /\ u.pc = "source" /\ u.mode = "spool" /\ u.length = up[r].length
      /\ u.next = n + 1 /\ u.current = up[r].current /\ u.running = up[r].running
  BY <1>2, <1>3, <1>4 DEF Locals
<1>6. /\ u.uploaded = up[r].uploaded /\ u.failed = up[r].failed /\ u.closed = up[r].closed
      /\ u.refs = up[r].refs /\ u.todo = up[r].todo /\ u.spool = up[r].spool
  BY <1>2, <1>3, <1>4 DEF Locals
<1>7. PICK l : l = PushTask(u, n)
  OBVIOUS
<1>8. up' = [up EXCEPT ![r] = l]
  BY <1>2, <1>4, <1>7
<1>9. l \in Locals
  BY <1>2, <1>3, <1>5, <1>7, PushedLocals
<1>10. PipeTypeOK'
  BY <1>2, <1>3, <1>8, <1>9 DEF BlocksInv, PipeTypeOK, Task, storedVars
<1>11. up[r].current = {} /\ task[<<r, n>>] = "none"
  BY <1>1, <1>2, <1>3, Bounds DEF BlocksInv, LocalsOK, BlockOK
<1>12. /\ l.running = up[r].running \cup {n} /\ l.pc \in {"source", "reap"}
       /\ l.mode = "spool" /\ l.length = up[r].length /\ l.next = n + 1
       /\ l.current = up[r].current /\ l.uploaded = up[r].uploaded /\ l.failed = up[r].failed
       /\ l.closed = up[r].closed /\ l.refs = up[r].refs /\ l.todo = up[r].todo
       /\ l.spool = up[r].spool
  BY <1>2, <1>3, <1>5, <1>6, <1>7, PushedLocals
<1>13. /\ up[r].current \subseteq {n} /\ l.current = {} /\ l.mode = up[r].mode
       /\ l.next \in {up[r].next, n + 1} /\ l.next <= l.length /\ n < l.next
       /\ l.next # up[r].next => n = up[r].next
  BY <1>1, <1>2, <1>3, <1>11, <1>12
<1> QED
  BY <1>2, <1>3, <1>8, <1>9, <1>10, <1>11, <1>12, <1>13, PushTaskInv

----------------------------------------------------------------------------
(* Cleanups and deletions, in the request or in spawned tasks.             *)

\* A stored block that was cleaned up is claimed, unless it was left to the scan.
LEMMA CleanupBlockFacts ==
    ASSUME BlocksInv, NEW r \in Req, NEW i \in Ordinal, task[<<r, i>>] = "done",
           CleanupBlock(<<r, i>>)
    PROVE  /\ row'[<<r, i>>] # "none" /\ (row'[<<r, i>>] = "staged" => <<r, i>> \in left')
           /\ message' \in [Task -> {"none", "present", "deleted"}]
           /\ row' \in [Task -> {"none", "staged", "queued", "gone"}]
           /\ UNCHANGED lost /\ left' \in SUBSET Task
           /\ \A s \in Task : s # <<r, i>> =>
                message'[s] = message[s] /\ row'[s] = row[s] /\ (s \in left' <=> s \in left)
<1>1. /\ <<r, i>> \in Task /\ row[<<r, i>>] # "none" /\ message[<<r, i>>] \in {"none", "present", "deleted"}
      /\ message \in [Task -> {"none", "present", "deleted"}] /\ left \in SUBSET Task
      /\ row \in [Task -> {"none", "staged", "queued", "gone"}]
  BY DEF BlocksInv, PipeTypeOK, BlockOK, StoredOK, Task
<1>2. CASE row[<<r, i>>] \notin {"staged", "queued"} /\ UNCHANGED storedVars
  BY <1>1, <1>2 DEF storedVars
<1>3. ASSUME NEW m \in {"none", "present", "deleted"}, NEW w \in {"queued", "gone"},
             message' = [message EXCEPT ![<<r, i>>] = m], row' = [row EXCEPT ![<<r, i>>] = w],
             UNCHANGED <<lost, left>>
      PROVE  /\ row'[<<r, i>>] = w
             /\ message' \in [Task -> {"none", "present", "deleted"}]
             /\ row' \in [Task -> {"none", "staged", "queued", "gone"}]
             /\ \A s \in Task : s # <<r, i>> => message'[s] = message[s] /\ row'[s] = row[s]
  BY <1>1, <1>3
<1>4. ASSUME NEW m \in {"none", "present", "deleted"},
             message' = [message EXCEPT ![<<r, i>>] = m], left' = left \cup {<<r, i>>},
             UNCHANGED <<row, lost>>
      PROVE  /\ message' \in [Task -> {"none", "present", "deleted"}] /\ left' \in SUBSET Task
             /\ \A s \in Task : s # <<r, i>> => message'[s] = message[s] /\ (s \in left' <=> s \in left)
  BY <1>1, <1>4
<1> QED
  BY <1>1, <1>2, <1>3, <1>4 DEF CleanupBlock

\* CleanupNext (cleanup_block_refs) keeps the invariant.
LEMMA CleanupNextInv ==
    ASSUME BlocksInv, UNCHANGED setup, NEW r \in Req, CleanupNext(r) PROVE BlocksInv'
<1>1. PICK i \in up[r].todo :
        CleanupBlock(<<r, i>>) /\ up' = [up EXCEPT ![r] = [up[r] EXCEPT !.todo = up[r].todo \ {i}]]
  BY DEF CleanupNext
<1>2. PICK l : l = [up[r] EXCEPT !.todo = up[r].todo \ {i}]
  OBVIOUS
<1>3. /\ up[r] \in Locals /\ LocalsOK(up[r]) /\ up[r].pc = "cleanup" /\ i \in Ordinal /\ i \in up[r].refs
      /\ UNCHANGED <<task, fed, eof, aborting, cleanups, deletes>>
  BY DEF CleanupNext, BlocksInv, PipeTypeOK, Locals, LocalsOK
<1>4. /\ l \in Locals /\ l.pc = "cleanup" /\ l.todo = up[r].todo \ {i} /\ l.next = up[r].next
      /\ l.mode = up[r].mode /\ l.length = up[r].length /\ l.current = up[r].current
      /\ l.running = up[r].running
  BY <1>2, <1>3 DEF Locals
<1>5. /\ l.uploaded = up[r].uploaded /\ l.refs = up[r].refs /\ l.closed = up[r].closed
      /\ l.failed = up[r].failed /\ l.spool = up[r].spool
  BY <1>2, <1>3 DEF Locals
<1>6. LocalsOK(l)
  BY <1>3, <1>4, <1>5 DEF LocalsOK, Over, Feeding
<1>7. up' = [up EXCEPT ![r] = l] /\ up'[r] = l
  BY <1>1, <1>2 DEF BlocksInv, PipeTypeOK
<1>8. task[<<r, i>>] = "done" /\ BlockOK(r, i) /\ StoredOK(<<r, i>>) /\ up[r].closed
  BY <1>3 DEF BlocksInv, BlockOK, LocalsOK, Over
<1>9. PipeTypeOK'
  <2>1. /\ message' \in [Task -> {"none", "present", "deleted"}]
        /\ row' \in [Task -> {"none", "staged", "queued", "gone"}]
        /\ UNCHANGED lost /\ left' \in SUBSET Task
    BY <1>1, <1>3, <1>8, CleanupBlockFacts
  <2>2. up' \in [Req -> Locals]
    BY <1>4, <1>7 DEF BlocksInv, PipeTypeOK
  <2> QED
    BY <1>3, <2>1, <2>2 DEF BlocksInv, PipeTypeOK
<1>10. \A q \in Req, j \in Ordinal : <<q, j>> # <<r, i>> => Same(<<q, j>>)
  BY <1>1, <1>3, <1>8, CleanupBlockFacts DEF Same, Task
<1>11. BlockOK(r, i)'
  <2>1. /\ row'[<<r, i>>] # "none" /\ (row'[<<r, i>>] = "staged" => <<r, i>> \in left')
        /\ task'[<<r, i>>] = "done"
    BY <1>1, <1>3, <1>8, CleanupBlockFacts
  <2>2. StoredOK(<<r, i>>)'
    BY <1>3, <1>8, <2>1 DEF StoredOK
  <2> QED
    BY <1>3, <1>4, <1>5, <1>7, <1>8, <2>1, <2>2 DEF BlockOK, Ended
<1>12. ASSUME NEW j \in Ordinal, j # i PROVE BlockOK(r, j)'
  BY <1>3, <1>4, <1>5, <1>7, <1>10, <1>12 DEF BlocksInv, BlockOK, StoredOK, Same
<1> QED
  BY <1>4, <1>6, <1>7, <1>9, <1>10, <1>11, <1>12, RequestFrame

\* SpawnedCleanup (UploadCleanup::spawn_cleanup) keeps the invariant.
LEMMA SpawnedCleanupInv ==
    ASSUME BlocksInv, UNCHANGED setup, NEW r \in Req, NEW i \in Ordinal, SpawnedCleanup(<<r, i>>)
    PROVE  BlocksInv'
<1>1. /\ <<r, i>> \in cleanups /\ CleanupBlock(<<r, i>>) /\ cleanups' = cleanups \ {<<r, i>>}
      /\ UNCHANGED <<up, task, fed, eof, aborting, deletes>>
  BY DEF SpawnedCleanup
<1>2. task[<<r, i>>] = "done" /\ BlockOK(r, i) /\ StoredOK(<<r, i>>)
  BY <1>1 DEF BlocksInv, BlockOK, StoredOK
<1>3. PipeTypeOK'
  BY <1>1, <1>2, CleanupBlockFacts DEF BlocksInv, PipeTypeOK
<1>4. \A s \in Task : s # <<r, i>> => Same(s)
  BY <1>1, <1>2, CleanupBlockFacts DEF Same, Task
<1>5. BlockOK(r, i)'
  <2>1. row'[<<r, i>>] # "none" /\ (row'[<<r, i>>] = "staged" => <<r, i>> \in left')
    BY <1>1, <1>2, CleanupBlockFacts
  <2>2. StoredOK(<<r, i>>)'
    BY <1>1, <1>2, <2>1 DEF StoredOK
  <2> QED
    BY <1>1, <1>2, <2>1, <2>2 DEF BlockOK, Ended
<1> QED
  BY <1>1, <1>3, <1>4, <1>5, BlockFrame

\* SpawnedDelete (MessageCleanupGuard::drop) keeps the invariant.
LEMMA SpawnedDeleteInv ==
    ASSUME BlocksInv, UNCHANGED setup, NEW r \in Req, NEW i \in Ordinal, SpawnedDelete(<<r, i>>)
    PROVE  BlocksInv'
<1>1. /\ <<r, i>> \in deletes /\ deletes' = deletes \ {<<r, i>>} /\ <<r, i>> \in Task
      /\ \/ message' = [message EXCEPT ![<<r, i>>] = "deleted"] /\ UNCHANGED lost
         \/ lost' = lost \cup {<<r, i>>} /\ UNCHANGED message
      /\ UNCHANGED <<up, task, row, left, fed, eof, aborting, cleanups>>
  BY DEF SpawnedDelete, DeleteMessage, Task
<1>2. task[<<r, i>>] = "gone" /\ BlockOK(r, i) /\ StoredOK(<<r, i>>)
  BY <1>1 DEF BlocksInv, BlockOK, StoredOK
<1>3. PipeTypeOK'
  BY <1>1 DEF BlocksInv, PipeTypeOK
<1>4. \A s \in Task : s # <<r, i>> => Same(s)
  BY <1>1 DEF Same, BlocksInv, PipeTypeOK
<1>5. StoredOK(<<r, i>>)'
  BY <1>1, <1>2 DEF StoredOK, BlocksInv, PipeTypeOK
<1>6. BlockOK(r, i)'
  BY <1>1, <1>2, <1>5 DEF BlockOK
<1> QED
  BY <1>1, <1>3, <1>4, <1>6, BlockFrame

\* Cancel (UploadCleanupGuard::drop) keeps the invariant.
LEMMA CancelInv ==
    ASSUME BlocksInv, UNCHANGED setup, NEW r \in Req, Cancel(r) PROVE BlocksInv'
<1>1. PICK l : l = [Idle EXCEPT !.pc = "cancelled", !.mode = up[r].mode, !.closed = TRUE,
                       !.length = up[r].length, !.next = up[r].next,
                       !.spool = IF up[r].spool = "present" THEN "dropped" ELSE up[r].spool]
  OBVIOUS
<1>2. /\ up[r].pc \in Active /\ up[r] \in Locals /\ LocalsOK(up[r])
      /\ aborting' = aborting \cup TasksOf(r, up[r].running)
      /\ cleanups' = cleanups \cup TasksOf(r, up[r].refs)
      /\ eof' = eof \cup TasksOf(r, up[r].current)
      /\ UNCHANGED <<task, storedVars, fed, deletes>>
  BY DEF Cancel, CloseCurrent, BlocksInv, PipeTypeOK
<1>3. Idle \in Locals
  BY Bounds DEF Idle, Locals, Active, Over
<1>4. /\ l.pc = "cancelled" /\ l.mode = up[r].mode /\ l.closed = TRUE /\ l.length = up[r].length
      /\ l.next = up[r].next
  BY <1>1 DEF Idle
<1>5. /\ l.current = {} /\ l.running = {} /\ l.uploaded = {} /\ l.refs = {} /\ l.todo = {}
      /\ l.spool = IF up[r].spool = "present" THEN "dropped" ELSE up[r].spool
  BY <1>1 DEF Idle
<1>6. l \in Locals
  <2>1. PICK spool \in {"none", "present", "dropped", "removed"} :
          spool = IF up[r].spool = "present" THEN "dropped" ELSE up[r].spool
    BY <1>2 DEF Locals
  <2>2. l = [Idle EXCEPT !.pc = "cancelled", !.mode = up[r].mode, !.closed = TRUE,
                         !.length = up[r].length, !.next = up[r].next, !.spool = spool]
    BY <1>1, <2>1
  <2> QED
    BY <1>2, <1>3, <2>2 DEF Locals, Over
<1>7. LocalsOK(l)
  BY <1>2, <1>4, <1>5 DEF LocalsOK, Active, Over, Feeding
<1>8. up' = [up EXCEPT ![r] = l] /\ up'[r] = l
  BY <1>1 DEF Cancel, BlocksInv, PipeTypeOK
<1>9. /\ TasksOf(r, up[r].running) \subseteq Task /\ TasksOf(r, up[r].refs) \subseteq Task
      /\ TasksOf(r, up[r].current) \subseteq Task
  BY <1>2 DEF TasksOf, Task, Locals
<1>10. PipeTypeOK'
  BY <1>2, <1>6, <1>8, <1>9 DEF BlocksInv, PipeTypeOK, storedVars
<1>11. \A q \in Req, i \in Ordinal : q # r => Same(<<q, i>>)
  BY <1>2 DEF Same, TasksOf, storedVars
<1>12. ASSUME NEW i \in Ordinal PROVE BlockOK(r, i)'
  <2>1. BlockOK(r, i) /\ StoredOK(<<r, i>>) /\ task[<<r, i>>] # "gone"
    BY <1>2 DEF BlocksInv, BlockOK, Active
  <2>2. <<r, i>> \in cleanups' <=> <<r, i>> \in cleanups \/ i \in up[r].refs
    BY <1>2 DEF TasksOf
  <2>3. i \in up[r].refs => task[<<r, i>>] = "done"
    BY <2>1 DEF BlockOK
  <2>4. StoredOK(<<r, i>>)'
    BY <1>2, <2>1, <2>2, <2>3 DEF StoredOK, storedVars
  <2>5. row[<<r, i>>] = "staged" => <<r, i>> \in cleanups' \cup left'
    BY <1>2, <2>1, <2>2 DEF BlockOK, StoredOK, LocalsOK, Active, Over, storedVars, BlocksInv, PipeTypeOK, Task, Ended
  <2> QED
    BY <1>2, <1>4, <1>5, <1>8, <2>1, <2>4, <2>5 DEF BlockOK, storedVars
<1> QED
  BY <1>6, <1>7, <1>8, <1>10, <1>11, <1>12, RequestFrame

----------------------------------------------------------------------------
(* The steps of a block's task.                                            *)

\* A task that goes on to another step, and stores nothing.
LEMMA TaskStepInv ==
    ASSUME BlocksInv, UNCHANGED setup, NEW r \in Req, NEW i \in Ordinal, NEW s,
           SetTask(<<r, i>>, s),
           \/ task[<<r, i>>] = "open" /\ s \in {"slot", "failed"}
           \/ task[<<r, i>>] = "slot" /\ s = "sending"
           \/ task[<<r, i>>] = "sending" /\ s = "failed"
           \/ task[<<r, i>>] = "staging" /\ s = "discard",
           UNCHANGED <<up, storedVars, fed, eof, aborting, cleanups, deletes>>
    PROVE  BlocksInv'
<1>1. /\ BlockOK(r, i) /\ StoredOK(<<r, i>>) /\ <<r, i>> \in Task
      /\ task' = [task EXCEPT ![<<r, i>>] = s] /\ task'[<<r, i>>] = s
  BY DEF BlocksInv, PipeTypeOK, BlockOK, SetTask, Task
<1>2. PipeTypeOK'
  BY <1>1 DEF BlocksInv, PipeTypeOK, storedVars, Ended
<1>3. \A t \in Task : t # <<r, i>> => Same(t)
  BY <1>1 DEF Same, BlocksInv, PipeTypeOK, storedVars
<1>4. StoredOK(<<r, i>>)'
  BY <1>1 DEF StoredOK, storedVars
<1>5. BlockOK(r, i)'
  BY <1>1, <1>4 DEF BlockOK, StoredOK, storedVars, Ended
<1> QED
  BY <1>2, <1>3, <1>5, BlockFrame

\* Steps of a task that store nothing keep the invariant.
LEMMA QuietTaskInv ==
    ASSUME BlocksInv, UNCHANGED setup, NEW r \in Req, NEW i \in Ordinal,
           OpenFile(<<r, i>>) \/ TakeSlot(<<r, i>>) \/ StagingFails(<<r, i>>)
    PROVE  BlocksInv'
BY TaskStepInv DEF OpenFile, TakeSlot, StagingFails

\* A message that has arrived belongs to its task.
LEMMA SentInv ==
    ASSUME BlocksInv, UNCHANGED setup, NEW r \in Req, NEW i \in Ordinal, Sent(<<r, i>>) PROVE BlocksInv'
<1>1. PICK s \in {"staging", "discard"} : task' = [task EXCEPT ![<<r, i>>] = s]
  BY DEF Sent, SetTask
<1>2. /\ task[<<r, i>>] = "sending" /\ message' = [message EXCEPT ![<<r, i>>] = "present"]
      /\ UNCHANGED <<up, row, lost, left, fed, eof, aborting, cleanups, deletes>>
  BY DEF Sent
<1>3. BlockOK(r, i) /\ StoredOK(<<r, i>>) /\ <<r, i>> \in Task
  BY DEF BlocksInv, BlockOK, Task
<1>4. PipeTypeOK' /\ task'[<<r, i>>] = s /\ message'[<<r, i>>] = "present"
  BY <1>1, <1>2, <1>3 DEF BlocksInv, PipeTypeOK
<1>5. \A t \in Task : t # <<r, i>> => Same(t)
  BY <1>1, <1>2 DEF Same, BlocksInv, PipeTypeOK
<1>6. StoredOK(<<r, i>>)'
  BY <1>2, <1>3, <1>4 DEF StoredOK
<1>7. BlockOK(r, i)'
  BY <1>2, <1>3, <1>4, <1>6 DEF BlockOK, StoredOK, Ended
<1> QED
  BY <1>2, <1>4, <1>5, <1>7, BlockFrame

\* SendFails (BotApiClient::upload_stream) keeps the invariant.
LEMMA SendFailsInv ==
    ASSUME BlocksInv, UNCHANGED setup, NEW r \in Req, NEW i \in Ordinal, SendFails(<<r, i>>)
    PROVE  BlocksInv'
<1>1. /\ task[<<r, i>>] = "sending" /\ SetTask(<<r, i>>, "failed")
      /\ UNCHANGED <<up, fed, eof, aborting, cleanups, deletes>>
  BY DEF SendFails
<1>2. CASE UNCHANGED storedVars
  BY <1>1, <1>2, TaskStepInv
<1>3. CASE /\ message' = [message EXCEPT ![<<r, i>>] = "present"]
           /\ lost' = lost \cup {<<r, i>>} /\ UNCHANGED <<row, left>>
  <2>1. BlockOK(r, i) /\ StoredOK(<<r, i>>) /\ <<r, i>> \in Task
    BY DEF BlocksInv, BlockOK, Task
  <2>2. PipeTypeOK' /\ task'[<<r, i>>] = "failed" /\ message'[<<r, i>>] = "present"
    BY <1>1, <1>3, <2>1 DEF BlocksInv, PipeTypeOK, SetTask, Ended
  <2>3. \A t \in Task : t # <<r, i>> => Same(t)
    BY <1>1, <1>3 DEF Same, BlocksInv, PipeTypeOK, SetTask
  <2>4. StoredOK(<<r, i>>)'
    BY <1>1, <1>3, <2>1, <2>2 DEF StoredOK
  <2>5. BlockOK(r, i)'
    BY <1>1, <1>3, <2>1, <2>2, <2>4 DEF BlockOK, StoredOK, Ended
  <2> QED
    BY <1>1, <2>2, <2>3, <2>5, BlockFrame
<1> QED
  BY <1>2, <1>3 DEF SendFails

\* Discard (MessageCleanupGuard::cleanup) keeps the invariant.
LEMMA DiscardInv ==
    ASSUME BlocksInv, UNCHANGED setup, NEW r \in Req, NEW i \in Ordinal, Discard(<<r, i>>)
    PROVE  BlocksInv'
<1>1. /\ task[<<r, i>>] = "discard" /\ task' = [task EXCEPT ![<<r, i>>] = "failed"]
      /\ \/ message' = [message EXCEPT ![<<r, i>>] = "deleted"] /\ UNCHANGED lost
         \/ lost' = lost \cup {<<r, i>>} /\ UNCHANGED message
      /\ UNCHANGED <<up, row, left, fed, eof, aborting, cleanups, deletes>>
  BY DEF Discard, DeleteMessage, SetTask
<1>2. BlockOK(r, i) /\ StoredOK(<<r, i>>) /\ <<r, i>> \in Task
  BY DEF BlocksInv, BlockOK, Task
<1>3. PipeTypeOK' /\ task'[<<r, i>>] = "failed"
  BY <1>1, <1>2 DEF BlocksInv, PipeTypeOK, Ended
<1>4. \A t \in Task : t # <<r, i>> => Same(t)
  BY <1>1 DEF Same, BlocksInv, PipeTypeOK
<1>5. StoredOK(<<r, i>>)'
  BY <1>1, <1>2, <1>3 DEF StoredOK, BlocksInv, PipeTypeOK
<1>6. BlockOK(r, i)'
  BY <1>1, <1>2, <1>3, <1>5 DEF BlockOK, StoredOK, Ended
<1> QED
  BY <1>1, <1>3, <1>4, <1>6, BlockFrame

\* A block that is staged late goes to a cleanup of its own, one that is staged
\* in time to the registry.
LEMMA StagedInv ==
    ASSUME BlocksInv, UNCHANGED setup, NEW r \in Req, NEW i \in Ordinal, Staged(<<r, i>>)
    PROVE  BlocksInv'
<1>1. /\ task[<<r, i>>] = "staging" /\ row' = [row EXCEPT ![<<r, i>>] = "staged"]
      /\ task' = [task EXCEPT ![<<r, i>>] = "done"]
      /\ UNCHANGED <<message, lost, left, fed, eof, aborting, deletes>>
  BY DEF Staged, SetTask
<1>2. /\ BlockOK(r, i) /\ StoredOK(<<r, i>>) /\ <<r, i>> \in Task
      /\ up[r] \in Locals /\ LocalsOK(up[r])
  BY DEF BlocksInv, PipeTypeOK, BlockOK, Task
<1>3. /\ row'[<<r, i>>] = "staged" /\ task'[<<r, i>>] = "done" /\ message'[<<r, i>>] = "present"
      /\ <<r, i>> \notin cleanups /\ <<r, i>> \notin deletes' /\ i < up[r].next
  BY <1>1, <1>2, Bounds DEF BlocksInv, PipeTypeOK, BlockOK, StoredOK, Locals
<1>4. CASE up[r].closed
  <2>1. cleanups' = cleanups \cup {<<r, i>>} /\ UNCHANGED up
    BY <1>4 DEF Staged, Register
  <2>2. PipeTypeOK'
    BY <1>1, <1>2, <2>1 DEF BlocksInv, PipeTypeOK, Ended
  <2>3. \A t \in Task : t # <<r, i>> => Same(t)
    BY <1>1, <2>1 DEF Same, BlocksInv, PipeTypeOK
  <2>4. StoredOK(<<r, i>>)'
    BY <1>3 DEF StoredOK
  <2>5. up[r].pc = "cancelled"
    BY <1>1, <1>2, <1>4 DEF BlockOK, LocalsOK, Over, Feeding, Ended
  <2>6. BlockOK(r, i)'
    BY <1>1, <1>2, <1>3, <1>4, <2>1, <2>4, <2>5 DEF BlockOK, LocalsOK
  <2> QED
    BY <2>1, <2>2, <2>3, <2>6, BlockFrame
<1>5. CASE ~up[r].closed
  <2>1. PICK l : l = [up[r] EXCEPT !.refs = up[r].refs \cup {i}]
    OBVIOUS
  <2>2. up' = [up EXCEPT ![r] = l] /\ up'[r] = l /\ UNCHANGED cleanups
    BY <1>5, <2>1 DEF Staged, Register, BlocksInv, PipeTypeOK
  <2>3. /\ l \in Locals /\ l.pc = up[r].pc /\ l.refs = up[r].refs \cup {i} /\ l.next = up[r].next
        /\ l.mode = up[r].mode /\ l.length = up[r].length /\ l.current = up[r].current
        /\ l.running = up[r].running
    BY <1>2, <2>1 DEF Locals
  <2>4. /\ l.uploaded = up[r].uploaded /\ l.todo = up[r].todo /\ l.closed = up[r].closed
        /\ l.failed = up[r].failed /\ l.spool = up[r].spool
    BY <1>2, <2>1 DEF Locals
  <2>5. LocalsOK(l)
    BY <1>2, <1>5, <2>3, <2>4 DEF LocalsOK
  <2>6. PipeTypeOK'
    BY <1>1, <1>2, <2>2, <2>3 DEF BlocksInv, PipeTypeOK, Ended
  <2>7. \A q \in Req, j \in Ordinal : <<q, j>> # <<r, i>> => Same(<<q, j>>)
    BY <1>1, <2>2 DEF Same, BlocksInv, PipeTypeOK, Task
  <2>8. up[r].pc # "cleanup" /\ up[r].pc \notin Over
    BY <1>2, <1>5 DEF LocalsOK
  <2>9. BlockOK(r, i)'
    <3>1. StoredOK(<<r, i>>)'
      BY <1>3 DEF StoredOK
    <3> QED
      BY <1>1, <1>2, <1>3, <1>5, <2>2, <2>3, <2>4, <2>8, <3>1, Bounds DEF BlockOK, Over, Ended, Locals
  <2>10. ASSUME NEW j \in Ordinal, j # i PROVE BlockOK(r, j)'
    BY <2>2, <2>3, <2>4, <2>7, <2>10 DEF BlocksInv, BlockOK, StoredOK, Same
  <2> QED
    BY <2>2, <2>3, <2>5, <2>6, <2>7, <2>9, <2>10, RequestFrame
<1> QED
  BY <1>4, <1>5

\* A block task that is aborted leaves its message to a guard that deletes it.
LEMMA AbortedInv ==
    ASSUME BlocksInv, UNCHANGED setup, NEW r \in Req, NEW i \in Ordinal, Aborted(<<r, i>>)
    PROVE  BlocksInv'
<1>1. /\ <<r, i>> \in aborting /\ task[<<r, i>>] \notin Ended
      /\ task' = [task EXCEPT ![<<r, i>>] = "gone"]
      /\ deletes' = IF task[<<r, i>>] \in {"staging", "discard"} THEN deletes \cup {<<r, i>>} ELSE deletes
      /\ UNCHANGED <<up, fed, eof, aborting, cleanups>>
  BY DEF Aborted, SetTask, GuardDrop
<1>2. BlockOK(r, i) /\ StoredOK(<<r, i>>) /\ <<r, i>> \in Task
  BY DEF BlocksInv, BlockOK, Task
<1>3. /\ up[r].pc = "cancelled" /\ task'[<<r, i>>] = "gone"
      /\ task[<<r, i>>] \in {"open", "slot", "sending", "staging", "discard"}
  BY <1>1, <1>2 DEF BlockOK, BlocksInv, PipeTypeOK, Ended
<1>4. \/ UNCHANGED storedVars
      \/ /\ task[<<r, i>>] = "sending" /\ message' = [message EXCEPT ![<<r, i>>] = "present"]
         /\ lost' = lost \cup {<<r, i>>} /\ UNCHANGED <<row, left>>
      \/ /\ task[<<r, i>>] = "staging" /\ row' = [row EXCEPT ![<<r, i>>] = "staged"]
         /\ left' = left \cup {<<r, i>>} /\ UNCHANGED <<message, lost>>
  BY DEF Aborted
<1>5. PipeTypeOK'
  BY <1>1, <1>2, <1>4 DEF BlocksInv, PipeTypeOK, storedVars, Ended
<1>6. \A t \in Task : t # <<r, i>> => Same(t)
  BY <1>1, <1>4 DEF Same, BlocksInv, PipeTypeOK, storedVars
<1>7. StoredOK(<<r, i>>)'
  BY <1>1, <1>2, <1>3, <1>4 DEF StoredOK, BlocksInv, PipeTypeOK, storedVars
<1>8. row'[<<r, i>>] = "staged" => <<r, i>> \in left'
  BY <1>3, <1>7 DEF StoredOK
<1>9. BlockOK(r, i)'
  BY <1>1, <1>2, <1>3, <1>7, <1>8 DEF BlockOK, Ended
<1> QED
  BY <1>1, <1>5, <1>6, <1>9, BlockFrame

\* Every step keeps the invariant.
LEMMA PipeNextInv == BlocksInv /\ PipeNext /\ UNCHANGED setup => BlocksInv'
<1> SUFFICES ASSUME BlocksInv, PipeNext, UNCHANGED setup PROVE BlocksInv'
  OBVIOUS
<1>1. ASSUME NEW r \in Req, NEW mode \in setup.modes, NEW n \in 0..MaxBlocks, Start(r, mode, n)
      PROVE  BlocksInv'
  BY <1>1, StartInv
<1>2. ASSUME NEW r \in Req, RequestStep(r) PROVE BlocksInv'
  BY <1>2, SpoolWrittenInv, OpenPipeInv, WriteBlockInv, SourceOverInv, StartFileTaskInv,
     ReapOneInv, DrainTaskInv, ConcludeInv, CleanupNextInv, CleanupEndsInv DEF RequestStep
<1>3. ASSUME NEW r \in Req, SpoolFails(r) \/ SourceFails(r) \/ Cancel(r) \/ SpawnedRemove(r)
      PROVE  BlocksInv'
  BY <1>3, SpoolFailsInv, SourceOverInv, CancelInv, SpawnedRemoveInv
<1>4. ASSUME NEW r \in Req, NEW i \in Ordinal,
             \/ TakeSlot(<<r, i>>) \/ TaskStep(<<r, i>>) \/ SendFails(<<r, i>>)
             \/ Aborted(<<r, i>>) \/ Spawned(<<r, i>>)
      PROVE  BlocksInv'
  BY <1>4, QuietTaskInv, SentInv, SendFailsInv, StagedInv, DiscardInv, AbortedInv,
     SpawnedCleanupInv, SpawnedDeleteInv DEF TaskStep, Spawned
<1>5. ASSUME NEW t \in Task, TakeSlot(t) \/ TaskStep(t) \/ SendFails(t) \/ Aborted(t) \/ Spawned(t)
      PROVE  BlocksInv'
  <2>1. PICK r \in Req, i \in Ordinal : t = <<r, i>>
    BY DEF Task
  <2> QED
    BY <1>4, <1>5, <2>1
<1> QED
  BY <1>1, <1>2, <1>3, <1>5 DEF PipeNext

----------------------------------------------------------------------------
(* Who waits for whom.                                                     *)

\* What FlowInv says of one request.
FlowOK(r) ==
    /\ up[r].pc = "reap" => up[r].running # {}
    /\ \A i \in Ordinal : FeedOK(r, i)

\* Whoever gives a slot back, or does not take one, keeps the limit.
LEMMA HoldersShrink ==
    ASSUME SlotsKept, UNCHANGED setup, setup \in Setup, Holders' \subseteq Holders
    PROVE  SlotsKept'
<1>1. setup.concurrency \in Nat
  BY SetupAssumption
<1>2. IsFiniteSet(Holders') /\ Cardinality(Holders') <= Cardinality(Holders)
  BY FS_Subset DEF SlotsKept
<1>3. Cardinality(Holders') \in Nat /\ Cardinality(Holders) \in Nat
  BY <1>2, FS_CardinalityType DEF SlotsKept
<1> QED
  BY <1>1, <1>2, <1>3 DEF SlotsKept

\* A step of one request, which takes no slot.
LEMMA RequestFlow ==
    ASSUME BlocksInv, FlowInv, UNCHANGED setup, NEW r \in Req, NEW l, up' = [up EXCEPT ![r] = l],
           \A t \in Task : HoldsSlot(t)' => HoldsSlot(t),
           \A q \in Req, i \in Ordinal : q # r =>
             /\ task'[<<q, i>>] = task[<<q, i>>]
             /\ <<q, i>> \in fed' <=> <<q, i>> \in fed
             /\ <<q, i>> \in eof' <=> <<q, i>> \in eof,
           FlowOK(r)'
    PROVE  FlowInv'
<1>1. SlotsKept'
  BY HoldersShrink DEF FlowInv, BlocksInv, PipeTypeOK, Holders
<1>2. \A q \in Req : q # r => up'[q] = up[q]
  BY DEF BlocksInv, PipeTypeOK
<1>3. \A q \in Req : q # r => FlowOK(q)'
  BY <1>2 DEF FlowInv, FlowOK, FeedOK
<1> QED
  BY <1>1, <1>3 DEF FlowInv, FlowOK

\* The locals FlowInv reads
Kept(u, l) ==
    /\ l.next = u.next /\ l.current = u.current /\ l.running = u.running /\ l.mode = u.mode
    /\ l.pc = "reap" => u.pc = "reap"

\* A step of one task, which takes no slot.
LEMMA TaskFlow ==
    ASSUME BlocksInv, FlowInv, UNCHANGED <<setup, fed, eof>>,
           \A q \in Req : Kept(up[q], up'[q]),
           NEW r \in Req, NEW i \in Ordinal,
           \A s \in Task : s # <<r, i>> => task'[s] = task[s],
           SlotsKept',
           FeedOK(r, i)'
    PROVE  FlowInv'
<1>1. ASSUME NEW q \in Req, NEW j \in Ordinal PROVE FeedOK(q, j)'
  <2>1. CASE q = r /\ j = i
    BY <2>1
  <2>2. CASE <<q, j>> # <<r, i>>
    <3>1. task'[<<q, j>>] = task[<<q, j>>] /\ <<q, j>> \in Task
      BY <2>2 DEF Task
    <3> QED
      BY <3>1 DEF FlowInv, FeedOK, Kept
  <2> QED
    BY <2>1, <2>2
<1>2. \A q \in Req : up'[q].pc = "reap" => up'[q].running # {}
  BY DEF FlowInv, Kept
<1> QED
  BY <1>1, <1>2 DEF FlowInv

\* At the start nobody holds a slot or writes.
LEMMA FlowInit == PipeInit => FlowInv
<1> SUFFICES ASSUME PipeInit PROVE FlowInv
  OBVIOUS
<1>1. Holders = {}
  BY DEF Holders, HoldsSlot, PipeInit
<1>2. SlotsKept
  BY <1>1, FS_EmptySet, SetupAssumption DEF SlotsKept, PipeInit
<1>3. \A r \in Req : FlowOK(r)
  BY DEF FlowOK, FeedOK, PipeInit, Idle, Task, Ended
<1> QED
  BY <1>2, <1>3 DEF FlowInv, FlowOK

\* Steps that change nothing FlowInv reads but where a request stands.
LEMMA LocalFlow ==
    ASSUME BlocksInv, FlowInv, UNCHANGED <<setup, task, fed, eof>>,
           \A q \in Req : Kept(up[q], up'[q])
    PROVE  FlowInv'
<1>1. SlotsKept'
  BY HoldersShrink DEF FlowInv, BlocksInv, PipeTypeOK, Holders, HoldsSlot
<1>2. \A q \in Req, j \in Ordinal : FeedOK(q, j)'
  BY DEF FlowInv, FeedOK, Kept
<1>3. \A q \in Req : up'[q].pc = "reap" => up'[q].running # {}
  BY DEF FlowInv, Kept
<1> QED
  BY <1>1, <1>2, <1>3 DEF FlowInv

LEMMA QuietFlow ==
    ASSUME BlocksInv, FlowInv, UNCHANGED setup, NEW r \in Req,
           \/ SpoolWritten(r) \/ SpoolFails(r) \/ Conclude(r)
           \/ CleanupNext(r) \/ CleanupEnds(r) \/ SpawnedRemove(r)
    PROVE  FlowInv'
<1>1. up[r] \in Locals /\ up \in [Req -> Locals]
  BY DEF BlocksInv, PipeTypeOK
<1>2. UNCHANGED <<task, fed, eof>>
  BY DEF SpoolWritten, SpoolFails, Conclude, CleanupNext, CleanupEnds, SpawnedRemove
<1>3. \A q \in Req : q # r => up'[q] = up[q]
  BY <1>1 DEF SpoolWritten, SpoolFails, Conclude, CleanupNext, CleanupEnds, SpawnedRemove
<1>4. Kept(up[r], up'[r])
  <2>1. CASE SpoolWritten(r)
    BY <1>1, <2>1 DEF SpoolWritten, Kept, Locals
  <2>2. CASE SpoolFails(r)
    BY <1>1, <2>2 DEF SpoolFails, StartCleanup, Kept, Locals
  <2>3. CASE Conclude(r)
    BY <1>1, <2>3 DEF Conclude, StartCleanup, Kept, Locals
  <2>4. CASE CleanupNext(r)
    <3>1. PICK i : up' = [up EXCEPT ![r].todo = @ \ {i}]
      BY <2>4 DEF CleanupNext
    <3> QED
      BY <1>1, <3>1 DEF Kept, Locals
  <2>6. CASE CleanupEnds(r)
    BY <1>1, <2>6 DEF CleanupEnds, Kept, Locals
  <2>5. CASE SpawnedRemove(r)
    BY <1>1, <2>5 DEF SpawnedRemove, Kept, Locals
  <2> QED
    BY <2>1, <2>2, <2>3, <2>4, <2>5, <2>6
<1>5. \A q \in Req : Kept(up[q], up'[q])
  BY <1>3, <1>4 DEF Kept
<1> QED
  BY <1>2, <1>5, LocalFlow

\* A block that is being written has not been fed, nor has its task ended well.
LEMMA CurrentFacts ==
    ASSUME BlocksInv, FlowInv, NEW r \in Req, NEW i \in up[r].current
    PROVE  /\ i \in Ordinal /\ up[r].pc = "source" /\ i = up[r].next - 1
           /\ task[<<r, i>>] \in {"slot", "sending", "failed"}
           /\ ~HasData(<<r, i>>) /\ <<r, i>> \notin aborting
<1>1. up[r] \in Locals /\ LocalsOK(up[r]) /\ i \in Ordinal
  BY DEF BlocksInv, PipeTypeOK, Locals
<1>2. up[r].pc = "source" /\ i = up[r].next - 1 /\ up[r].mode # "spool"
  BY <1>1 DEF LocalsOK
<1>3. BlockOK(r, i) /\ FeedOK(r, i)
  BY <1>1 DEF BlocksInv, FlowInv
<1> QED
  BY <1>1, <1>2, <1>3 DEF BlockOK, FeedOK, HasData

LEMMA StartFlow ==
    ASSUME BlocksInv, FlowInv, UNCHANGED setup, NEW r \in Req, NEW mode, NEW n, Start(r, mode, n)
    PROVE  FlowInv'
<1>1. PICK l : l = [Idle EXCEPT !.mode = mode, !.length = n,
                       !.pc = IF mode = "spool" THEN "spool" ELSE "source",
                       !.spool = IF mode = "spool" THEN "present" ELSE "none"]
  OBVIOUS
<1>2. up' = [up EXCEPT ![r] = l] /\ up'[r] = l /\ UNCHANGED <<task, fed, eof>>
  BY <1>1 DEF Start, BlocksInv, PipeTypeOK
<1>3. l.pc # "reap" /\ l.current = {}
  BY <1>1 DEF Idle
<1>4. up[r].next = 0 /\ up[r] \in Locals
  BY DEF BlocksInv, PipeTypeOK, LocalsOK, Start
<1>5. \A i \in Ordinal : task[<<r, i>>] = "none" /\ <<r, i>> \notin fed
  BY <1>4, Bounds DEF BlocksInv, BlockOK, FlowInv, FeedOK
<1>6. FlowOK(r)'
  BY <1>2, <1>3, <1>5 DEF FlowOK, FeedOK, Ended
<1> QED
  BY <1>2, <1>6, RequestFlow DEF HoldsSlot

\* A new task is not a holder of a slot, and its pipe is fresh.
LEMMA OpenPipeFlow ==
    ASSUME BlocksInv, FlowInv, UNCHANGED setup, NEW r \in Req, OpenPipe(r) PROVE FlowInv'
<1>1. PICK l : l = [up[r] EXCEPT !.current = {up[r].next}, !.next = up[r].next + 1]
  OBVIOUS
<1>2. up[r] \in Locals /\ up[r].pc = "source" /\ up[r].next < up[r].length /\ up[r].current = {}
  BY DEF BlocksInv, PipeTypeOK, OpenPipe
<1>3. up' = [up EXCEPT ![r] = l] /\ up'[r] = l /\ UNCHANGED <<fed, eof>>
  BY <1>1, <1>2 DEF OpenPipe, BlocksInv, PipeTypeOK
<1>4. l.pc = "source" /\ l.current = {up[r].next} /\ l.next = up[r].next + 1 /\ l.mode = up[r].mode
  BY <1>1, <1>2 DEF Locals
<1>5. \A t \in Task : task'[t] = IF t = <<r, up[r].next>> THEN "slot" ELSE task[t]
  BY DEF OpenPipe, SetTask, BlocksInv, PipeTypeOK
<1>6. ASSUME NEW i \in Ordinal PROVE FeedOK(r, i)'
  <2>1. FeedOK(r, i) /\ <<r, i>> \in Task /\ up[r].next \in Nat /\ i \in Nat
    BY <1>2, Bounds DEF FlowInv, Task, Locals
  <2>2. CASE i = up[r].next
    BY <1>3, <1>4, <1>5, <2>1, <2>2 DEF FeedOK
  <2>3. CASE i # up[r].next
    BY <1>2, <1>3, <1>4, <1>5, <2>1, <2>3 DEF FeedOK
  <2> QED
    BY <2>2, <2>3
<1>7. \A t \in Task : HoldsSlot(t)' => HoldsSlot(t)
  BY <1>5 DEF HoldsSlot
<1>8. FlowOK(r)'
  BY <1>3, <1>4, <1>6 DEF FlowOK
<1>9. \A q \in Req, i \in Ordinal : q # r => task'[<<q, i>>] = task[<<q, i>>]
  BY <1>5 DEF Task
<1> QED
  BY <1>3, <1>7, <1>8, <1>9, RequestFlow

LEMMA StartFileTaskFlow ==
    ASSUME BlocksInv, FlowInv, UNCHANGED setup, NEW r \in Req, StartFileTask(r) PROVE FlowInv'
<1>1. PICK l : l = PushTask([up[r] EXCEPT !.next = up[r].next + 1], up[r].next)
  OBVIOUS
<1>2. /\ up[r] \in Locals /\ LocalsOK(up[r]) /\ up[r].pc = "source" /\ up[r].mode = "spool"
      /\ up[r].next < up[r].length /\ up[r].current = {}
  BY DEF BlocksInv, PipeTypeOK, StartFileTask, LocalsOK
<1>3. up' = [up EXCEPT ![r] = l] /\ up'[r] = l /\ UNCHANGED <<fed, eof>>
  BY <1>1, <1>2 DEF StartFileTask, BlocksInv, PipeTypeOK
<1>4. /\ l.running = up[r].running \cup {up[r].next} /\ l.current = {}
      /\ l.next = up[r].next + 1 /\ l.mode = "spool"
  BY <1>1, <1>2 DEF Locals, PushTask
<1>5. \A t \in Task : task'[t] = IF t = <<r, up[r].next>> THEN "open" ELSE task[t]
  BY DEF StartFileTask, SetTask, BlocksInv, PipeTypeOK
<1>6. ASSUME NEW i \in Ordinal PROVE FeedOK(r, i)'
  <2>1. FeedOK(r, i) /\ up[r].next \in Nat /\ i \in Nat
    BY <1>2, Bounds DEF FlowInv, Locals
  <2> QED
    BY <1>3, <1>4, <2>1 DEF FeedOK
<1>7. \A t \in Task : HoldsSlot(t)' => HoldsSlot(t)
  BY <1>5 DEF HoldsSlot
<1>8. FlowOK(r)'
  BY <1>3, <1>4, <1>6 DEF FlowOK
<1>9. \A q \in Req, i \in Ordinal : q # r => task'[<<q, i>>] = task[<<q, i>>]
  BY <1>5 DEF Task
<1> QED
  BY <1>3, <1>7, <1>8, <1>9, RequestFlow

\* The block is written: its pipe is closed.
LEMMA WriteBlockFlow ==
    ASSUME BlocksInv, FlowInv, UNCHANGED setup, NEW r \in Req, WriteBlock(r) PROVE FlowInv'
<1>1. PICK i \in up[r].current :
        /\ fed' = fed \cup {<<r, i>>} /\ eof' = eof \cup {<<r, i>>} /\ UNCHANGED task
        /\ up' = [up EXCEPT ![r] = PushTask([up[r] EXCEPT !.current = {}], i)]
  BY DEF WriteBlock
<1>2. PICK l : l = PushTask([up[r] EXCEPT !.current = {}], i)
  OBVIOUS
<1>3. up[r] \in Locals /\ LocalsOK(up[r]) /\ i \in Ordinal /\ i = up[r].next - 1
  BY CurrentFacts DEF BlocksInv, PipeTypeOK
<1>4. up' = [up EXCEPT ![r] = l] /\ up'[r] = l
  BY <1>1, <1>2 DEF BlocksInv, PipeTypeOK
<1>5. /\ l.running = up[r].running \cup {i} /\ l.current = {}
      /\ l.next = up[r].next /\ l.mode = up[r].mode
  BY <1>2, <1>3 DEF Locals, PushTask
<1>6. ASSUME NEW j \in Ordinal PROVE FeedOK(r, j)'
  <2>1. FeedOK(r, j) /\ up[r].next \in Nat /\ j \in Nat /\ up[r].current \subseteq {i}
    BY <1>3, Bounds DEF FlowInv, Locals, LocalsOK
  <2> QED
    BY <1>1, <1>3, <1>4, <1>5, <2>1 DEF FeedOK
<1>7. FlowOK(r)'
  BY <1>4, <1>5, <1>6 DEF FlowOK
<1> QED
  BY <1>1, <1>4, <1>7, RequestFlow DEF HoldsSlot

\* The source ends, or the request is dropped: the open pipe is closed.
LEMMA ClosedFlow ==
    ASSUME BlocksInv, FlowInv, UNCHANGED <<setup, task, fed>>, NEW r \in Req, NEW l,
           up' = [up EXCEPT ![r] = l], CloseCurrent(r),
           l.pc # "reap", l.current = {}, l.next = up[r].next, l.mode = up[r].mode
    PROVE  FlowInv'
<1>1. up'[r] = l
  BY DEF BlocksInv, PipeTypeOK
<1>2. ASSUME NEW j \in Ordinal PROVE FeedOK(r, j)'
  BY <1>1 DEF FlowInv, FeedOK, CloseCurrent, TasksOf
<1>3. FlowOK(r)'
  BY <1>1, <1>2 DEF FlowOK
<1>4. \A q \in Req, i \in Ordinal : q # r => (<<q, i>> \in eof' <=> <<q, i>> \in eof)
  BY DEF CloseCurrent, TasksOf
<1> QED
  BY <1>3, <1>4, RequestFlow DEF HoldsSlot

LEMMA SourceOverFlow ==
    ASSUME BlocksInv, FlowInv, UNCHANGED setup, NEW r \in Req,
           WriteFails(r) \/ SourceFails(r) \/ SourceEnds(r)
    PROVE  FlowInv'
<1>1. PICK failed \in BOOLEAN : EndSource(r, failed) /\ UNCHANGED <<task, fed>>
  BY DEF WriteFails, SourceFails, SourceEnds
<1>2. PICK l : l = [up[r] EXCEPT !.pc = "drain", !.failed = up[r].failed \/ failed,
                       !.running = up[r].running \cup up[r].current, !.current = {}]
  OBVIOUS
<1>3. up[r] \in Locals
  BY DEF BlocksInv, PipeTypeOK
<1>4. up' = [up EXCEPT ![r] = l] /\ CloseCurrent(r)
  BY <1>1, <1>2, <1>3, Zenon DEF EndSource, BlocksInv, PipeTypeOK, Locals
<1>5. l.pc = "drain" /\ l.current = {} /\ l.next = up[r].next /\ l.mode = up[r].mode
  BY <1>2, <1>3 DEF Locals
<1> QED
  BY <1>1, <1>4, <1>5, ClosedFlow

LEMMA CancelFlow ==
    ASSUME BlocksInv, FlowInv, UNCHANGED setup, NEW r \in Req, Cancel(r) PROVE FlowInv'
<1>1. PICK l : l = [Idle EXCEPT !.pc = "cancelled", !.mode = up[r].mode, !.closed = TRUE,
                       !.length = up[r].length, !.next = up[r].next,
                       !.spool = IF up[r].spool = "present" THEN "dropped" ELSE up[r].spool]
  OBVIOUS
<1>2. up' = [up EXCEPT ![r] = l] /\ CloseCurrent(r) /\ UNCHANGED <<task, fed>>
  BY <1>1 DEF Cancel
<1>3. l.pc = "cancelled" /\ l.current = {} /\ l.next = up[r].next /\ l.mode = up[r].mode
  BY <1>1 DEF Idle
<1> QED
  BY <1>2, <1>3, ClosedFlow

\* A task that is joined leaves the list.
LEMMA JoinFlow ==
    ASSUME BlocksInv, FlowInv, UNCHANGED setup, NEW r \in Req, ReapOne(r) \/ DrainTask(r)
    PROVE  FlowInv'
<1>1. PICK i \in up[r].running, pc \in {"source", "drain"} :
        /\ up' = [up EXCEPT ![r] = [Join(r, i) EXCEPT !.pc = pc]]
        /\ UNCHANGED <<task, fed, eof>>
  <2>1. up[r] \in Locals
    BY DEF BlocksInv, PipeTypeOK
  <2>2. CASE ReapOne(r)
    <3>1. PICK i \in up[r].running :
            up' = [up EXCEPT ![r] = [Join(r, i) EXCEPT
                     !.pc = IF Join(r, i).failed THEN "drain" ELSE "source"]]
      BY <2>2 DEF ReapOne
    <3> QED
      BY <2>2, <3>1 DEF ReapOne
  <2>3. CASE DrainTask(r)
    <3>1. PICK i \in up[r].running : up' = [up EXCEPT ![r] = Join(r, i)] /\ up[r].pc = "drain"
      BY <2>3 DEF DrainTask
    <3>2. Join(r, i) = [Join(r, i) EXCEPT !.pc = "drain"]
      BY <2>1, <3>1 DEF Join, Locals
    <3> QED
      BY <2>3, <3>1, <3>2 DEF DrainTask
  <2> QED
    BY <2>2, <2>3
<1>2. PICK l : l = [Join(r, i) EXCEPT !.pc = pc]
  OBVIOUS
<1>3. up[r] \in Locals /\ up[r].current = {}
  BY DEF BlocksInv, PipeTypeOK, LocalsOK, ReapOne, DrainTask
<1>4. l.pc = pc /\ l.current = {} /\ l.next = up[r].next /\ l.mode = up[r].mode
  BY <1>2, <1>3 DEF Locals, Join
<1>5. up' = [up EXCEPT ![r] = l] /\ CloseCurrent(r)
  BY <1>1, <1>2, <1>3 DEF CloseCurrent, TasksOf
<1> QED
  BY <1>1, <1>4, <1>5, ClosedFlow

----------------------------------------------------------------------------
(* The same for the tasks.                                                 *)

\* A task takes a slot that is free.
LEMMA TakeSlotFlow ==
    ASSUME BlocksInv, FlowInv, UNCHANGED setup, NEW r \in Req, NEW i \in Ordinal,
           TakeSlot(<<r, i>>)
    PROVE  FlowInv'
<1> DEFINE t == <<r, i>>
<1>1. t \in Task /\ task[t] = "slot" /\ UNCHANGED <<up, fed, eof>>
  BY DEF TakeSlot, Task
<1>2. \A s \in Task : task'[s] = IF s = t THEN "sending" ELSE task[s]
  BY DEF TakeSlot, SetTask, BlocksInv, PipeTypeOK
<1>3. Holders' = Holders \cup {t} /\ t \notin Holders
  BY <1>1, <1>2 DEF Holders, HoldsSlot
<1>4. IsFiniteSet(Holders') /\ Cardinality(Holders') = Cardinality(Holders) + 1
  BY <1>3, FS_AddElement DEF FlowInv, SlotsKept
<1>5. Cardinality(Holders) \in Nat /\ setup.concurrency \in Nat
  BY FS_CardinalityType, SetupAssumption DEF FlowInv, SlotsKept, BlocksInv, PipeTypeOK
<1>6. SlotsKept'
  BY <1>4, <1>5 DEF SlotsKept, TakeSlot, SlotFree
<1>7. FeedOK(r, i)'
  <2>1. FeedOK(r, i)
    BY DEF FlowInv
  <2> QED
    BY <1>1, <1>2, <2>1 DEF FeedOK, Ended
<1>8. \A q \in Req : Kept(up[q], up'[q])
  BY <1>1 DEF Kept
<1> HIDE DEF t
<1> QED
  BY <1>1, <1>2, <1>6, <1>7, <1>8, TaskFlow DEF t

\* Any other step of a task: it is at most one step nearer to its end, and not
\* the reader of a block under way if it leaves the slot.
LEMMA TaskStepFlow ==
    ASSUME BlocksInv, FlowInv, UNCHANGED <<setup, fed, eof>>,
           \A q \in Req : Kept(up[q], up'[q]),
           NEW r \in Req, NEW i \in Ordinal, NEW s, SetTask(<<r, i>>, s),
           s \in {"sending", "staging", "discard"} => HoldsSlot(<<r, i>>),
           i \in up[r].current => s \in {"slot", "sending", "failed"},
           s \in Ended \/ task[<<r, i>>] \notin Ended
    PROVE  FlowInv'
<1>1. \A t \in Task : task'[t] = IF t = <<r, i>> THEN s ELSE task[t]
  BY DEF SetTask, BlocksInv, PipeTypeOK
<1>2. SlotsKept'
  <2>1. Holders' \subseteq Holders
    BY <1>1 DEF Holders, HoldsSlot
  <2> QED
    BY <2>1, HoldersShrink DEF FlowInv, BlocksInv, PipeTypeOK
<1>3. FeedOK(r, i)'
  <2>1. FeedOK(r, i) /\ task'[<<r, i>>] = s
    BY <1>1 DEF FlowInv, Task
  <2> QED
    BY <2>1 DEF FeedOK, Kept
<1> QED
  BY <1>1, <1>2, <1>3, TaskFlow

LEMMA TaskStepsFlow ==
    ASSUME BlocksInv, FlowInv, UNCHANGED setup, NEW r \in Req, NEW i \in Ordinal,
           TaskStep(<<r, i>>) \/ SendFails(<<r, i>>) \/ Aborted(<<r, i>>)
    PROVE  FlowInv'
<1> DEFINE t == <<r, i>>
<1>1. \A q \in Req : UNCHANGED up => Kept(up[q], up'[q])
  BY DEF Kept
<1>2. i \in up[r].current => task[t] \in {"slot", "sending", "failed"} /\ ~HasData(t) /\ t \notin aborting
  BY CurrentFacts
<1>3. CASE OpenFile(t)
  <2>1. PICK s \in {"slot", "failed"} : SetTask(t, s)
    BY <1>3 DEF OpenFile
  <2>2. UNCHANGED <<up, fed, eof>> /\ task[t] = "open"
    BY <1>3 DEF OpenFile
  <2> QED
    BY <1>1, <2>1, <2>2, TaskStepFlow DEF Ended
<1>4. CASE Sent(t)
  <2>1. PICK s \in {"staging", "discard"} : SetTask(t, s)
    BY <1>4 DEF Sent
  <2>2. UNCHANGED <<up, fed, eof>> /\ task[t] = "sending" /\ HasData(t)
    BY <1>4 DEF Sent
  <2> QED
    BY <1>1, <1>2, <2>1, <2>2, TaskStepFlow DEF Ended, HoldsSlot
<1>5. CASE SendFails(t) \/ Discard(t)
  <2>1. SetTask(t, "failed") /\ UNCHANGED <<up, fed, eof>>
    BY <1>5 DEF SendFails, Discard
  <2> QED
    BY <1>1, <2>1, TaskStepFlow DEF Ended
<1>6. CASE Staged(t)
  <2>1. SetTask(t, "done") /\ UNCHANGED <<fed, eof>> /\ task[t] = "staging"
    BY <1>6 DEF Staged
  <2>2. \A q \in Req : Kept(up[q], up'[q])
    <3>1. CASE UNCHANGED up
      BY <1>1, <3>1
    <3>2. CASE up' = [up EXCEPT ![r].refs = @ \cup {i}]
      BY <3>2 DEF Kept, BlocksInv, PipeTypeOK, Locals
    <3> QED
      BY <1>6, <3>1, <3>2 DEF Staged, Register
  <2> QED
    BY <1>2, <2>1, <2>2, TaskStepFlow DEF Ended
<1>7. CASE StagingFails(t)
  <2>1. SetTask(t, "discard") /\ UNCHANGED <<up, fed, eof>> /\ task[t] = "staging"
    BY <1>7 DEF StagingFails
  <2> QED
    BY <1>1, <1>2, <2>1, TaskStepFlow DEF Ended, HoldsSlot
<1>8. CASE Aborted(t)
  <2>1. SetTask(t, "gone") /\ UNCHANGED <<up, fed, eof>> /\ t \in aborting
    BY <1>8 DEF Aborted
  <2> QED
    BY <1>1, <1>2, <2>1, TaskStepFlow DEF Ended
<1> QED
  BY <1>3, <1>4, <1>5, <1>6, <1>7, <1>8 DEF TaskStep

\* A spawned cleanup or deletion is nobody's to wait for.
LEMMA SpawnedFlow ==
    ASSUME BlocksInv, FlowInv, UNCHANGED setup, NEW t \in Task, Spawned(t) PROVE FlowInv'
<1>1. UNCHANGED <<up, task, fed, eof>>
  BY DEF Spawned, SpawnedCleanup, SpawnedDelete
<1> QED
  BY <1>1, LocalFlow DEF Kept

\* Every step keeps FlowInv.
LEMMA FlowNext == BlocksInv /\ FlowInv /\ PipeNext /\ UNCHANGED setup => FlowInv'
<1> SUFFICES ASSUME BlocksInv, FlowInv, PipeNext, UNCHANGED setup PROVE FlowInv'
  OBVIOUS
<1>1. ASSUME NEW r \in Req, NEW mode \in setup.modes, NEW n \in 0..MaxBlocks, Start(r, mode, n)
      PROVE  FlowInv'
  BY <1>1, StartFlow
<1>2. ASSUME NEW r \in Req, RequestStep(r) PROVE FlowInv'
  BY <1>2, QuietFlow, OpenPipeFlow, WriteBlockFlow, SourceOverFlow, StartFileTaskFlow, JoinFlow
     DEF RequestStep
<1>3. ASSUME NEW r \in Req, SpoolFails(r) \/ SourceFails(r) \/ Cancel(r) \/ SpawnedRemove(r)
      PROVE  FlowInv'
  BY <1>3, QuietFlow, SourceOverFlow, CancelFlow
<1>4. ASSUME NEW r \in Req, NEW i \in Ordinal,
             \/ TakeSlot(<<r, i>>) \/ TaskStep(<<r, i>>) \/ SendFails(<<r, i>>) \/ Aborted(<<r, i>>)
      PROVE  FlowInv'
  BY <1>4, TakeSlotFlow, TaskStepsFlow
<1>5. ASSUME NEW t \in Task, TakeSlot(t) \/ TaskStep(t) \/ SendFails(t) \/ Aborted(t) \/ Spawned(t)
      PROVE  FlowInv'
  <2>1. PICK r \in Req, i \in Ordinal : t = <<r, i>>
    BY DEF Task
  <2> QED
    BY <1>4, <1>5, <2>1, SpawnedFlow
<1> QED
  BY <1>1, <1>2, <1>3, <1>5 DEF PipeNext

----------------------------------------------------------------------------
(* The theorems.                                                           *)

\* The invariant: what there is of every block follows from the step its task
\* is at, and every stored block is in the registry of its request or in a
\* cleanup (UploadTasks, CleanupState and their Drops); no more tasks than
\* upload_concurrency hold a slot, and no pipe is left without a reader or a writer.
THEOREM PipelineInvariant == PipeSpec => []PipeInv
<1>1. BlocksInv /\ UNCHANGED <<setup, pipeVars>> => BlocksInv'
  BY DEF BlocksInv, PipeTypeOK, LocalsOK, BlockOK, StoredOK, pipeVars
<1>2. FlowInv /\ UNCHANGED <<setup, pipeVars>> => FlowInv'
  BY DEF FlowInv, SlotsKept, Holders, HoldsSlot, FeedOK, pipeVars
<1>3. BlocksInv /\ FlowInv <=> PipeInv
  BY DEF PipeInv
<1> QED
  BY <1>1, <1>2, <1>3, PipeInitInv, PipeNextInv, FlowInit, FlowNext, PTL DEF PipeSpec

\* An upload succeeds only with all its blocks, and none of them is ever cleaned
\* up (join_task, drain, disarm).
THEOREM UploadsComplete == PipeSpec => []SuccessIsComplete
<1>1. BlocksInv => SuccessIsComplete
  <2> SUFFICES ASSUME BlocksInv, NEW r \in Req, up[r].pc = "ok"
               PROVE  /\ up[r].uploaded = 0..(up[r].length - 1)
                      /\ \A t \in TasksOf(r, up[r].uploaded) :
                           message[t] = "present" /\ row[t] = "staged" /\ t \notin cleanups \cup deletes
    BY DEF SuccessIsComplete
  <2>1. /\ up[r] \in Locals /\ LocalsOK(up[r]) /\ up[r].current = {} /\ up[r].running = {}
        /\ up[r].next = up[r].length /\ 0..(up[r].next - 1) \subseteq up[r].uploaded
    BY DEF BlocksInv, PipeTypeOK, LocalsOK, Feeding
  <2>2. \A i \in up[r].uploaded : BlockOK(r, i) /\ StoredOK(<<r, i>>) /\ task[<<r, i>>] = "done"
    BY <2>1 DEF BlocksInv, BlockOK, Locals
  <2>3. \A i \in up[r].uploaded : i \in 0..(up[r].length - 1)
    <3>1. up[r].next \in Nat /\ up[r].next <= MaxBlocks
      BY <2>1, Bounds DEF Locals
    <3>2. \A i \in up[r].uploaded : i \in Nat /\ ~(i >= up[r].next)
      BY <2>1, <2>2, Bounds DEF BlockOK, Locals
    <3> QED
      BY <2>1, <3>1, <3>2
  <2>4. \A i \in up[r].uploaded : /\ message[<<r, i>>] = "present" /\ row[<<r, i>>] = "staged"
                                  /\ <<r, i>> \notin cleanups \cup deletes
    BY <2>2 DEF BlockOK, StoredOK
  <2> QED
    BY <2>1, <2>3, <2>4 DEF TasksOf
<1> QED
  BY <1>1, PipelineInvariant, PTL DEF PipeInv

\* No message without a row is forgotten: its task, or the deletion spawned by
\* MessageCleanupGuard::drop, has it, or Telegram failed.
THEOREM NoMessageForgotten == PipeSpec => []MessagesAccounted
<1>1. BlocksInv => MessagesAccounted
  <2> SUFFICES ASSUME BlocksInv, NEW r \in Req, NEW i \in Ordinal,
                      message[<<r, i>>] = "present", row[<<r, i>>] = "none"
               PROVE  task[<<r, i>>] \in {"staging", "discard"} \/ <<r, i>> \in deletes \cup lost
    BY DEF MessagesAccounted, Task
  <2>1. StoredOK(<<r, i>>)
    BY DEF BlocksInv, BlockOK
  <2> QED
    BY <2>1 DEF StoredOK, BlocksInv, PipeTypeOK, Task, Ended
<1> QED
  BY <1>1, PipelineInvariant, PTL DEF PipeInv

\* No staged row is forgotten, however requests, tasks and cleanups overlap.
THEOREM NoRowForgotten == PipeSpec => []RowsAccounted
<1>1. BlocksInv => RowsAccounted
  <2> SUFFICES ASSUME BlocksInv, NEW r \in Req, NEW i \in Ordinal, row[<<r, i>>] = "staged"
               PROVE  \/ up[r].pc \in Active \ {"cleanup"} /\ i \in up[r].refs
                      \/ up[r].pc = "cleanup" /\ i \in up[r].todo
                      \/ up[r].pc = "ok" /\ i \in up[r].uploaded
                      \/ <<r, i>> \in cleanups \cup left
    BY DEF RowsAccounted, Task
  <2>1. BlockOK(r, i) /\ StoredOK(<<r, i>>) /\ LocalsOK(up[r]) /\ up[r] \in Locals
    BY DEF BlocksInv, PipeTypeOK, BlockOK
  <2>2. task[<<r, i>>] = "done" \/ (task[<<r, i>>] = "gone" /\ <<r, i>> \in left)
    BY <2>1 DEF StoredOK, BlocksInv, PipeTypeOK, Task, Ended
  <2>3. (i < up[r].next /\ up[r].pc # "idle") \/ <<r, i>> \in left
    BY <2>1, <2>2, Bounds DEF BlockOK, LocalsOK, Locals
  <2>4. CASE up[r].pc = "ok" /\ i < up[r].next
    BY <2>1, <2>4, Bounds DEF LocalsOK, Feeding, Locals
  <2>5. CASE up[r].pc # "ok"
    BY <2>1, <2>2, <2>3, <2>5 DEF BlockOK, LocalsOK, Locals, Active, Over
  <2> QED
    BY <2>3, <2>4, <2>5
<1> QED
  BY <1>1, PipelineInvariant, PTL DEF PipeInv

\* The spool file outlives the tasks that open it, and goes with its request.
THEOREM SpoolKept == PipeSpec => []SpoolOutlivesTasks
<1>1. BlocksInv => SpoolOutlivesTasks
  <2> SUFFICES ASSUME BlocksInv, NEW r \in Req, up[r].mode = "spool"
               PROVE  /\ \A i \in Ordinal : task[<<r, i>>] = "open" /\ up[r].spool # "present"
                                                => up[r].pc = "cancelled"
                      /\ up[r].pc \in Over => up[r].spool \in {"dropped", "removed"}
    BY DEF SpoolOutlivesTasks
  <2>1. LocalsOK(up[r]) /\ up[r] \in Locals
    BY DEF BlocksInv, PipeTypeOK
  <2>2. \A i \in Ordinal : task[<<r, i>>] = "open" =>
           i \in up[r].current \cup up[r].running \/ up[r].pc = "cancelled"
    BY DEF BlocksInv, BlockOK, Ended
  <2>3. up[r].pc \in Feeding => up[r].spool = "present"
    BY <2>1 DEF LocalsOK
  <2>4. up[r].current = {} /\ (up[r].pc \notin Feeding => up[r].running = {})
    BY <2>1 DEF LocalsOK
  <2>5. up[r].pc \in Over => up[r].spool \in {"dropped", "removed"}
    BY <2>1 DEF LocalsOK, Over
  <2> QED
    BY <2>2, <2>3, <2>4, <2>5
<1> QED
  BY <1>1, PipelineInvariant, PTL DEF PipeInv

\* No circle of requests and tasks that wait for slots, pipes and full task
\* lists (upload_slots, the duplex pipe, reap_one): whoever cannot go on waits
\* for somebody who can, at most three apart.
THEOREM NeverDeadlocked == PipeSpec => []NobodyStuck
<1>1. BlocksInv /\ FlowInv => NobodyStuck
  <2> SUFFICES ASSUME BlocksInv, FlowInv PROVE NobodyStuck
    OBVIOUS
  <2>1. ASSUME NEW r \in Req, up[r].pc \in Active
        PROVE  \/ RequestMoves(r)
               \/ \E i \in up[r].current \cup up[r].running : task[<<r, i>>] \notin Ended
    <3>1. up[r] \in Locals /\ LocalsOK(up[r])
      BY DEF BlocksInv, PipeTypeOK
    <3>2. CASE up[r].pc = "source"
      <4>1. \A i \in up[r].current : task[<<r, i>>] \in {"slot", "sending", "failed"}
        BY CurrentFacts
      <4> QED
        BY <3>2, <4>1 DEF RequestMoves, Ended
    <3>3. CASE up[r].pc \in {"reap", "drain"}
      BY <3>3 DEF RequestMoves, FlowInv, Drained
    <3>4. CASE up[r].pc \in {"spool", "cleanup"}
      BY <3>4 DEF RequestMoves
    <3> QED
      BY <2>1, <3>2, <3>3, <3>4 DEF Active
  <2>2. ASSUME NEW t \in Task, task[t] = "sending" PROVE TaskMoves(t) \/ RequestMoves(t[1])
    <3>1. PICK r \in Req, i \in Ordinal : t = <<r, i>>
      BY DEF Task
    <3>2. FeedOK(r, i) /\ task[t] \notin Ended
      BY <2>2 DEF FlowInv, Ended
    <3>3. CASE i \in up[r].current
      <4>1. up[r].pc = "source" /\ up[r].current = {i}
        BY <3>3, CurrentFacts DEF BlocksInv, LocalsOK
      <4> QED
        BY <2>2, <3>1, <4>1 DEF RequestMoves
    <3>4. CASE i \notin up[r].current
      BY <2>2, <3>1, <3>2, <3>4 DEF FeedOK, TaskMoves, HasData
    <3> QED
      BY <3>3, <3>4
  <2>3. \A h \in Holders : TaskMoves(h) \/ RequestMoves(h[1])
    BY <2>2 DEF Holders, HoldsSlot, TaskMoves
  <2>4. ASSUME ~SlotFree PROVE Holders # {}
    <3>1. setup.concurrency \in Nat \ {0}
      BY SetupAssumption DEF BlocksInv, PipeTypeOK
    <3> QED
      BY <2>4, <3>1, FS_EmptySet DEF SlotFree
  <2>5. ASSUME NEW t \in Task, task[t] \notin Ended
        PROVE  \/ TaskMoves(t)
               \/ task[t] = "sending" /\ RequestMoves(t[1])
               \/ /\ task[t] = "slot"
                  /\ \E h \in Holders : TaskMoves(h) \/ RequestMoves(h[1])
    <3>1. task[t] \in {"open", "slot", "sending", "staging", "discard"}
      BY <2>5 DEF BlocksInv, PipeTypeOK
    <3>2. CASE task[t] = "slot"
      BY <2>3, <2>4, <3>2 DEF TaskMoves
    <3> QED
      BY <2>2, <3>1, <3>2 DEF TaskMoves
  <2> QED
    BY <2>1, <2>5 DEF NobodyStuck
<1> QED
  BY <1>1, PipelineInvariant, PTL DEF PipeInv

=============================================================================
