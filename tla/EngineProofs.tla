---------------------------- MODULE EngineProofs ----------------------------
(***************************************************************************)
(* Proofs about Engine, for every value of its constants: any number of    *)
(* handlers, keys, uploads, blocks and messages.                           *)
(*                                                                         *)
(* EngineInv is inductive.  Every action has a lemma that it preserves     *)
(* EngineInv; most of it follows from a few facts that hold for all        *)
(* actions, which the first lemmas prove once: whose locals change, what   *)
(* becomes of reserved blocks, of counts and of data under way.            *)
(*                                                                         *)
(* No upload can rely on its rows: the collector may take them after an    *)
(* hour and give their ids to others.  What the invariant keeps instead is *)
(* one-sided: a row is never counted for more than it is owed, and a row   *)
(* that some part lists by a stale id (foreign) is owed to nobody else.    *)
(***************************************************************************)
EXTENDS Engine, MetadataStoreProofs

\* The empty database, with no request under way, satisfies the invariant.
LEMMA EngineInitInv == EngineInit => EngineInv
<1> SUFFICES ASSUME EngineInit PROVE EngineInv
  OBVIOUS
<1> USE DEF EngineInit
<1>1. StoreInv
  BY InitInv
<1>2. /\ \A k \in Key : objects[k] = NoObject
      /\ \A u \in Upload : uploads[u] = NoUpload
      /\ \A u \in Upload, p \in PartNo : parts[u][p] = NoPart
      /\ \A b \in BlockId : state[b] = "absent"
  BY DEF StoreInit, NoParts
<1>3. \A b \in BlockId : ~HeldByObject(b) /\ ~HeldByPart(b)
  BY <1>2 DEF HeldByObject, HeldByPart, NoObject, NoPart
<1>4. Rows = {}
  BY <1>2 DEF Rows
<1>5. [p \in {} |-> NoPart] \in PartSnap
  <2>1. [p \in {} |-> NoPart] \in [{} -> [etag : SUBSET sent, blocks : SUBSET BlockId]]
    OBVIOUS
  <2> QED
    BY <2>1 DEF PartSnap
<1>6. EngineTypeOK
  <2>1. Ready \in Locals
    BY <1>5 DEF Ready, Locals, NoObject, ObjectRow
  <2> QED
    BY <1>1, <2>1 DEF EngineTypeOK, StoreInv
<1>7. LocalsOK
  BY DEF LocalsOK, LocalOK, Ready
<1>8. HoldersFinite /\ CountsStayExact
  <2>1. \A b \in BlockId : Holders(b) = {}
    BY <1>3 DEF Holders, HeldByObject, HeldByPart
  <2> QED
    BY <1>4, <2>1, FS_EmptySet DEF HoldersFinite, CountsStayExact
<1>9. BlocksOwned /\ ForeignListed /\ ListedCommitted
  BY <1>3, <1>4 DEF BlocksOwned, ForeignListed, ListedCommitted
<1>10. DataOwned
  BY <1>2 DEF DataOwned, PendingRefs, PendingBody, Body, Ready, NoPart
<1>11. NothingOutlivesBucket /\ PutUploadsOwned
  BY <1>2 DEF NothingOutlivesBucket, PutUploadsOwned, Exists, NoObject, NoUpload, StoreInit
<1>12. RowsSent
  BY <1>4 DEF RowsSent
<1> QED
  BY <1>1, <1>6, <1>7, <1>8, <1>9, <1>10, <1>11, <1>12 DEF EngineInv

----------------------------------------------------------------------------
(* Facts about one step, whichever it is.                                  *)

\* A step of handler r that gives it the locals l.
LEMMA LocalsStep ==
    ASSUME EngineTypeOK, LocalsOK, NEW r \in Req, NEW l, req' = [req EXCEPT ![r] = l],
           sent \subseteq sent', buckets \cup outrun \subseteq buckets' \cup outrun',
           l \in Locals', LocalOK(l)'
    PROVE  req' \in [Req -> Locals'] /\ LocalsOK'
<1>1. \A q \in Req : req'[q] = IF q = r THEN l ELSE req[q]
  BY DEF EngineTypeOK
<1>2. Locals \subseteq Locals'
  BY DEF Locals, PartSnap
<1>3. req' \in [Req -> Locals']
  BY <1>2 DEF EngineTypeOK
<1>4. \A q \in Req \ {r} : LocalOK(req[q])'
  <2> SUFFICES ASSUME NEW q \in Req \ {r} PROVE LocalOK(req[q])'
    OBVIOUS
  <2>1. req'[q] = req[q] /\ LocalOK(req[q])
    BY <1>1 DEF LocalsOK
  <2> QED
    BY <2>1 DEF LocalOK
<1>5. LocalOK(req[r])'
  BY <1>1 DEF LocalOK
<1> QED
  BY <1>3, <1>4, <1>5 DEF LocalsOK

\* A step of no handler.
LEMMA LocalsUnchanged ==
    ASSUME EngineTypeOK, LocalsOK, UNCHANGED <<req, sent>>,
           \A bkt \in buckets \cup outrun : bkt \in buckets' \cup outrun' \/ ~ReliesOn(bkt)
    PROVE  req' \in [Req -> Locals'] /\ LocalsOK'
BY DEF ReliesOn, EngineTypeOK, LocalsOK, LocalOK, Locals, PartSnap

\* A block is held exactly when something holds it.
LEMMA HeldHasHolder ==
    ASSUME NEW b \in BlockId
    PROVE  /\ Held(b) <=> Holders(b) # {}
           /\ Held(b)' <=> Holders(b)' # {}
<1> DEFINE Obj == {k \in Key : b \in objects[k].blocks}
           Part == {h \in Upload \X PartNo : b \in parts[h[1]][h[2]].blocks}
<1>1. Holders(b) = {<<"object", k>> : k \in Obj} \cup {<<"part", h>> : h \in Part}
  BY DEF Holders
<1>2. Holders(b)' = {<<"object", k>> : k \in Obj'} \cup {<<"part", h>> : h \in Part'}
  BY DEF Holders
<1>3. \A A, B : {<<"object", k>> : k \in A} \cup {<<"part", h>> : h \in B} # {}
                  <=> A # {} \/ B # {}
  OBVIOUS
<1>4. HeldByPart(b) <=> Part # {}
  <2>1. \A u \in Upload, p \in PartNo : b \in parts[u][p].blocks => <<u, p>> \in Part
    OBVIOUS
  <2> QED
    BY <2>1 DEF HeldByPart
<1>5. HeldByPart(b)' <=> Part' # {}
  <2>1. \A u \in Upload, p \in PartNo : b \in parts'[u][p].blocks => <<u, p>> \in Part'
    OBVIOUS
  <2> QED
    BY <2>1 DEF HeldByPart
<1>6. (HeldByObject(b) <=> Obj # {}) /\ (HeldByObject(b)' <=> Obj' # {})
  BY DEF HeldByObject
<1> HIDE DEF Obj, Part
<1>7. Holders(b) # {} <=> Obj # {} \/ Part # {}
  BY <1>1, <1>3
<1>8. Holders(b)' # {} <=> Obj' # {} \/ Part' # {}
  BY <1>2, <1>3
<1>9. Held(b) <=> Obj # {} \/ Part # {}
  BY <1>4, <1>6 DEF Held
<1>10. Held(b)' <=> Obj' # {} \/ Part' # {}
  BY <1>5, <1>6 DEF Held
<1> QED
  BY <1>7, <1>8, <1>9, <1>10

\* A block without a row has no holder.
LEMMA HoldersOfRows ==
    ASSUME StoreInv', NEW b \in BlockId, b \notin Rows'
    PROVE  IsFiniteSet(Holders(b)')
<1>1. ~Held(b)'
  BY DEF StoreInv, References, Rows
<1> QED
  BY <1>1, HeldHasHolder, FS_EmptySet

\* What the count of a row says, in one state.
CountAt(b) ==
    /\ ref[b] <= Cardinality(Holders(b)) + One(Reserved(b))
    /\ b \notin foreign => ref[b] = Cardinality(Holders(b)) + One(Reserved(b))

\* A row that a part lists by a stale id is nobody's to list any more.
LEMMA ForeignNotReserved ==
    ASSUME ForeignListed, NEW b \in foreign
    PROVE  ~Reserved(b)
BY DEF ForeignListed, Reserved, Unlisted

\* A count that moves with the number of holders keeps its distance from it.
LEMMA SameExcess ==
    ASSUME NEW n \in Nat, NEW m \in Nat, NEW c \in Nat, NEW d \in Nat, NEW e \in Nat,
           n <= c + e, \/ m + c = n + d
                       \/ n < c /\ m <= d
    PROVE  m <= d + e /\ (n = c + e => m = d + e)
OBVIOUS

\* A step that changes count and holders of a row alike keeps the count right,
\* and the block reserved if it was.
LEMMA CountKept ==
    ASSUME HoldersFinite, CountsStayExact, ForeignListed, StoreInv, StoreInv',
           NEW b \in Rows, b \in Rows', KeepsExcess(b), b \in foreign' <=> b \in foreign,
           b \in taken => b \in taken', b \in taken' => Reserved(b),
           Unlisted(b) => b \in taken' \/ (state'[b] = "staged" /\ ~Held(b)')
    PROVE  CountAt(b)' /\ IsFiniteSet(Holders(b)') /\ (Reserved(b) <=> Reserved(b)')
<1> DEFINE c == Cardinality(Holders(b))
           d == Cardinality(Holders(b)')
<1>1. b \in BlockId /\ ref[b] \in Nat /\ ref'[b] \in Nat
  BY DEF Rows, StoreInv, TypeOK
<1>2. IsFiniteSet(Holders(b)) /\ IsFiniteSet(Holders(b)') /\ c \in Nat /\ d \in Nat
  <2>1. IsFiniteSet(Holders(b)) /\ IsFiniteSet(Holders(b)')
    BY <1>1 DEF HoldersFinite, KeepsExcess
  <2> QED
    BY <2>1, FS_CardinalityType
<1>3. /\ ref[b] <= c + One(Reserved(b))
      /\ b \notin foreign => ref[b] = c + One(Reserved(b))
  BY DEF CountsStayExact, Owed, Reserved, One
<1>4. \/ ref'[b] + c = ref[b] + d
      \/ ref[b] < c /\ ref'[b] <= d
  BY DEF KeepsExcess, StaysLow
<1>5. ~Held(b)' => d = 0
  BY <1>1, HeldHasHolder, FS_EmptySet
<1>6. ref'[b] = 0 <=> queue'[b] # "none"
  BY DEF StoreInv, QueueMatchesCount
<1> HIDE DEF c, d
<1>7. /\ ref'[b] <= d + One(Reserved(b))
      /\ b \notin foreign => ref'[b] = d + One(Reserved(b))
  <2>1. One(Reserved(b)) \in Nat
    BY DEF One
  <2> QED
    BY <1>1, <1>2, <1>3, <1>4, <2>1, SameExcess
<1>8. Reserved(b) => Reserved(b)'
  <2>1. CASE Unlisted(b)
    <3>1. b \notin foreign
      BY <2>1, ForeignNotReserved DEF Reserved
    <3> QED
      BY <1>5, <1>6, <1>7, <2>1, <3>1 DEF Reserved, Unlisted, One
  <2> QED
    BY <2>1 DEF Reserved
<1>9. Reserved(b)' => Reserved(b)
  BY <1>1, <1>2, <1>5, <1>6, <1>7 DEF Reserved, Unlisted, One
<1>10. One(Reserved(b)') = One(Reserved(b))
  BY <1>8, <1>9 DEF One
<1>11. CountAt(b)'
  BY <1>7, <1>10 DEF CountAt, c, d, One
<1> QED
  BY <1>2, <1>8, <1>9, <1>11

\* Counts that are right row by row are right.
LEMMA CountsFromRows ==
    ASSUME StoreInv', \A b \in Rows' : CountAt(b)' /\ IsFiniteSet(Holders(b)')
    PROVE  HoldersFinite' /\ CountsStayExact'
<1>1. HoldersFinite'
  BY HoldersOfRows DEF HoldersFinite
<1>2. CountsStayExact'
  BY DEF CountsStayExact, Owed, CountAt, One, Reserved
<1> QED
  BY <1>1, <1>2

\* A block that is in an object or a part keeps its row, foreign or not, and its
\* message, until the transaction that takes it out of the last one queues it.
Releases ==
    \A b \in BlockId : Held(b) =>
        /\ message'[b] = message[b]
        /\ Held(b)' \/ queue'[b] # "none" \/ b \in taken
        /\ b \in foreign => b \in foreign'

\* What is proved of every step.
EngineStep == EngineInv' /\ Releases

\* A block that nothing lists after a step, and that was listed before, is queued
\* by release_blocks.
LEMMA ReleaseAt ==
    ASSUME EngineInv, StoreInv', CountsStayExact', NEW b \in BlockId, Held(b),
           state'[b] # "absent", Reserved(b)' => Reserved(b)
    PROVE  Held(b)' \/ queue'[b] # "none" \/ b \in taken
<1>1. CASE Reserved(b)
  BY <1>1 DEF Reserved, Unlisted
<1>2. CASE ~Reserved(b) /\ ~Held(b)'
  <2>1. Cardinality(Holders(b)') = 0
    BY <1>2, HeldHasHolder, FS_EmptySet
  <2>2. ref'[b] = 0
    <3>1. b \in Rows' /\ ref'[b] \in Nat
      BY DEF Rows, StoreInv, TypeOK
    <3>2. ref'[b] <= 0
      BY <1>2, <2>1, <3>1 DEF CountsStayExact, Owed, Reserved
    <3> QED
      BY <3>1, <3>2
  <2> QED
    BY <2>2 DEF StoreInv, QueueMatchesCount, Rows
<1> QED
  BY <1>1, <1>2

\* What a transaction does that neither stages, attaches nor queues blocks by
\* itself: counts stay right, reserved blocks stay reserved and queued ones
\* queued, rows keep their messages and parts can only go.
Calm ==
    /\ StoreInv' /\ HoldersFinite' /\ CountsStayExact' /\ ForeignListed' /\ ListedCommitted'
    /\ Releases
    /\ taken' \in SUBSET Rows' /\ foreign' = foreign \cap Rows'
    /\ \A b \in BlockId : Reserved(b) => Reserved(b)'
    /\ \A b \in Rows' : queue[b] # "none" => queue'[b] # "none"
    /\ \A b \in Rows' : b \in Rows /\ message'[b] = message[b]
    /\ \A u \in Upload, p \in PartNo : parts'[u][p] = parts[u][p] \/ parts'[u][p] = NoPart

\* Calm, from what is particular to a transaction.
LEMMA CalmStep ==
    ASSUME EngineInv, StoreInv', KeepsRows,
           \A b \in Rows' : KeepsExcess(b) /\ (queue[b] # "none" => queue'[b] # "none"),
           foreign' = foreign \cap Rows',
           taken \subseteq taken', taken' \subseteq {b \in BlockId : Reserved(b)},
           \A b \in BlockId : Unlisted(b) =>
              b \in taken' \/ (state'[b] = "staged" /\ ~Held(b)'),
           \A b \in BlockId : Reserved(b) \/ Held(b) => state'[b] # "absent",
           \A b \in taken' : state'[b] = "committed",
           \A b \in BlockId : HeldByObject(b)' => state'[b] = "committed",
           \A u \in Upload, p \in PartNo : parts'[u][p] = parts[u][p] \/ parts'[u][p] = NoPart
    PROVE  Calm
<1>1. \A b \in Rows' : b \in Rows /\ message'[b] = message[b]
  BY DEF KeepsRows
<1>2. ASSUME NEW b \in Rows'
      PROVE  CountAt(b)' /\ IsFiniteSet(Holders(b)') /\ (Reserved(b) <=> Reserved(b)')
  <2>1. b \in Rows /\ b \in BlockId /\ KeepsExcess(b) /\ (b \in foreign' <=> b \in foreign)
    BY <1>1 DEF Rows
  <2> QED
    BY <2>1, CountKept DEF EngineInv
<1>3. HoldersFinite' /\ CountsStayExact'
  BY <1>2, CountsFromRows
<1>4. \A b \in BlockId : Reserved(b) => b \in Rows'
  BY DEF Rows
<1>5. \A b \in BlockId : Reserved(b) => Reserved(b)'
  BY <1>2, <1>4
<1>6. taken' \in SUBSET Rows'
  BY <1>4
<1>7. \A b \in BlockId : HeldByPart(b)' => HeldByPart(b)
  BY DEF HeldByPart, NoPart
<1>8. ListedCommitted'
  <2>1. \A b \in taken' : ~HeldByPart(b)
    BY DEF EngineInv, ListedCommitted, Reserved, Unlisted, Held
  <2> QED
    BY <1>6, <1>7, <2>1 DEF ListedCommitted, Rows
<1>9. Releases
  <2> SUFFICES ASSUME NEW b \in BlockId, Held(b)
               PROVE  /\ message'[b] = message[b]
                      /\ Held(b)' \/ queue'[b] # "none" \/ b \in taken
                      /\ b \in foreign => b \in foreign'
    BY DEF Releases
  <2>1. state'[b] # "absent" /\ b \in Rows'
    BY DEF Rows
  <2>2. Reserved(b)' => Reserved(b)
    BY <1>2, <2>1
  <2> QED
    BY <1>1, <1>3, <2>1, <2>2, ReleaseAt
<1>10. ForeignListed'
  <2> SUFFICES ASSUME NEW b \in foreign'
               PROVE  b \notin taken' /\ (Held(b)' \/ queue'[b] # "none")
    BY DEF ForeignListed
  <2>1. b \in foreign /\ b \in Rows' /\ b \in BlockId
    BY DEF EngineInv, EngineTypeOK, Rows
  <2>2. ~Reserved(b) /\ b \notin taken /\ (Held(b) \/ queue[b] # "none")
    BY <2>1, ForeignNotReserved DEF EngineInv, ForeignListed
  <2> QED
    BY <1>9, <2>1, <2>2 DEF Releases
<1> QED
  BY <1>1, <1>3, <1>5, <1>6, <1>8, <1>9, <1>10 DEF Calm

----------------------------------------------------------------------------
(* The transactions that are calm.                                         *)

\* A block that an upload or a handler answers for has a row.
LEMMA ReservedRows ==
    ASSUME EngineInv, NEW b \in BlockId, Reserved(b) \/ Held(b)
    PROVE  state[b] # "absent"
BY DEF EngineInv, EngineTypeOK, StoreInv, References, Reserved, Unlisted, Rows

\* A step that touches no row of a block, object or part is calm.
LEMMA PlainCalm ==
    ASSUME EngineInv, StoreInv', KeepsRows,
           UNCHANGED <<objects, parts, ref, state, queue, message, taken, foreign>>
    PROVE  Calm
<1>1. \A b \in BlockId : Holders(b)' = Holders(b) /\ (Held(b)' <=> Held(b))
                           /\ (HeldByObject(b)' <=> HeldByObject(b))
  BY DEF Holders, Held, HeldByObject, HeldByPart
<1>2. \A b \in Rows' : KeepsExcess(b)
  BY <1>1 DEF KeepsExcess, EngineInv, HoldersFinite, Rows
<1>3. /\ taken' \subseteq {b \in BlockId : Reserved(b)}
      /\ foreign' = foreign \cap Rows'
  BY DEF Reserved, EngineInv, EngineTypeOK, Rows
<1>4. \A b \in BlockId : Unlisted(b) => state'[b] = "staged" /\ ~Held(b)'
  BY <1>1 DEF Unlisted
<1> QED
  BY <1>1, <1>2, <1>3, <1>4, ReservedRows, CalmStep DEF EngineInv, ListedCommitted

\* abort_upload and its part deletions are calm.
LEMMA AbortCalm ==
    ASSUME EngineInv, NEW u \in Upload, AbortUpload(u), UNCHANGED <<taken, foreign>>
    PROVE  Calm
<1>1. StoreInv' /\ KeepsRows
  BY AbortUploadInv DEF EngineInv
<1>2. Rows' = Rows
  BY DEF AbortUpload, Rows
<1>3. \A b \in Rows' : KeepsExcess(b) /\ (queue[b] # "none" => queue'[b] # "none")
  <2>1. \A b \in Rows' : KeepsExcess(b)
    BY <1>2, AbortUploadCount DEF EngineInv, HoldersFinite, Rows
  <2>2. \A b \in BlockId : queue[b] # "none" => queue'[b] # "none"
    BY DEF AbortUpload, EnqueueZero
  <2> QED
    BY <2>1, <2>2 DEF Rows
<1>4. \A v \in Upload, p \in PartNo : parts'[v][p] = parts[v][p] \/ parts'[v][p] = NoPart
  BY DEF AbortUpload, DeleteUploadRow, EngineInv, StoreInv, TypeOK, NoParts
<1>5. \A b \in BlockId : (Held(b)' => Held(b)) /\ (HeldByObject(b)' <=> HeldByObject(b))
  BY <1>4 DEF AbortUpload, Held, HeldByObject, HeldByPart, NoPart
<1>6. taken' \subseteq {b \in BlockId : Reserved(b)} /\ foreign' = foreign \cap Rows'
  BY <1>2 DEF Reserved, EngineInv, EngineTypeOK, Rows
<1>7. UNCHANGED state
  BY DEF AbortUpload
<1>8. \A b \in BlockId : Unlisted(b) => state'[b] = "staged" /\ ~Held(b)'
  BY <1>5, <1>7 DEF Unlisted
<1> QED
  BY <1>1, <1>3, <1>4, <1>5, <1>6, <1>7, <1>8, ReservedRows, CalmStep
     DEF EngineInv, ListedCommitted

\* delete_object is calm: it drops one reference of each block the object lists.
LEMMA DeleteObjectCalm ==
    ASSUME EngineInv, NEW k \in Key, NEW cond, DeleteObject(k, cond),
           UNCHANGED <<taken, foreign>>
    PROVE  Calm
<1>1. StoreInv' /\ KeepsRows
  BY DeleteObjectInv DEF EngineInv
<1>2. Rows' = Rows
  BY DEF DeleteObject, Rows
<1>3. \A b \in Rows' : KeepsExcess(b) /\ (queue[b] # "none" => queue'[b] # "none")
  <2>1. \A b \in Rows' : KeepsExcess(b)
    BY <1>2, DeleteObjectCount DEF EngineInv, HoldersFinite, Rows
  <2>2. \A b \in BlockId : queue[b] # "none" => queue'[b] # "none"
    BY DEF DeleteObject, EnqueueZero
  <2> QED
    BY <2>1, <2>2 DEF Rows
<1>4. UNCHANGED <<parts, state>>
  BY DEF DeleteObject, uploadVars
<1>5. \A b \in BlockId : (Held(b)' => Held(b)) /\ (HeldByObject(b)' => HeldByObject(b))
  BY <1>4 DEF DeleteObject, Held, HeldByObject, HeldByPart, NoObject,
              EngineInv, StoreInv, TypeOK
<1>6. taken' \subseteq {b \in BlockId : Reserved(b)} /\ foreign' = foreign \cap Rows'
  BY <1>2 DEF Reserved, EngineInv, EngineTypeOK, Rows
<1>7. \A b \in BlockId : Unlisted(b) => state'[b] = "staged" /\ ~Held(b)'
  BY <1>4, <1>5 DEF Unlisted
<1> QED
  BY <1>1, <1>3, <1>4, <1>5, <1>6, <1>7, ReservedRows, CalmStep
     DEF EngineInv, ListedCommitted

\* The row gc_success deletes is nobody's: its count is zero.
LEMMA GcSuccessCalm ==
    ASSUME EngineInv, NEW b \in BlockId, GcSuccess(b), UNCHANGED taken, foreign' = foreign \ {b}
    PROVE  Calm
<1>1. StoreInv' /\ KeepsRows
  BY GcSuccessInv DEF EngineInv
<1>2. UNCHANGED <<objects, parts, ref>>
  BY DEF GcSuccess, uploadVars
<1>3. \A c \in BlockId : Holders(c)' = Holders(c) /\ (Held(c)' <=> Held(c))
                           /\ (HeldByObject(c)' <=> HeldByObject(c))
  BY <1>2 DEF Holders, Held, HeldByObject, HeldByPart
<1>4. \A c \in Rows' : KeepsExcess(c)
  BY <1>2, <1>3 DEF KeepsExcess, EngineInv, HoldersFinite, Rows
<1>5. \A c \in BlockId : /\ state'[c] = IF c = b THEN "absent" ELSE state[c]
                         /\ queue'[c] = IF c = b THEN "none" ELSE queue[c]
  BY DEF GcSuccess, EngineInv, StoreInv, TypeOK
<1>a. /\ \A c \in Rows' : queue[c] # "none" => queue'[c] # "none"
      /\ foreign' = foreign \cap Rows'
  BY <1>5 DEF Rows, EngineInv, EngineTypeOK
<1>6. ~Reserved(b)
  <2>1. b \in Rows /\ ref[b] = 0 /\ ~Held(b)
    BY DEF GcSuccess, GcSuccessOk, Rows
  <2>2. Cardinality(Holders(b)) = 0
    BY <2>1, HeldHasHolder, FS_EmptySet
  <2>3. b \notin foreign => ref[b] = One(Reserved(b))
    BY <2>1, <2>2 DEF EngineInv, CountsStayExact, Owed, Reserved, One
  <2> QED
    BY <2>1, <2>3, ForeignNotReserved DEF EngineInv, One
<1>7. taken' \subseteq {c \in BlockId : Reserved(c)}
  BY DEF Reserved, EngineInv, EngineTypeOK, Rows
<1>8. \A c \in BlockId : Reserved(c) => state'[c] = state[c]
  BY <1>5, <1>6
<1>9. \A c \in BlockId : Unlisted(c) => state'[c] = "staged" /\ ~Held(c)'
  BY <1>3, <1>8 DEF Unlisted, Reserved
<1>10. \A c \in BlockId : HeldByObject(c)' => state'[c] = "committed"
  BY <1>3, <1>5 DEF EngineInv, ListedCommitted, GcSuccess, GcSuccessOk, Held
<1>11. \A c \in taken' : state'[c] = "committed"
  BY <1>7, <1>8 DEF EngineInv, ListedCommitted
<1>12. \A c \in BlockId : Reserved(c) \/ Held(c) => state'[c] # "absent"
  <2>1. \A c \in BlockId : Held(c) => c # b
    BY DEF GcSuccess, GcSuccessOk
  <2> QED
    BY <1>5, <1>8, <2>1, ReservedRows
<1> QED
  BY <1>1, <1>2, <1>4, <1>a, <1>7, <1>9, <1>10, <1>11, <1>12, CalmStep

\* commit_upload lists blocks of parts only.
LEMMA CommitCalm ==
    ASSUME EngineInv, NEW u \in Upload, NEW P \in SUBSET PartNo, NEW snap \in [P -> PartRow],
           NEW etag \in Etag, NEW cond, CommitUpload(u, snap, etag, cond),
           UNCHANGED <<taken, foreign>>
    PROVE  Calm
<1> DEFINE k == uploads[u].key
           S == SnapBlocks(snap)
<1>1. StoreInv' /\ KeepsRows
  BY CommitUploadInv DEF EngineInv
<1>2. \A b \in Rows' : KeepsExcess(b) /\ (queue[b] # "none" => queue'[b] # "none")
  <2>1. \A b \in Rows' : b \in Rows
    BY <1>1 DEF KeepsRows
  <2>2. \A b \in Rows' : KeepsExcess(b)
    BY <2>1, CommitUploadCount DEF EngineInv, HoldersFinite, Rows
  <2>3. \A b \in BlockId : queue[b] # "none" => b \notin S
    BY DEF CommitUpload, CommitUploadOk, NotQueued
  <2>4. \A b \in BlockId \ S : queue[b] # "none" => queue'[b] # "none"
    BY DEF CommitUpload, EnqueueZero
  <2> QED
    BY <2>2, <2>3, <2>4 DEF Rows
<1>3. \A v \in Upload, p \in PartNo : parts'[v][p] = parts[v][p] \/ parts'[v][p] = NoPart
  BY DEF CommitUpload, DeleteUploadRow, EngineInv, StoreInv, TypeOK, NoParts
<1>4. \A b \in S : HeldByPart(b)
  BY DEF CommitUpload, CommitUploadOk, PartsUnchanged, SnapBlocks, HeldByPart
<1>5. \A b \in BlockId : state'[b] = IF b \in S THEN "committed" ELSE state[b]
  BY DEF CommitUpload
<1>6. \A b \in BlockId : HeldByObject(b)' => HeldByObject(b) \/ b \in S
  <2>1. PICK i : objects' = [objects EXCEPT ![k] = [id |-> i, etag |-> etag, blocks |-> S]]
    BY DEF CommitUpload
  <2> QED
    BY <2>1 DEF HeldByObject, EngineInv, StoreInv, TypeOK
<1>7. \A b \in BlockId : HeldByPart(b)' => HeldByPart(b)
  BY <1>3 DEF HeldByPart, NoPart
<1>8. \A b \in BlockId : Unlisted(b) => state'[b] = "staged" /\ ~Held(b)'
  BY <1>4, <1>5, <1>6, <1>7 DEF Unlisted, Held
<1>9. taken' \subseteq {b \in BlockId : Reserved(b)} /\ foreign' = foreign \cap Rows'
  BY <1>5 DEF Reserved, EngineInv, EngineTypeOK, Rows
<1>10. \A b \in BlockId : state[b] # "absent" => state'[b] # "absent"
  BY <1>5
<1>11. \A b \in taken' : state'[b] = "committed"
  BY <1>5, <1>9 DEF EngineInv, ListedCommitted
<1>12. \A b \in BlockId : HeldByObject(b)' => state'[b] = "committed"
  BY <1>5, <1>6 DEF EngineInv, ListedCommitted
<1> QED
  BY <1>1, <1>2, <1>3, <1>8, <1>9, <1>10, <1>11, <1>12, ReservedRows, CalmStep

\* copy_object may list a block that is in no part yet; its upload then keeps
\* the reference it has (taken).
LEMMA CopyCalm ==
    ASSUME EngineInv, NEW src \in Key, NEW dst \in Key, NEW cond, NEW row \in ObjectRow,
           CopyObject(src, row, dst, cond),
           taken' = taken \cup {b \in row.blocks : Unlisted(b)}, UNCHANGED foreign
    PROVE  Calm
<1> DEFINE S == row.blocks
<1>1. S \in SUBSET BlockId /\ row.etag \in Etag \cup {NoEtag}
  BY DEF ObjectRow
<1>2. StoreInv' /\ KeepsRows
  BY <1>1, CopyObjectInv DEF EngineInv
<1>3. \A b \in Rows' : KeepsExcess(b) /\ (queue[b] # "none" => queue'[b] # "none")
  <2>1. \A b \in Rows' : b \in Rows
    BY <1>2 DEF KeepsRows
  <2>2. \A b \in Rows' : KeepsExcess(b)
    BY <2>1, CopyObjectCount DEF EngineInv, HoldersFinite, Rows
  <2>3. \A b \in BlockId : queue[b] # "none" => b \notin S
    BY DEF CopyObject, CopyObjectOk, NotQueued
  <2>4. \A b \in BlockId \ S : queue[b] # "none" => queue'[b] # "none"
    BY DEF CopyObject, EnqueueZero
  <2> QED
    BY <2>2, <2>3, <2>4 DEF Rows
<1>4. UNCHANGED parts
  BY DEF CopyObject, uploadVars
<1>5. \A b \in BlockId : state'[b] = IF b \in S THEN "committed" ELSE state[b]
  BY DEF CopyObject
<1>6. \A b \in BlockId : HeldByObject(b)' => HeldByObject(b) \/ b \in S
  <2>1. PICK i : objects' = [objects EXCEPT ![dst] = [id |-> i, etag |-> row.etag, blocks |-> S]]
    BY DEF CopyObject
  <2> QED
    BY <2>1 DEF HeldByObject, EngineInv, StoreInv, TypeOK
<1>7. \A b \in BlockId : HeldByPart(b)' <=> HeldByPart(b)
  BY <1>4 DEF HeldByPart
<1>8. \A b \in BlockId : Unlisted(b) => b \in taken' \/ (state'[b] = "staged" /\ ~Held(b)')
  BY <1>5, <1>6, <1>7 DEF Unlisted, Held
<1>9. /\ taken \subseteq taken' /\ taken' \subseteq {b \in BlockId : Reserved(b)}
      /\ foreign' = foreign \cap Rows'
  BY <1>1, <1>5 DEF Reserved, EngineInv, EngineTypeOK, Rows
<1>10. \A b \in BlockId : state[b] # "absent" => state'[b] # "absent"
  BY <1>5
<1>11. \A b \in taken' : state'[b] = "committed"
  BY <1>1, <1>5, <1>9 DEF EngineInv, ListedCommitted
<1>12. \A b \in BlockId : HeldByObject(b)' => state'[b] = "committed"
  BY <1>5, <1>6 DEF EngineInv, ListedCommitted
<1> QED
  BY <1>2, <1>3, <1>4, <1>8, <1>9, <1>10, <1>11, <1>12, ReservedRows, CalmStep

----------------------------------------------------------------------------
(* What handlers own.                                                      *)

\* What the handlers have under way, they keep or lose whole.
KeepsPending ==
    \A r \in Req : PendingBody(r)' = PendingBody(r) \/ PendingBody(r)' = {}

\* A handler that moves on keeps the blocks its body has staged, or gives them up.
LEMMA PendingStep ==
    ASSUME EngineInv, NEW r \in Req, NEW l, req' = [req EXCEPT ![r] = l],
           l.pc \in {"upload", "attach"} => l.refs = {} \/ l.refs = PendingRefs(r)
    PROVE  KeepsPending
<1>1. \A q \in Req : req'[q] = IF q = r THEN l ELSE req[q]
  BY DEF EngineInv, EngineTypeOK
<1>2. \A q \in Req : PendingRefs(q)' = PendingRefs(q) \/ PendingRefs(q)' = {}
  BY <1>1 DEF PendingRefs
<1> QED
  BY <1>2 DEF KeepsPending, PendingBody, Body

\* Rows keep their message, so what becomes of them is all there is to ask.
LEMMA OwnersKept == ASSUME EngineInv, Calm, KeepsPending PROVE BlocksOwned'
<1> SUFFICES ASSUME NEW r \in Req, NEW b \in Rows', message'[b] \in PendingBody(r)'
             PROVE  Reserved(b)' \/ queue'[b] # "none" \/ b \in foreign'
  BY DEF BlocksOwned
<1>1. b \in Rows /\ b \in BlockId /\ message[b] \in PendingBody(r)
  BY DEF Calm, KeepsPending, Rows
<1>2. Reserved(b) \/ queue[b] # "none" \/ b \in foreign
  BY <1>1 DEF EngineInv, BlocksOwned
<1> QED
  BY <1>1, <1>2 DEF Calm

\* A step after which D is the data of an object.
LEMMA DataKept ==
    ASSUME EngineInv, Calm, KeepsPending, sent \subseteq sent', NEW D,
           committed' = committed \cup D,
           \A r \in Req : PendingBody(r)' \cap D = {},
           \A u \in Upload, p \in PartNo :
              parts'[u][p].etag # NoEtag => parts'[u][p].etag \cap D = {}
    PROVE  DataOwned'
<1>2. \A r \in Req : PendingBody(r)' \cap committed' = {}
  BY DEF KeepsPending, EngineInv, DataOwned
<1>3. \A r, q \in Req : r # q => PendingBody(r)' \cap PendingBody(q)' = {}
  BY DEF KeepsPending, EngineInv, DataOwned
<1>4. \A u \in Upload, p \in PartNo : \A b \in parts'[u][p].blocks :
         message'[b] = message[b] /\ (b \in foreign => b \in foreign')
  <2> SUFFICES ASSUME NEW u \in Upload, NEW p \in PartNo, NEW b \in parts'[u][p].blocks
               PROVE  message'[b] = message[b] /\ (b \in foreign => b \in foreign')
    OBVIOUS
  <2>1. b \in BlockId /\ Held(b)'
    BY DEF Calm, StoreInv, TypeOK, PartRow, Held, HeldByPart
  <2>2. b \in Rows'
    BY <2>1 DEF Calm, StoreInv, References, Rows
  <2> QED
    BY <2>2 DEF Calm
<1>5. ASSUME NEW u \in Upload, NEW p \in PartNo, parts'[u][p].etag # NoEtag
      PROVE  /\ parts'[u][p] = parts[u][p]
             /\ parts'[u][p].blocks \cap foreign' = {} =>
                  parts'[u][p].etag = {message'[b] : b \in parts'[u][p].blocks}
             /\ parts'[u][p].etag \subseteq sent' \ committed'
             /\ \A r \in Req : PendingBody(r)' \cap parts'[u][p].etag = {}
  <2>1. parts'[u][p] = parts[u][p]
    BY <1>5 DEF Calm, NoPart
  <2>2. /\ parts[u][p].blocks \cap foreign = {} =>
             parts[u][p].etag = {message[b] : b \in parts[u][p].blocks}
        /\ parts[u][p].etag \subseteq sent \ committed
        /\ \A r \in Req : PendingBody(r) \cap parts[u][p].etag = {}
    BY <1>5, <2>1 DEF EngineInv, DataOwned, Stored
  <2>3. parts'[u][p].blocks \cap foreign' = {} =>
           parts'[u][p].etag = {message'[b] : b \in parts'[u][p].blocks}
    BY <1>4, <2>1, <2>2
  <2>4. parts'[u][p].etag \subseteq sent' \ committed'
    BY <1>5, <2>1, <2>2
  <2> QED
    BY <2>1, <2>2, <2>3, <2>4 DEF KeepsPending
<1>6. \A u, v \in Upload : \A p, q \in PartNo :
         parts'[u][p].etag # NoEtag /\ parts'[v][q].etag # NoEtag /\ <<v, q>> # <<u, p>>
            => parts'[u][p].etag \cap parts'[v][q].etag = {}
  BY <1>5 DEF EngineInv, DataOwned
<1> QED
  BY <1>2, <1>3, <1>5, <1>6 DEF DataOwned, Stored

----------------------------------------------------------------------------
(* Calm steps keep the invariant.                                          *)

\* A calm step of handler r, after which its locals are l and D is the data of
\* an object.
LEMMA HandlerStep ==
    ASSUME EngineInv, Calm, UNCHANGED <<setup, sent, outrun, buckets, scanned>>,
           NEW r \in Req, NEW l, req' = [req EXCEPT ![r] = l], l \in Locals', LocalOK(l)',
           l.pc \in {"upload", "attach"} => l.refs = {} \/ l.refs = PendingRefs(r),
           cleaning' \in SUBSET BlockId,
           NEW D \in SUBSET sent, committed' = committed \cup D,
           \A q \in Req : PendingBody(q) \cap D = {},
           \A u \in Upload, p \in PartNo :
              parts'[u][p].etag # NoEtag => parts'[u][p].etag \cap D = {},
           \A k \in Key : Exists(k)' => Exists(k) \/ k[1] \in buckets \cup outrun,
           \A bkt \in cors' : bkt \in cors \/ bkt \in buckets \cup outrun,
           abandoned \subseteq abandoned', abandoned' \in SUBSET Upload,
           \A u \in Upload : uploads'[u].kind = "put" =>
              uploads[u].kind = "put" \/ (l.op = "put" /\ l.u = u),
           req[r].op = "put" => \/ l.op = "put" /\ l.u = req[r].u
                                \/ req[r].u \in abandoned'
                                \/ uploads'[req[r].u].kind # "put"
    PROVE  EngineStep
<1>1. \A q \in Req : req'[q] = IF q = r THEN l ELSE req[q]
  BY DEF EngineInv, EngineTypeOK
<1>2. KeepsPending
  BY PendingStep
<1>3. BlocksOwned'
  BY <1>2, OwnersKept
<1>4. DataOwned'
  <2>1. \A q \in Req : PendingBody(q)' \cap D = {}
    BY <1>2 DEF KeepsPending
  <2> QED
    BY <1>2, <2>1, DataKept
<1>5. req' \in [Req -> Locals'] /\ LocalsOK'
  BY LocalsStep DEF EngineInv
<1>6. EngineTypeOK'
  BY <1>5 DEF EngineInv, EngineTypeOK, Calm, StoreInv
<1>7. NothingOutlivesBucket'
  BY DEF EngineInv, NothingOutlivesBucket
<1>8. PutUploadsOwned'
  <2> SUFFICES ASSUME NEW u \in Upload, uploads'[u].kind = "put", u \notin abandoned'
               PROVE  \E q \in Req : req'[q].op = "put" /\ req'[q].u = u
    BY DEF PutUploadsOwned
  <2>1. CASE l.op = "put" /\ l.u = u
    BY <1>1, <2>1
  <2>2. CASE uploads[u].kind = "put" /\ ~(l.op = "put" /\ l.u = u)
    <3>1. PICK q \in Req : req[q].op = "put" /\ req[q].u = u
      BY <2>2 DEF EngineInv, PutUploadsOwned
    <3>2. q # r
      BY <2>2, <3>1
    <3> QED
      BY <1>1, <3>1, <3>2
  <2> QED
    BY <2>1, <2>2
<1> QED
  <2>1. RowsSent'
    BY DEF Calm, EngineInv, RowsSent
  <2> QED
    BY <1>3, <1>4, <1>5, <1>6, <1>7, <1>8, <2>1 DEF EngineStep, EngineInv, Calm

\* A step in which handler r only changes its locals, or hands its blocks over.
LEMMA LocalStep ==
    ASSUME EngineInv,
           UNCHANGED <<setup, storeVars, sent, scanned, committed, outrun, taken, foreign>>,
           NEW r \in Req, NEW l, req' = [req EXCEPT ![r] = l], l \in Locals, LocalOK(l),
           l.pc \in {"upload", "attach"} => l.refs = {} \/ l.refs = PendingRefs(r),
           cleaning' \in SUBSET BlockId,
           abandoned \subseteq abandoned', abandoned' \in SUBSET Upload,
           req[r].op = "put" => \/ l.op = "put" /\ l.u = req[r].u
                                \/ req[r].u \in abandoned'
                                \/ uploads[req[r].u].kind # "put"
    PROVE  EngineStep
<1> USE DEF storeVars, bucketVars, uploadVars, blockVars
<1>1. Calm
  BY StutterInv, PlainCalm DEF EngineInv
<1>2. l \in Locals' /\ LocalOK(l)'
  BY DEF Locals, PartSnap, LocalOK
<1>3. {} \in SUBSET sent /\ committed' = committed \cup {}
  OBVIOUS
<1>4. /\ \A k \in Key : Exists(k)' => Exists(k)
      /\ \A u \in Upload : uploads'[u].kind = "put" => uploads[u].kind = "put"
  BY DEF Exists
<1> QED
  BY <1>1, <1>2, <1>3, <1>4, HandlerStep

\* A calm step of no handler.
LEMMA OtherStep ==
    ASSUME EngineInv, Calm, UNCHANGED <<setup, req, sent, abandoned, committed>>,
           cleaning' \in SUBSET BlockId, scanned' \in SUBSET BlockId,
           outrun' \in SUBSET (Bucket \ buckets'),
           \A bkt \in buckets \cup outrun :
              \/ bkt \in buckets' \cup outrun'
              \/ /\ ~ReliesOn(bkt) /\ bkt \notin cors'
                 /\ \A k \in Key : Exists(k)' => k[1] # bkt,
           \A k \in Key : Exists(k)' => Exists(k),
           cors' \subseteq cors,
           \A u \in Upload : uploads'[u].kind = "put" => uploads[u].kind = "put"
    PROVE  EngineStep
<1>1. KeepsPending
  BY DEF KeepsPending, PendingRefs, PendingBody
<1>2. BlocksOwned'
  BY <1>1, OwnersKept
<1>3. DataOwned'
  <2>1. committed' = committed \cup {} /\ sent \subseteq sent' /\ \A S : S \cap {} = {}
    OBVIOUS
  <2>2. /\ \A r \in Req : PendingBody(r)' \cap {} = {}
        /\ \A u \in Upload, p \in PartNo :
              parts'[u][p].etag # NoEtag => parts'[u][p].etag \cap {} = {}
    BY <2>1
  <2> HIDE DEF Calm, KeepsPending
  <2> QED
    BY <1>1, <2>1, <2>2, DataKept
<1>4. req' \in [Req -> Locals'] /\ LocalsOK'
  BY LocalsUnchanged DEF EngineInv
<1>5. EngineTypeOK'
  BY <1>4 DEF EngineInv, EngineTypeOK, Calm, StoreInv
<1>6. NothingOutlivesBucket' /\ PutUploadsOwned'
  BY DEF EngineInv, NothingOutlivesBucket, PutUploadsOwned
<1> QED
  <2>1. RowsSent'
    BY DEF Calm, EngineInv, RowsSent
  <2> QED
    BY <1>2, <1>3, <1>4, <1>5, <1>6, <2>1 DEF EngineStep, EngineInv, Calm

----------------------------------------------------------------------------
(* The actions: steps that only change the locals of a handler.            *)

\* A handler between two requests.
LEMMA ReadyLocals == ASSUME EngineInv PROVE Ready \in Locals /\ LocalOK(Ready)
<1>1. [p \in {} |-> NoPart] \in PartSnap
  <2>1. [p \in {} |-> NoPart] \in [{} -> [etag : SUBSET sent, blocks : SUBSET BlockId]]
    OBVIOUS
  <2> QED
    BY <2>1 DEF PartSnap
<1> QED
  BY <1>1 DEF Ready, Locals, LocalOK, NoObject, ObjectRow

\* The handler goes on to pc.
LEMMA GotoStep ==
    ASSUME EngineInv, NEW r \in Req, NEW pc \in {"attach", "commit", "abort"}, Goto(r, pc),
           UNCHANGED <<setup, storeVars, sent, scanned, historyVars>>,
           LocalOK([req[r] EXCEPT !.pc = pc]),
           pc = "attach" => req[r].pc = "upload",
           cleaning' \in SUBSET BlockId
    PROVE  EngineStep
<1>1. PICK l : l = [req[r] EXCEPT !.pc = pc]
  OBVIOUS
<1>2. req[r] \in Locals
  BY DEF EngineInv, EngineTypeOK
<1>3. /\ l \in Locals /\ LocalOK(l) /\ l.pc = pc /\ l.op = req[r].op /\ l.u = req[r].u
      /\ l.refs = req[r].refs
  BY <1>1, <1>2 DEF Locals
<1>4. req' = [req EXCEPT ![r] = l]
  BY <1>1 DEF Goto
<1>5. l.pc \in {"upload", "attach"} => l.refs = PendingRefs(r)
  BY <1>3 DEF PendingRefs
<1>6. /\ UNCHANGED <<committed, outrun, taken, foreign>>
      /\ abandoned \subseteq abandoned' /\ abandoned' \in SUBSET Upload
  BY DEF EngineInv, EngineTypeOK, historyVars
<1> QED
  BY <1>3, <1>4, <1>5, <1>6, LocalStep

\* The handler returns, or is dropped.
LEMMA FinishStep ==
    ASSUME EngineInv, NEW r \in Req, Finish(r),
           UNCHANGED <<setup, storeVars, sent, scanned, committed, outrun, taken, foreign>>,
           abandoned \subseteq abandoned', abandoned' \in SUBSET Upload,
           cleaning' \in SUBSET BlockId,
           req[r].op = "put" => req[r].u \in abandoned' \/ uploads[req[r].u].kind # "put"
    PROVE  EngineStep
<1>1. Ready.pc \notin {"upload", "attach"}
  BY DEF Ready
<1>2. req' = [req EXCEPT ![r] = Ready]
  BY DEF Finish
<1>3. PICK l : l = Ready
  OBVIOUS
<1> HIDE DEF Ready
<1> QED
  BY <1>1, <1>2, <1>3, ReadyLocals, LocalStep

\* put_part opens an upload row before it streams the body.
LEMMA PartStartInv ==
    ASSUME EngineInv, NEW r \in Req, NEW u \in Upload, NEW p \in PartNo, PartStart(r, u, p)
    PROVE  EngineStep
<1>1. PICK l : l = [Ready EXCEPT !.pc = "upload", !.op = "part", !.u = u, !.part = p]
  OBVIOUS
<1>2. Ready \in Locals /\ "part" \in Ops
  BY ReadyLocals DEF PartStart, Ops
<1>3. l \in Locals /\ LocalOK(l) /\ l.refs = {}
  BY <1>1, <1>2 DEF Locals, LocalOK, Ready
<1>4. req[r].op # "put"
  BY DEF PartStart, EngineInv, LocalsOK, LocalOK, Ready
<1>5. /\ UNCHANGED <<setup, storeVars, sent, scanned, committed, outrun, taken, foreign, cleaning, abandoned>>
      /\ req' = [req EXCEPT ![r] = l]
  BY <1>1 DEF PartStart, handlerVars, idVars, historyVars
<1>6. abandoned \subseteq abandoned' /\ abandoned' \in SUBSET Upload /\ cleaning' \in SUBSET BlockId
  BY <1>5 DEF EngineInv, EngineTypeOK
<1> QED
  BY <1>3, <1>4, <1>5, <1>6, LocalStep

\* A body that was received whole: the handler goes on to its transaction.
LEMMA UploadDoneInv ==
    ASSUME EngineInv, NEW r \in Req, UploadDone(r) PROVE EngineStep
<1>1. req[r] \in Locals /\ LocalOK(req[r]) /\ req[r].pc = "upload"
  BY DEF UploadDone, EngineInv, EngineTypeOK, LocalsOK
<1>2. LocalOK([req[r] EXCEPT !.pc = "attach"])
  BY <1>1 DEF Locals, LocalOK
<1>3. UNCHANGED <<setup, storeVars, sent, scanned, historyVars>> /\ cleaning' \in SUBSET BlockId
  BY DEF UploadDone, handlerVars, idVars, EngineInv, EngineTypeOK
<1> QED
  BY <1>1, <1>2, <1>3, GotoStep DEF UploadDone

\* A body that failed, a PUT's or a part's: only the PUT aborts its upload.
LEMMA UploadErrorInv ==
    ASSUME EngineInv, NEW r \in Req, UploadError(r) PROVE EngineStep
<1>1. req[r] \in Locals /\ LocalOK(req[r]) /\ req[r].pc \in {"upload", "attach"}
  BY DEF UploadError, EngineInv, EngineTypeOK, LocalsOK
<1>2. cleaning' \in SUBSET BlockId
  BY <1>1 DEF UploadError, Blocks, Locals, EngineInv, EngineTypeOK
<1>3. /\ UNCHANGED <<setup, storeVars, sent, scanned, historyVars>>
      /\ UNCHANGED <<abandoned, committed, outrun, taken, foreign>>
  BY DEF UploadError, historyVars
<1>4. CASE req[r].op = "put"
  <2>1. LocalOK([req[r] EXCEPT !.pc = "abort"]) /\ Goto(r, "abort")
    BY <1>1, <1>4 DEF Locals, LocalOK, UploadError, FailTo
  <2> QED
    BY <1>2, <1>3, <2>1, GotoStep
<1>5. CASE req[r].op # "put"
  <2>1. Finish(r)
    BY <1>5 DEF UploadError, FailTo
  <2>2. abandoned \subseteq abandoned' /\ abandoned' \in SUBSET Upload
    BY <1>3 DEF EngineInv, EngineTypeOK
  <2> QED
    BY <1>2, <1>3, <1>5, <2>1, <2>2, FinishStep
<1> QED
  BY <1>4, <1>5

\* A transaction that fails leaves the database and sends the handler to its error path.
LEMMA CommitErrorInv ==
    ASSUME EngineInv, NEW r \in Req, CommitError(r) PROVE EngineStep
<1>1. req[r] \in Locals /\ LocalOK(req[r]) /\ req[r].pc = "commit"
  BY DEF CommitError, EngineInv, EngineTypeOK, LocalsOK
<1>2. /\ UNCHANGED <<setup, storeVars, sent, scanned, historyVars>>
      /\ UNCHANGED <<cleaning, abandoned, committed, outrun, taken, foreign>>
      /\ cleaning' \in SUBSET BlockId
  BY DEF CommitError, handlerVars, idVars, historyVars, EngineInv, EngineTypeOK
<1>3. CASE req[r].op = "put"
  <2>1. LocalOK([req[r] EXCEPT !.pc = "abort"]) /\ Goto(r, "abort")
    BY <1>1, <1>3 DEF Locals, LocalOK, CommitError, FailTo
  <2> QED
    BY <1>2, <2>1, GotoStep
<1>4. CASE req[r].op # "put"
  <2>1. Finish(r)
    BY <1>4 DEF CommitError, FailTo
  <2>2. abandoned \subseteq abandoned' /\ abandoned' \in SUBSET Upload
    BY <1>2 DEF EngineInv, EngineTypeOK
  <2> QED
    BY <1>2, <1>4, <2>1, <2>2, FinishStep
<1> QED
  BY <1>3, <1>4

\* The abort of a failed PUT may itself fail.
LEMMA PutAbortErrorInv ==
    ASSUME EngineInv, NEW r \in Req, PutAbortError(r) PROVE EngineStep
<1>1. req[r].u \in Upload
  BY DEF PutAbortError, EngineInv, LocalsOK, LocalOK
<1>2. abandoned \subseteq abandoned' /\ abandoned' \in SUBSET Upload /\ req[r].u \in abandoned'
  BY <1>1 DEF PutAbortError, EngineInv, EngineTypeOK
<1>3. UNCHANGED scanned /\ cleaning' \in SUBSET BlockId
  BY DEF PutAbortError, idVars, EngineInv, EngineTypeOK
<1> QED
  BY <1>2, <1>3, FinishStep DEF PutAbortError

\* A client that goes away drops its handler where it stands.
LEMMA CancelInv ==
    ASSUME EngineInv, NEW r \in Req, Cancel(r) PROVE EngineStep
<1>1. req[r].op = "put" => req[r].u \in Upload
  BY DEF EngineInv, LocalsOK, LocalOK
<1>2. /\ abandoned \subseteq abandoned' /\ abandoned' \in SUBSET Upload
      /\ req[r].op = "put" => req[r].u \in abandoned'
  BY <1>1 DEF Cancel, EngineInv, EngineTypeOK
<1>3. cleaning' \in SUBSET BlockId
  BY DEF Cancel, Blocks, Locals, EngineInv, EngineTypeOK
<1> QED
  BY <1>2, <1>3, FinishStep DEF Cancel

\* A step of a handler that is no upload and changes nothing but its locals.
LEMMA ReadStep ==
    ASSUME EngineInv, UNCHANGED <<storeVars, handlerVars>>,
           NEW r \in Req, NEW l, req' = [req EXCEPT ![r] = l], l \in Locals, LocalOK(l),
           l.pc \notin {"upload", "attach"}, req[r].op # "put"
    PROVE  EngineStep
<1>1. UNCHANGED <<setup, storeVars, sent, scanned, committed, outrun, taken, foreign, cleaning, abandoned>>
  BY DEF handlerVars, idVars, historyVars
<1>2. /\ abandoned \subseteq abandoned' /\ abandoned' \in SUBSET Upload
      /\ cleaning' \in SUBSET BlockId
  BY <1>1 DEF EngineInv, EngineTypeOK
<1> QED
  BY <1>1, <1>2, LocalStep

\* Only multipart uploads are completed by complete_multipart_upload.
LEMMA ReadyIsNoPut ==
    ASSUME EngineInv, NEW r \in Req, req[r].pc = "ready"
    PROVE  req[r].op # "put"
BY DEF EngineInv, LocalsOK, LocalOK, Ready

\* complete_multipart_upload reads the parts the client named.
LEMMA CompleteReadPartsInv ==
    ASSUME EngineInv, NEW r \in Req, NEW u \in Upload, NEW P \in SUBSET PartNo \ {{}},
           CompleteReadParts(r, u, P)
    PROVE  EngineStep
<1>1. PICK snap : snap = [p \in P |-> [etag |-> parts[u][p].etag, blocks |-> {}]]
  OBVIOUS
<1>2. snap \in PartSnap /\ \A p \in DOMAIN snap : snap[p].etag \subseteq sent
  <2>1. \A p \in P : parts[u][p].etag \subseteq sent
    BY DEF CompleteReadParts, EngineInv, DataOwned
  <2>2. sent \subseteq Msg
    BY DEF EngineInv, EngineTypeOK
  <2>3. snap \in [P -> [etag : Etag, blocks : SUBSET BlockId]]
    BY <1>1, <2>1, <2>2, EtagIsDigest
  <2> QED
    BY <1>1, <2>1, <2>3 DEF PartSnap
<1>3. PICK l : l = [Ready EXCEPT !.pc = "read", !.op = "complete", !.u = u, !.snap = snap]
  OBVIOUS
<1>4. Ready \in Locals /\ "complete" \in Ops
  BY ReadyLocals DEF CompleteReadParts, Ops
<1>5. l \in Locals /\ LocalOK(l) /\ l.pc = "read"
  BY <1>2, <1>3, <1>4 DEF Locals, LocalOK, Ready
<1>6. UNCHANGED <<storeVars, handlerVars>> /\ req' = [req EXCEPT ![r] = l]
  BY <1>1, <1>3 DEF CompleteReadParts
<1>7. req[r].op # "put"
  BY ReadyIsNoPut DEF CompleteReadParts
<1> QED
  BY <1>5, <1>6, <1>7, ReadStep

\* ... then their blocks, in a second read.
LEMMA CompleteReadBlocksInv ==
    ASSUME EngineInv, NEW r \in Req, CompleteReadBlocks(r) PROVE EngineStep
<1>1. /\ req[r] \in Locals /\ LocalOK(req[r])
      /\ req[r].pc = "read" /\ req[r].op = "complete" /\ req[r].u \in Upload
  BY DEF CompleteReadBlocks, EngineInv, EngineTypeOK, LocalsOK, LocalOK
<1>2. PICK snap : snap = [p \in DOMAIN req[r].snap |->
                    [etag |-> req[r].snap[p].etag, blocks |-> parts[req[r].u][p].blocks]]
  OBVIOUS
<1>3. snap \in PartSnap /\ \A p \in DOMAIN snap : snap[p].etag \subseteq sent
  <2>1. PICK P \in SUBSET PartNo :
          req[r].snap \in [P -> [etag : Etag, blocks : SUBSET BlockId]]
    BY <1>1 DEF Locals, PartSnap
  <2>2. \A p \in P : parts[req[r].u][p].blocks \in SUBSET BlockId
    BY <1>1 DEF EngineInv, StoreInv, TypeOK, PartRow
  <2>3. snap \in [P -> [etag : Etag, blocks : SUBSET BlockId]]
    BY <1>2, <2>1, <2>2
  <2>4. \A p \in DOMAIN snap : snap[p].etag \subseteq sent
    BY <1>1, <1>2 DEF LocalOK
  <2> QED
    BY <2>3, <2>4 DEF PartSnap
<1>4. PICK l : l = [req[r] EXCEPT !.pc = "commit", !.snap = snap]
  OBVIOUS
<1>5. l \in Locals /\ LocalOK(l) /\ l.pc = "commit"
  BY <1>1, <1>3, <1>4 DEF Locals, LocalOK
<1>6. UNCHANGED <<storeVars, handlerVars>> /\ req' = [req EXCEPT ![r] = l]
  BY <1>2, <1>4 DEF CompleteReadBlocks
<1> QED
  BY <1>1, <1>5, <1>6, ReadStep

\* copy_object reads its source record.
LEMMA CopyReadRowInv ==
    ASSUME EngineInv, NEW r \in Req, NEW src \in Key, NEW dst \in Key, CopyReadRow(r, src, dst)
    PROVE  EngineStep
<1>1. PICK row : row = [id |-> objects[src].id, etag |-> objects[src].etag, blocks |-> {}]
  OBVIOUS
<1>2. row \in ObjectRow /\ dst[1] \in Bucket
  BY <1>1 DEF EngineInv, StoreInv, TypeOK, ObjectRow, Key
<1>3. PICK l : l = [Ready EXCEPT !.pc = "read", !.op = "copy", !.src = src, !.dst = dst,
                       !.bucket = dst[1], !.row = row]
  OBVIOUS
<1>4. Ready \in Locals /\ "copy" \in Ops /\ dst[1] \in buckets
  BY ReadyLocals DEF CopyReadRow, Ops
<1>5. l \in Locals /\ LocalOK(l) /\ l.pc = "read"
  BY <1>2, <1>3, <1>4 DEF Locals, LocalOK, Ready
<1>6. UNCHANGED <<storeVars, handlerVars>> /\ req' = [req EXCEPT ![r] = l]
  BY <1>1, <1>3 DEF CopyReadRow
<1>7. req[r].op # "put"
  BY ReadyIsNoPut DEF CopyReadRow
<1> QED
  BY <1>5, <1>6, <1>7, ReadStep

\* ... then the blocks of that record, by rowid, in a second read.
LEMMA CopyReadBlocksInv ==
    ASSUME EngineInv, NEW r \in Req, CopyReadBlocks(r) PROVE EngineStep
<1>1. /\ req[r] \in Locals /\ LocalOK(req[r]) /\ req[r].pc = "read" /\ req[r].op = "copy"
      /\ UNCHANGED <<storeVars, handlerVars>>
  BY DEF CopyReadBlocks, EngineInv, EngineTypeOK, LocalsOK
<1>2. PICK row : row = [req[r].row EXCEPT !.blocks = LoadObjectBlocks(req[r].row.id)]
  OBVIOUS
<1>3. row \in ObjectRow
  <2>1. LoadObjectBlocks(req[r].row.id) \in SUBSET BlockId
    BY DEF LoadObjectBlocks, EngineInv, StoreInv, TypeOK, ObjectRow
  <2> QED
    BY <1>1, <1>2, <2>1 DEF Locals, ObjectRow
<1>4. CASE ObjectLayoutOk(row)
  <2>1. PICK l : l = [req[r] EXCEPT !.pc = "commit", !.row = row]
    OBVIOUS
  <2>2. l \in Locals /\ LocalOK(l) /\ l.pc = "commit"
    BY <1>1, <1>3, <2>1 DEF Locals, LocalOK
  <2>3. req' = [req EXCEPT ![r] = l]
    BY <1>2, <1>4, <2>1 DEF CopyReadBlocks
  <2> QED
    BY <1>1, <2>2, <2>3, ReadStep
<1>5. CASE ~ObjectLayoutOk(row)
  <2>1. req' = [req EXCEPT ![r] = Ready]
    BY <1>2, <1>5 DEF CopyReadBlocks, Finish
  <2>2. PICK l : l = Ready
    OBVIOUS
  <2>3. l \in Locals /\ LocalOK(l) /\ l.pc = "ready"
    BY <2>2, ReadyLocals DEF Ready
  <2> QED
    BY <1>1, <2>1, <2>2, <2>3, ReadStep
<1> QED
  BY <1>4, <1>5

\* put_bucket_cors checks its bucket before it writes the rules.
LEMMA CorsCheckInv ==
    ASSUME EngineInv, NEW r \in Req, NEW bkt \in Bucket, CorsCheck(r, bkt)
    PROVE  EngineStep
<1>1. PICK l : l = [Ready EXCEPT !.pc = "commit", !.op = "cors", !.bucket = bkt]
  OBVIOUS
<1>2. Ready \in Locals /\ "cors" \in Ops /\ bkt \in buckets
  BY ReadyLocals DEF CorsCheck, Ops
<1>3. l \in Locals /\ LocalOK(l) /\ l.pc = "commit"
  BY <1>1, <1>2 DEF Locals, LocalOK, Ready
<1>4. UNCHANGED <<storeVars, handlerVars>> /\ req' = [req EXCEPT ![r] = l]
  BY <1>1 DEF CorsCheck
<1>5. req[r].op # "put"
  BY ReadyIsNoPut DEF CorsCheck
<1> QED
  BY <1>3, <1>4, <1>5, ReadStep

\* A crash takes the handlers and the cleanup tasks along, the rows stay.
LEMMA CrashInv == ASSUME EngineInv, Crash PROVE EngineStep
<1> USE DEF storeVars, bucketVars, uploadVars, blockVars
<1>1. Calm
  BY StutterInv, PlainCalm DEF EngineInv, Crash
<1>2. \A r \in Req : req'[r] = Ready /\ PendingBody(r)' = {}
  BY DEF Crash, PendingRefs, PendingBody, Body, Ready
<1>3. KeepsPending
  BY <1>2 DEF KeepsPending
<1>4. BlocksOwned' /\ cleaning' \in SUBSET BlockId /\ scanned' \in SUBSET BlockId
  BY <1>1, <1>3, OwnersKept DEF Crash, EngineInv, EngineTypeOK
<1>5. DataOwned'
  <2>1. committed' = committed \cup {} /\ sent \subseteq sent' /\ \A S : S \cap {} = {}
    BY DEF Crash
  <2>2. /\ \A r \in Req : PendingBody(r)' \cap {} = {}
        /\ \A u \in Upload, p \in PartNo :
              parts'[u][p].etag # NoEtag => parts'[u][p].etag \cap {} = {}
    BY <2>1
  <2> HIDE DEF Calm, KeepsPending
  <2> QED
    BY <1>1, <1>3, <2>1, <2>2, DataKept
<1>6. req' \in [Req -> Locals'] /\ LocalsOK'
  <2>1. Ready \in Locals' /\ LocalOK(Ready)'
    BY ReadyLocals DEF Crash, Locals, PartSnap, LocalOK
  <2> QED
    BY <1>2, <2>1 DEF Crash, LocalsOK, LocalOK
<1>7. abandoned' \in SUBSET Upload
  BY DEF Crash, EngineInv, EngineTypeOK, LocalsOK, LocalOK
<1>8. EngineTypeOK'
  BY <1>1, <1>4, <1>6, <1>7 DEF Crash, EngineInv, EngineTypeOK, Calm, StoreInv
<1>9. NothingOutlivesBucket' /\ PutUploadsOwned'
  BY DEF Crash, EngineInv, NothingOutlivesBucket, PutUploadsOwned, Exists
<1>10. RowsSent'
  BY <1>1 DEF Crash, Calm, EngineInv, RowsSent
<1> QED
  BY <1>1, <1>4, <1>5, <1>6, <1>8, <1>9, <1>10 DEF EngineStep, EngineInv, Calm

----------------------------------------------------------------------------
(* The actions: transactions.                                              *)

\* The data of the parts that commit_upload has found unchanged.
LEMMA CommitData ==
    ASSUME EngineInv, NEW u \in Upload, NEW snap, DOMAIN snap \subseteq PartNo,
           PartsUnchanged(u, snap)
    PROVE  /\ Composite(snap) \subseteq sent \ committed
           /\ SnapBlocks(snap) \cap foreign = {} => Composite(snap) = Stored(SnapBlocks(snap))
           /\ \A r \in Req : PendingBody(r) \cap Composite(snap) = {}
           /\ \A v \in Upload, q \in PartNo : v # u /\ parts[v][q].etag # NoEtag
                 => parts[v][q].etag \cap Composite(snap) = {}
<1> DEFINE P == DOMAIN snap
           D == UNION {snap[p].etag : p \in P}
<1>1. \A p \in P : /\ parts[u][p] = snap[p] /\ snap[p].etag # NoEtag
                   /\ snap[p].blocks \cap foreign = {} =>
                        snap[p].etag = {message[b] : b \in snap[p].blocks}
                   /\ snap[p].etag \subseteq sent \ committed
                   /\ \A r \in Req : PendingBody(r) \cap snap[p].etag = {}
  BY DEF PartsUnchanged, EngineInv, DataOwned, Stored
<1>2. D \subseteq sent \ committed
  BY <1>1
<1>3. SnapBlocks(snap) \cap foreign = {} => D = Stored(SnapBlocks(snap))
  <2> SUFFICES ASSUME SnapBlocks(snap) \cap foreign = {} PROVE D = Stored(SnapBlocks(snap))
    OBVIOUS
  <2>1. \A p \in P : snap[p].blocks \cap foreign = {}
    BY DEF SnapBlocks
  <2>2. \A p \in P : snap[p].etag = {message[b] : b \in snap[p].blocks}
    BY <1>1, <2>1
  <2> QED
    BY <2>2 DEF Stored, SnapBlocks
<1>4. \A r \in Req : PendingBody(r) \cap D = {}
  BY <1>1
<1>5. ASSUME NEW v \in Upload, NEW q \in PartNo, v # u, parts[v][q].etag # NoEtag
      PROVE  parts[v][q].etag \cap D = {}
  <2>1. \A p \in P : <<u, p>> # <<v, q>>
    BY <1>5
  <2>2. \A p \in P : parts[v][q].etag \cap snap[p].etag = {}
    BY <1>1, <1>5, <2>1 DEF EngineInv, DataOwned
  <2> QED
    BY <2>2
<1>6. D = Composite(snap)
  BY DEF Composite
<1> HIDE DEF D
<1> QED
  BY <1>2, <1>3, <1>4, <1>5, <1>6

\* The handler returns after a transaction.
LEMMA FinishCalm ==
    ASSUME EngineInv, Calm, UNCHANGED <<setup, sent, outrun, buckets, idVars, abandoned>>,
           NEW r \in Req, Finish(r),
           NEW D \in SUBSET sent, committed' = committed \cup D,
           \A q \in Req : PendingBody(q) \cap D = {},
           \A u \in Upload, p \in PartNo :
              parts'[u][p].etag # NoEtag => parts'[u][p].etag \cap D = {},
           \A k \in Key : Exists(k)' => Exists(k) \/ k[1] \in buckets \cup outrun,
           \A bkt \in cors' : bkt \in cors \/ bkt \in buckets \cup outrun,
           \A u \in Upload : uploads'[u].kind = "put" => uploads[u].kind = "put",
           req[r].op = "put" => uploads'[req[r].u].kind # "put"
    PROVE  EngineStep
<1>1. PICK l : l = Ready
  OBVIOUS
<1>2. req' = [req EXCEPT ![r] = l]
  BY <1>1 DEF Finish
<1>3. l \in Locals' /\ LocalOK(l)' /\ l.pc \notin {"upload", "attach"}
  BY <1>1, ReadyLocals DEF Locals, PartSnap, LocalOK, Ready
<1>4. UNCHANGED scanned /\ cleaning' \in SUBSET BlockId
  BY DEF idVars, EngineInv, EngineTypeOK
<1>5. abandoned \subseteq abandoned' /\ abandoned' \in SUBSET Upload
  BY DEF EngineInv, EngineTypeOK
<1> HIDE DEF Calm
<1> QED
  BY <1>2, <1>3, <1>4, <1>5, HandlerStep

\* An upload that is deleted has no row, part or block left.
LEMMA DeletedUpload ==
    ASSUME EngineInv, NEW u \in Upload, DeleteUploadRow(u)
    PROVE  /\ \A v \in Upload : uploads'[v].kind = "put" => uploads[v].kind = "put" /\ v # u
           /\ \A v \in Upload, p \in PartNo :
                parts'[v][p] = IF v = u THEN NoPart ELSE parts[v][p]
BY DEF EngineInv, StoreInv, TypeOK, DeleteUploadRow, NoUpload, NoParts

\* A handler's transaction that succeeds and ends its request.
LEMMA CommitInv ==
    ASSUME EngineInv, NEW r \in Req, Finish(r), NEW u \in Upload, NEW P \in SUBSET PartNo,
           NEW snap \in [P -> PartRow], NEW D, D = Composite(snap), NEW cond,
           CommitUpload(u, snap, D, cond), committed' = committed \cup D,
           UNCHANGED <<setup, sent, idVars, abandoned, outrun, taken, foreign>>,
           req[r].op = "put" => req[r].u = u
    PROVE  EngineStep
<1>1. CommitUploadOk(u, snap, cond) /\ DeleteUploadRow(u) /\ UNCHANGED <<buckets, cors>>
  BY DEF CommitUpload, bucketVars
<1>2. DOMAIN snap \subseteq PartNo /\ PartsUnchanged(u, snap) /\ D = Composite(snap)
  BY <1>1 DEF CommitUploadOk
<1>3. /\ D \in SUBSET sent
      /\ \A q \in Req : PendingBody(q) \cap D = {}
      /\ \A v \in Upload, q \in PartNo :
           v # u /\ parts[v][q].etag # NoEtag => parts[v][q].etag \cap D = {}
  BY <1>2, CommitData
<1>4. D \in Etag
  BY <1>3, EtagIsDigest DEF EngineInv, EngineTypeOK
<1>5. Calm
  BY <1>4, CommitCalm
<1>6. \A v \in Upload, p \in PartNo :
         parts'[v][p].etag # NoEtag => parts'[v][p].etag \cap D = {}
  BY <1>1, <1>3, DeletedUpload DEF NoPart
<1>7. \A k \in Key : Exists(k)' => Exists(k) \/ k[1] \in buckets \cup outrun
  <2>1. uploads[u].key \in Key /\ uploads[u].key[1] \in buckets
    BY <1>1 DEF CommitUploadOk, EngineInv, StoreInv, TypeOK, UploadsInBuckets
  <2>2. PICK i : objects' = [objects EXCEPT ![uploads[u].key] =
                               [id |-> i, etag |-> D, blocks |-> SnapBlocks(snap)]]
    BY DEF CommitUpload
  <2>3. \A k \in Key : k # uploads[u].key => objects'[k] = objects[k]
    BY <2>2 DEF EngineInv, StoreInv, TypeOK
  <2> QED
    BY <2>1, <2>3 DEF Exists
<1>8. /\ \A v \in Upload : uploads'[v].kind = "put" => uploads[v].kind = "put" /\ v # u
      /\ \A bkt \in cors' : bkt \in cors
  BY <1>1, DeletedUpload
<1> HIDE DEF Calm
<1> QED
  BY <1>1, <1>3, <1>5, <1>6, <1>7, <1>8, FinishCalm

\* The commit of a PUT turns its staged blocks into an object.
LEMMA PutCommitInv ==
    ASSUME EngineInv, NEW r \in Req, NEW cond, PutCommit(r, cond) PROVE EngineStep
<1> DEFINE snap == PutSnap(req[r].refs)
           D == Body(req[r].refs)
<1>1. req[r] \in Locals /\ req[r].u \in Upload /\ 0 \in PartNo
  BY DEF PutCommit, EngineInv, EngineTypeOK, LocalsOK, LocalOK
<1>2. snap \in [{0} -> PartRow] /\ {0} \in SUBSET PartNo
  <2>1. D \in SUBSET Msg /\ Blocks(req[r].refs) \in SUBSET BlockId
    BY <1>1 DEF Locals, Body, Blocks, EngineInv, EngineTypeOK
  <2> QED
    BY <1>1, <2>1, EtagIsDigest DEF PutSnap, PartRow
<1>3. D = Composite(snap)
  BY DEF Composite, PutSnap
<1>4. /\ CommitUpload(req[r].u, snap, D, cond) /\ Finish(r)
      /\ committed' = committed \cup D
      /\ UNCHANGED <<setup, sent, idVars, abandoned, outrun, taken, foreign>>
  BY DEF PutCommit
<1> HIDE DEF snap, D
<1> QED
  BY <1>1, <1>2, <1>3, <1>4, CommitInv

\* The commit of a completion turns the listed parts into an object.
LEMMA CompleteCommitInv ==
    ASSUME EngineInv, NEW r \in Req, NEW cond, CompleteCommit(r, cond) PROVE EngineStep
<1>1. /\ req[r] \in Locals /\ req[r].u \in Upload
      /\ CommitUpload(req[r].u, req[r].snap, Composite(req[r].snap), cond) /\ Finish(r)
      /\ committed' = committed \cup Composite(req[r].snap)
      /\ UNCHANGED <<setup, sent, idVars, abandoned, outrun, taken, foreign>>
  BY DEF CompleteCommit, EngineInv, EngineTypeOK, LocalsOK, LocalOK
<1>2. PICK P \in SUBSET PartNo :
        req[r].snap \in [P -> [etag : Etag, blocks : SUBSET BlockId]]
  BY <1>1 DEF Locals, PartSnap
<1>3. [etag : Etag, blocks : SUBSET BlockId] \subseteq PartRow
  BY DEF PartRow
<1>4. req[r].snap \in [P -> PartRow]
  BY <1>2, <1>3
<1> QED
  BY <1>1, <1>4, CommitInv

\* put_object opens its upload.
LEMMA PutStartInv ==
    ASSUME EngineInv, NEW r \in Req, NEW u \in Upload, NEW k \in Key, PutStart(r, u, k)
    PROVE  EngineStep
<1> USE DEF bucketVars, blockVars
<1>1. PICK l : l = [Ready EXCEPT !.pc = "upload", !.op = "put", !.u = u]
  OBVIOUS
<1>2. Ready \in Locals /\ "put" \in Ops /\ 0 \in PartNo
  BY ReadyLocals, SetupAssumption DEF PutStart, Ops, EngineInv, EngineTypeOK
<1>3. l \in Locals /\ LocalOK(l) /\ l.refs = {} /\ l.op = "put" /\ l.u = u
  BY <1>1, <1>2 DEF Locals, LocalOK, Ready
<1>4. /\ UNCHANGED <<setup, sent, committed, outrun, taken, foreign, cleaning, scanned, abandoned>>
      /\ req' = [req EXCEPT ![r] = l] /\ CreateUpload(u, k, "put") /\ req[r].op # "put"
  BY <1>1, ReadyIsNoPut DEF PutStart, handlerVars, idVars, historyVars
<1>5. UNCHANGED <<bucketVars, objects, parts, ref, state, queue, message>>
  BY <1>4 DEF CreateUpload
<1>6. Calm
  BY <1>4, <1>5, CreateUploadInv, PlainCalm DEF EngineInv
<1>7. l \in Locals' /\ LocalOK(l)'
  BY <1>3, <1>4, <1>5 DEF Locals, PartSnap, LocalOK
<1>8. \A v \in Upload : uploads'[v].kind = "put" => uploads[v].kind = "put" \/ v = u
  BY <1>4 DEF CreateUpload, EngineInv, StoreInv, TypeOK
<1>9. {} \in SUBSET sent /\ committed' = committed \cup {} /\ \A S : S \cap {} = {}
  BY <1>4
<1>10. abandoned \subseteq abandoned' /\ abandoned' \in SUBSET Upload
  BY <1>4 DEF EngineInv, EngineTypeOK
<1>11. /\ \A j \in Key : Exists(j)' => Exists(j) \/ j[1] \in buckets \cup outrun
       /\ \A bkt \in cors' : bkt \in cors \/ bkt \in buckets \cup outrun
  BY <1>5 DEF Exists
<1> HIDE DEF Calm
<1>12. /\ \A q \in Req : PendingBody(q) \cap {} = {}
       /\ \A v \in Upload, p \in PartNo :
             parts'[v][p].etag # NoEtag => parts'[v][p].etag \cap {} = {}
  BY <1>9
<1>13. /\ \A v \in Upload : uploads'[v].kind = "put" =>
             uploads[v].kind = "put" \/ (l.op = "put" /\ l.u = v)
       /\ cleaning' \in SUBSET BlockId
  BY <1>3, <1>4, <1>8 DEF EngineInv, EngineTypeOK
<1>14. UNCHANGED <<setup, sent, outrun, buckets, scanned>>
  BY <1>4, <1>5
<1> QED
  BY <1>3, <1>4, <1>6, <1>7, <1>9, <1>10, <1>11, <1>12, <1>13, <1>14, HandlerStep

\* A transaction after which no data becomes an object's.
LEMMA FinishCalmNoData ==
    ASSUME EngineInv, Calm,
           UNCHANGED <<setup, sent, outrun, buckets, idVars, abandoned, committed>>,
           NEW r \in Req, Finish(r),
           \A k \in Key : Exists(k)' => Exists(k) \/ k[1] \in buckets \cup outrun,
           \A bkt \in cors' : bkt \in cors \/ bkt \in buckets \cup outrun,
           \A u \in Upload : uploads'[u].kind = "put" => uploads[u].kind = "put",
           req[r].op = "put" => uploads'[req[r].u].kind # "put"
    PROVE  EngineStep
<1> HIDE DEF Calm
<1>1. {} \in SUBSET sent /\ committed' = committed \cup {} /\ \A S : S \cap {} = {}
  OBVIOUS
<1>2. /\ \A q \in Req : PendingBody(q) \cap {} = {}
      /\ \A v \in Upload, p \in PartNo :
            parts'[v][p].etag # NoEtag => parts'[v][p].etag \cap {} = {}
  BY <1>1
<1> QED
  BY <1>1, <1>2, FinishCalm

\* The error path of a PUT aborts the upload it opened.
LEMMA PutAbortInv ==
    ASSUME EngineInv, NEW r \in Req, PutAbort(r) PROVE EngineStep
<1>1. /\ UNCHANGED <<setup, sent, outrun, idVars, abandoned, committed, taken, foreign>> /\ Finish(r)
      /\ req[r].u \in Upload
  BY DEF PutAbort, handlerVars, historyVars, EngineInv, LocalsOK, LocalOK
<1>2. CASE Active(req[r].u)
  <2>1. AbortUpload(req[r].u) /\ DeleteUploadRow(req[r].u) /\ UNCHANGED <<bucketVars, objects>>
    BY <1>2 DEF PutAbort, AbortUpload
  <2>2. Calm
    BY <1>1, <2>1, AbortCalm
  <2>3. /\ \A u \in Upload : uploads'[u].kind = "put" => uploads[u].kind = "put"
        /\ uploads'[req[r].u].kind # "put"
    BY <1>1, <2>1, DeletedUpload
  <2>4. UNCHANGED <<buckets, cors>> /\ \A k \in Key : Exists(k)' => Exists(k)
    BY <2>1 DEF bucketVars, Exists
  <2> QED
    BY <1>1, <2>2, <2>3, <2>4, FinishCalmNoData
<1>3. CASE ~Active(req[r].u)
  <2> USE DEF storeVars, bucketVars, uploadVars, blockVars
  <2>1. UNCHANGED storeVars
    BY <1>3 DEF PutAbort
  <2>2. Calm
    BY <1>1, <2>1, StutterInv, PlainCalm DEF EngineInv
  <2>3. \A k \in Key : Exists(k)' => Exists(k)
    BY <2>1 DEF Exists
  <2>4. uploads'[req[r].u].kind # "put"
    BY <1>3, <2>1 DEF Active
  <2> QED
    BY <1>1, <2>1, <2>2, <2>3, <2>4, FinishCalmNoData
<1> QED
  BY <1>2, <1>3

\* The commit of a copy adds a reference for every block it lists.
LEMMA CopyCommitInv ==
    ASSUME EngineInv, NEW r \in Req, NEW cond, CopyCommit(r, cond) PROVE EngineStep
<1>1. /\ req[r] \in Locals /\ req[r].src \in Key /\ req[r].dst \in Key
      /\ req[r].dst[1] \in buckets \cup outrun /\ req[r].op # "put"
      /\ req[r].row \in ObjectRow
  BY DEF CopyCommit, EngineInv, EngineTypeOK, LocalsOK, LocalOK, Locals
<1>2. /\ CopyObject(req[r].src, req[r].row, req[r].dst, cond) /\ Finish(r)
      /\ taken' = taken \cup {b \in req[r].row.blocks : Unlisted(b)}
      /\ UNCHANGED <<setup, sent, idVars, abandoned, committed, outrun, foreign>>
  BY DEF CopyCommit
<1>3. Calm
  BY <1>1, <1>2, CopyCalm
<1>4. UNCHANGED <<buckets, cors, uploads>>
  BY <1>2 DEF CopyObject, bucketVars, uploadVars
<1>5. \A k \in Key : k # req[r].dst => objects'[k] = objects[k]
  BY <1>2 DEF CopyObject, EngineInv, StoreInv, TypeOK
<1>6. \A k \in Key : Exists(k)' => Exists(k) \/ k[1] \in buckets \cup outrun
  BY <1>1, <1>5 DEF Exists
<1> QED
  BY <1>1, <1>2, <1>3, <1>4, <1>6, FinishCalmNoData

\* The write of a bucket's CORS rules.
LEMMA CorsCommitInv ==
    ASSUME EngineInv, NEW r \in Req, CorsCommit(r) PROVE EngineStep
<1> USE DEF uploadVars, blockVars
<1>1. /\ req[r].bucket \in buckets \cup outrun /\ req[r].op # "put"
      /\ SetBucketCors(req[r].bucket) /\ Finish(r)
      /\ UNCHANGED <<setup, sent, idVars, abandoned, committed, outrun, taken, foreign>>
  BY DEF CorsCommit, EngineInv, LocalsOK, LocalOK, handlerVars, historyVars
<1>2. req[r].bucket \in Bucket
  BY <1>1 DEF EngineInv, EngineTypeOK, StoreInv, TypeOK
<1>3. StoreInv' /\ KeepsRows
  BY <1>1, <1>2, BucketOpsInv DEF EngineInv
<1>4. UNCHANGED <<buckets, uploads, objects, parts, ref, state, queue, message>>
  BY <1>1 DEF SetBucketCors
<1>5. Calm
  BY <1>1, <1>3, <1>4, PlainCalm
<1>6. \A k \in Key : Exists(k)' => Exists(k)
  BY <1>4 DEF Exists
<1>7. \A bkt \in cors' : bkt \in cors \/ bkt \in buckets \cup outrun
  BY <1>1 DEF SetBucketCors
<1> QED
  BY <1>1, <1>4, <1>5, <1>6, <1>7, FinishCalmNoData

----------------------------------------------------------------------------
(* The actions of the rest of the system.                                  *)

\* AddBucket (Db::create_bucket) keeps the invariant.
LEMMA AddBucketInv ==
    ASSUME EngineInv, NEW bkt \in Bucket, AddBucket(bkt) PROVE EngineStep
<1> USE DEF uploadVars, blockVars
<1>1. /\ CreateBucket(bkt) /\ outrun' = outrun \ {bkt} /\ buckets' = buckets \cup {bkt}
      /\ UNCHANGED <<setup, req, sent, cleaning, scanned, abandoned, committed, taken, foreign>>
      /\ UNCHANGED <<cors, uploads, objects, parts, ref, state, queue, message>>
  BY DEF AddBucket, CreateBucket, idVars
<1>2. Calm
  BY <1>1, BucketOpsInv, PlainCalm DEF EngineInv
<1>3. /\ outrun' \in SUBSET (Bucket \ buckets')
      /\ cleaning' \in SUBSET BlockId /\ scanned' \in SUBSET BlockId
  BY <1>1 DEF EngineInv, EngineTypeOK
<1>4. \A k \in Key : Exists(k)' => Exists(k)
  BY <1>1 DEF Exists
<1> QED
  BY <1>1, <1>2, <1>3, <1>4, OtherStep

\* A bucket is dropped only when it holds no object and no upload.
LEMMA DropBucketInv ==
    ASSUME EngineInv, NEW bkt \in Bucket, DropBucket(bkt) PROVE EngineStep
<1> USE DEF uploadVars, blockVars
<1>1. /\ DeleteBucket(bkt) /\ buckets' = buckets \ {bkt} /\ cors' = cors \ {bkt}
      /\ outrun' = IF ReliesOn(bkt) THEN outrun \cup {bkt} ELSE outrun
      /\ UNCHANGED <<setup, req, sent, cleaning, scanned, abandoned, committed, taken, foreign>>
      /\ UNCHANGED <<uploads, objects, parts, ref, state, queue, message>>
  BY DEF DropBucket, DeleteBucket, idVars
<1>2. Calm
  BY <1>1, BucketOpsInv, PlainCalm DEF EngineInv
<1>3. /\ outrun' \in SUBSET (Bucket \ buckets')
      /\ cleaning' \in SUBSET BlockId /\ scanned' \in SUBSET BlockId
  BY <1>1 DEF EngineInv, EngineTypeOK
<1>4. \A k \in Key : /\ Exists(k)' => Exists(k)
                     /\ Exists(k)' => k[1] # bkt
  BY <1>1 DEF DeleteBucket, Exists, Key
<1> QED
  BY <1>1, <1>2, <1>3, <1>4, OtherStep

\* The transactions of requests that are one transaction.
LEMMA OthersInv == ASSUME EngineInv, Others PROVE EngineStep
<1> USE DEF bucketVars, uploadVars, blockVars
<1>1. /\ UNCHANGED <<setup, req, sent, abandoned, committed, outrun, taken, foreign>>
      /\ outrun \in SUBSET (Bucket \ buckets)
      /\ cleaning' \in SUBSET BlockId /\ scanned' \in SUBSET BlockId
  BY DEF Others, handlerVars, idVars, historyVars, EngineInv, EngineTypeOK
<1>2. ASSUME NEW u \in Upload, NEW k \in Key, CreateUpload(u, k, "multipart")
      PROVE  EngineStep
  <2>1. UNCHANGED <<buckets, cors, objects, parts, ref, state, queue, message>>
    BY <1>2 DEF CreateUpload
  <2>2. Calm
    BY <1>1, <1>2, <2>1, CreateUploadInv, PlainCalm DEF EngineInv
  <2>3. \A v \in Upload : uploads'[v].kind = "put" => uploads[v].kind = "put"
    BY <1>2 DEF CreateUpload, EngineInv, StoreInv, TypeOK
  <2>4. \A j \in Key : Exists(j)' => Exists(j)
    BY <2>1 DEF Exists
  <2> QED
    BY <1>1, <2>1, <2>2, <2>3, <2>4, OtherStep
<1>3. ASSUME NEW u \in Upload, AbortUpload(u) PROVE EngineStep
  <2>1. DeleteUploadRow(u) /\ UNCHANGED <<buckets, cors, objects>>
    BY <1>3 DEF AbortUpload
  <2>2. Calm
    BY <1>1, <1>3, AbortCalm
  <2>3. \A v \in Upload : uploads'[v].kind = "put" => uploads[v].kind = "put"
    BY <2>1, DeletedUpload
  <2>4. \A j \in Key : Exists(j)' => Exists(j)
    BY <2>1 DEF Exists
  <2> QED
    BY <1>1, <2>1, <2>2, <2>3, <2>4, OtherStep
<1>4. ASSUME NEW u \in Upload, UploadExpires(u) PROVE EngineStep
  <2>1. UNCHANGED <<buckets, cors, uploads, objects, parts, ref, state, queue, message>>
    BY <1>4 DEF UploadExpires
  <2>2. Calm
    BY <1>1, <1>4, <2>1, UploadExpiresInv, PlainCalm DEF EngineInv
  <2>3. \A j \in Key : Exists(j)' => Exists(j)
    BY <2>1 DEF Exists
  <2> QED
    BY <1>1, <2>1, <2>2, <2>3, OtherStep
<1>5. ASSUME NEW k \in Key, NEW cond \in Condition, DeleteObject(k, cond) PROVE EngineStep
  <2>1. UNCHANGED <<buckets, cors, uploads>>
    BY <1>5 DEF DeleteObject
  <2>2. Calm
    BY <1>1, <1>5, DeleteObjectCalm
  <2>3. \A j \in Key : Exists(j)' => Exists(j)
    BY <1>5 DEF DeleteObject, Exists, NoObject, EngineInv, StoreInv, TypeOK
  <2> QED
    BY <1>1, <2>1, <2>2, <2>3, OtherStep
<1> QED
  BY <1>2, <1>3, <1>4, <1>5 DEF Others, Expire

\* The deletion of a row whose message is deleted.
LEMMA CollectInv == ASSUME EngineInv, NEW b \in BlockId, Collect(b) PROVE EngineStep
<1>1. /\ GcSuccess(b) /\ foreign' = foreign \ {b}
      /\ UNCHANGED <<setup, req, sent, cleaning, scanned, abandoned, committed, outrun, taken>>
      /\ UNCHANGED <<buckets, cors, uploads, objects>>
  BY DEF Collect, GcSuccess, idVars, bucketVars, uploadVars
<1>2. Calm
  BY <1>1, GcSuccessCalm
<1>3. /\ outrun' \in SUBSET (Bucket \ buckets')
      /\ cleaning' \in SUBSET BlockId /\ scanned' \in SUBSET BlockId
  BY <1>1 DEF EngineInv, EngineTypeOK
<1>4. \A k \in Key : Exists(k)' => Exists(k)
  BY <1>1 DEF Exists
<1> QED
  BY <1>1, <1>2, <1>3, <1>4, OtherStep

\* Time passes, and a collector reads which rows are over an hour old.
LEMMA ScanStaleInv ==
    ASSUME EngineInv, ScanStale \/ \E b \in BlockId : Age(b) PROVE EngineStep
<1> USE DEF storeVars, bucketVars, uploadVars, blockVars, historyVars, handlerVars, idVars
<1>1. /\ UNCHANGED <<setup, req, sent, cleaning, abandoned, committed, outrun, taken, foreign>>
      /\ UNCHANGED <<buckets, cors, uploads, objects, parts, ref, state, queue, message>>
  BY DEF ScanStale, Age, BlockAges
<1>2. StoreInv' /\ KeepsRows
  BY StutterInv, QueueUpdateInv DEF EngineInv, ScanStale, Age
<1>3. Calm
  BY <1>1, <1>2, PlainCalm
<1>4. scanned' \in SUBSET BlockId
  BY DEF ScanStale, Age, EngineInv, EngineTypeOK
<1>5. outrun' \in SUBSET (Bucket \ buckets') /\ cleaning' \in SUBSET BlockId
  BY <1>1 DEF EngineInv, EngineTypeOK
<1>6. \A k \in Key : Exists(k)' => Exists(k)
  BY <1>1 DEF Exists
<1> QED
  BY <1>1, <1>3, <1>4, <1>5, <1>6, OtherStep

----------------------------------------------------------------------------
(* The actions that are not calm.                                          *)

\* The upload of a handler stays its own until the handler is done with it.
LEMMA PutOwnerStep ==
    ASSUME EngineInv, NEW r \in Req, NEW l, req' = [req EXCEPT ![r] = l],
           UNCHANGED <<uploads, abandoned>>,
           req[r].op = "put" => l.op = "put" /\ l.u = req[r].u
    PROVE  PutUploadsOwned'
<1>1. \A q \in Req : req'[q] = IF q = r THEN l ELSE req[q]
  BY DEF EngineInv, EngineTypeOK
<1> QED
  BY <1>1 DEF EngineInv, PutUploadsOwned

\* The new row is reserved for the handler.
LEMMA StageBlockInv ==
    ASSUME EngineInv, NEW r \in Req, NEW m \in Msg, StageBlock(r, m) PROVE EngineStep
<1>1. PICK b \in BlockId :
         /\ AddStagedBlock(b, m)
         /\ req' = [req EXCEPT ![r].refs = @ \cup {[id |-> b, msg |-> m]}]
  BY DEF StageBlock
<1>2. /\ req[r] \in Locals /\ LocalOK(req[r]) /\ req[r].pc = "upload" /\ m \notin sent
      /\ sent' = sent \cup {m}
      /\ UNCHANGED <<setup, cleaning, scanned, abandoned, committed, outrun, taken, foreign>>
  BY DEF StageBlock, idVars, historyVars, EngineInv, EngineTypeOK, LocalsOK
<1>3. /\ UNCHANGED <<buckets, cors, objects, uploads, expired, parts, queue>>
      /\ \A c \in BlockId : state'[c] = IF c = b THEN "staged" ELSE state[c]
      /\ \A c \in BlockId : ref'[c] = IF c = b THEN 1 ELSE ref[c]
      /\ \A c \in BlockId : message'[c] = IF c = b THEN m ELSE message[c]
  BY <1>1 DEF AddStagedBlock, bucketVars, uploadVars, EngineInv, StoreInv, TypeOK
<1>4. StoreInv' /\ b \notin Rows
  BY <1>1, AddStagedBlockInv DEF EngineInv
<1>5. /\ \A c \in BlockId : Holders(c)' = Holders(c) /\ (Held(c)' <=> Held(c))
                             /\ (HeldByObject(c)' <=> HeldByObject(c))
                             /\ (HeldByPart(c)' <=> HeldByPart(c))
      /\ ~Held(b) /\ queue[b] = "none" /\ ~Reserved(b)
  <2>1. ~Held(b) /\ queue[b] = "none"
    BY <1>4 DEF EngineInv, StoreInv, References, Rows
  <2>2. ~Reserved(b)
    BY <1>4 DEF Reserved, Unlisted, Rows, EngineInv, EngineTypeOK
  <2> QED
    BY <1>3, <2>1, <2>2 DEF Holders, Held, HeldByObject, HeldByPart
<1>6. \A c \in BlockId : Reserved(c)' <=> Reserved(c) \/ c = b
  BY <1>2, <1>3, <1>5 DEF Reserved, Unlisted
<1>7. HoldersFinite' /\ CountsStayExact'
  <2>1. Cardinality(Holders(b)') = 0
    BY <1>5, HeldHasHolder, FS_EmptySet
  <2>2. ASSUME NEW c \in Rows' PROVE CountAt(c)' /\ IsFiniteSet(Holders(c)')
    <3>1. c \in BlockId /\ IsFiniteSet(Holders(c))
      BY DEF Rows, EngineInv, HoldersFinite
    <3>2. CASE c = b
      BY <1>3, <1>5, <1>6, <2>1, <3>1, <3>2 DEF CountAt, One
    <3>3. CASE c # b
      <4>1. c \in Rows
        BY <1>3, <3>1, <3>3 DEF Rows
      <4>2. CountAt(c)
        BY <4>1 DEF EngineInv, CountsStayExact, Owed, CountAt, Reserved, One
      <4>3. One(Reserved(c)') = One(Reserved(c))
        BY <1>6, <3>1, <3>3 DEF One
      <4>4. ref'[c] = ref[c] /\ Holders(c)' = Holders(c)
        BY <1>3, <1>5, <3>1, <3>3
      <4>5. CountAt(c)'
        BY <1>2, <4>2, <4>3, <4>4 DEF CountAt, One
      <4> QED
        BY <3>1, <4>4, <4>5
    <3> QED
      BY <3>2, <3>3
  <2> QED
    BY <1>4, <2>2, CountsFromRows
<1>8. ListedCommitted'
  BY <1>2, <1>3, <1>4, <1>5 DEF EngineInv, EngineTypeOK, ListedCommitted, Held, Rows
<1>a. ForeignListed'
  BY <1>2, <1>3, <1>5 DEF EngineInv, EngineTypeOK, ForeignListed, Rows
<1>9. PICK l : l = [req[r] EXCEPT !.refs = @ \cup {[id |-> b, msg |-> m]}]
  OBVIOUS
<1>10. req' = [req EXCEPT ![r] = l]
  BY <1>1, <1>9
<1>11. \A q \in Req : req'[q] = IF q = r THEN l ELSE req[q]
  BY <1>10 DEF EngineInv, EngineTypeOK
<1>12. /\ l \in Locals' /\ LocalOK(l)'
       /\ l.pc = "upload" /\ l.op = req[r].op /\ l.u = req[r].u
       /\ l.refs = PendingRefs(r) \cup {[id |-> b, msg |-> m]}
  <2>1. l \in Locals' /\ l.pc = "upload"
    <3>1. PartSnap \subseteq PartSnap'
      BY <1>2 DEF PartSnap
    <3>2. req[r].refs \cup {[id |-> b, msg |-> m]} \in SUBSET [id : BlockId, msg : sent']
      BY <1>2 DEF Locals
    <3> QED
      BY <1>2, <1>3, <1>9, <3>1, <3>2 DEF Locals
  <2>2. LocalOK(l)'
    BY <1>2, <1>3, <1>9 DEF Locals, LocalOK
  <2> QED
    BY <1>2, <1>9, <2>1, <2>2 DEF Locals, PendingRefs
<1>13. \A q \in Req : PendingBody(q)' = IF q = r THEN PendingBody(r) \cup {m} ELSE PendingBody(q)
  <2>1. \A q \in Req : PendingRefs(q)' = IF q = r THEN PendingRefs(r) \cup {[id |-> b, msg |-> m]}
                                                 ELSE PendingRefs(q)
    BY <1>11, <1>12 DEF PendingRefs
  <2>2. Body(PendingRefs(r) \cup {[id |-> b, msg |-> m]}) = Body(PendingRefs(r)) \cup {m}
    <3>1. PICK x : x = [id |-> b, msg |-> m]
      OBVIOUS
    <3>2. x.msg = m
      BY <3>1
    <3>3. Body(PendingRefs(r) \cup {x}) = Body(PendingRefs(r)) \cup {x.msg}
      BY DEF Body
    <3> QED
      BY <3>1, <3>2, <3>3
  <2>3. \A q \in Req : PendingBody(q)' = Body(PendingRefs(q)')
    BY DEF PendingBody, Body
  <2> QED
    BY <2>1, <2>2, <2>3 DEF PendingBody
<1>14. \A q \in Req : PendingBody(q) \subseteq sent /\ m \notin PendingBody(q)
  BY <1>2 DEF EngineInv, EngineTypeOK, Locals, PendingRefs, PendingBody, Body
<1>15. BlocksOwned'
  <2> SUFFICES ASSUME NEW q \in Req, NEW c \in Rows', message'[c] \in PendingBody(q)'
               PROVE  Reserved(c)' \/ queue'[c] # "none" \/ c \in foreign'
    BY DEF BlocksOwned
  <2>1. c \in BlockId
    BY DEF Rows
  <2>2. CASE c = b
    BY <1>6, <2>1, <2>2
  <2>3. CASE c # b
    <3>1. c \in Rows /\ message'[c] = message[c] /\ message[c] # m
      BY <1>2, <1>3, <2>1, <2>3 DEF Rows, EngineInv, RowsSent
    <3>2. message[c] \in PendingBody(q)
      BY <1>13, <3>1
    <3>3. Reserved(c) \/ queue[c] # "none" \/ c \in foreign
      BY <3>1, <3>2 DEF EngineInv, BlocksOwned
    <3> QED
      BY <1>2, <1>3, <1>6, <2>1, <3>3
  <2> QED
    BY <2>2, <2>3
<1>17. DataOwned'
  <2>2. /\ \A q \in Req : PendingBody(q)' \cap committed' = {}
        /\ \A p, q \in Req : p # q => PendingBody(p)' \cap PendingBody(q)' = {}
    BY <1>2, <1>13, <1>14 DEF EngineInv, EngineTypeOK, DataOwned
  <2>3. \A u \in Upload, p \in PartNo : parts[u][p].etag # NoEtag =>
          /\ parts[u][p].blocks \cap foreign = {} => parts[u][p].etag = Stored(parts[u][p].blocks)
          /\ parts[u][p].etag \subseteq sent \ committed
          /\ \A q \in Req : PendingBody(q) \cap parts[u][p].etag = {}
    BY DEF EngineInv, DataOwned
  <2>4. \A u \in Upload, p \in PartNo : b \notin parts[u][p].blocks /\ parts[u][p].blocks \subseteq BlockId
    BY <1>5 DEF Held, HeldByPart, EngineInv, StoreInv, TypeOK, PartRow
  <2>5. \A u \in Upload, p \in PartNo : Stored(parts[u][p].blocks)' = Stored(parts[u][p].blocks)
    <3>1. \A u \in Upload, p \in PartNo : \A c \in parts[u][p].blocks : message'[c] = message[c]
      BY <1>3, <2>4
    <3> QED
      BY <1>3, <3>1 DEF Stored
  <2>6. \A u \in Upload, p \in PartNo : parts[u][p].etag # NoEtag =>
          \A q \in Req : PendingBody(q)' \cap parts[u][p].etag = {}
    BY <1>2, <1>13, <2>3
  <2>7. \A u, v \in Upload : \A p, q \in PartNo :
           parts[u][p].etag # NoEtag /\ parts[v][q].etag # NoEtag /\ <<v, q>> # <<u, p>>
              => parts[u][p].etag \cap parts[v][q].etag = {}
    BY DEF EngineInv, DataOwned
  <2>8. \A u \in Upload, p \in PartNo : parts'[u][p].etag # NoEtag =>
          /\ parts'[u][p].blocks \cap foreign' = {} => parts'[u][p].etag = Stored(parts[u][p].blocks)'
          /\ parts'[u][p].etag \subseteq sent' \ committed'
    BY <1>2, <1>3, <2>3, <2>5
  <2> HIDE DEF Stored
  <2> QED
    BY <1>3, <2>2, <2>6, <2>7, <2>8 DEF DataOwned
<1>18. req' \in [Req -> Locals'] /\ LocalsOK'
  BY <1>2, <1>3, <1>10, <1>12, LocalsStep DEF EngineInv
<1>19. EngineTypeOK'
  <2>1. taken \subseteq Rows' /\ foreign \subseteq Rows'
    BY <1>3, <1>4 DEF EngineInv, EngineTypeOK, Rows
  <2> QED
    BY <1>2, <1>3, <1>4, <1>18, <2>1 DEF EngineInv, EngineTypeOK, StoreInv
<1>20. NothingOutlivesBucket' /\ PutUploadsOwned'
  <2>1. NothingOutlivesBucket'
    BY <1>2, <1>3 DEF EngineInv, NothingOutlivesBucket, Exists
  <2> QED
    BY <1>2, <1>3, <1>10, <1>12, <2>1, PutOwnerStep
<1> QED
  <2>1. RowsSent'
    BY <1>2, <1>3 DEF EngineInv, RowsSent, Rows
  <2>2. Releases
    BY <1>2, <1>3, <1>4, <1>5 DEF Releases
  <2> QED
    BY <1>4, <1>7, <1>8, <1>a, <1>15, <1>17, <1>18, <1>19, <1>20, <2>1, <2>2 DEF EngineStep, EngineInv

\* The rows replace_part lists for a body: those the upload staged are reserved
\* for it, any other is foreign from now on.
LEMMA AttachedRows ==
    ASSUME EngineInv, NEW r \in Req, Attach(r)
    PROVE  LET refs == req[r].refs
               B == Blocks(refs)
           IN  /\ B \in SUBSET Rows /\ refs = PendingRefs(r)
               /\ foreign' = foreign \cup ForeignRows(refs) /\ ForeignRows(refs) \subseteq B
               /\ \A b \in B \ foreign' : message[b] \in Body(refs) /\ Reserved(b)
               /\ B \cap foreign' = {} => Body(refs) = Stored(B)
<1> DEFINE refs == req[r].refs
           B == Blocks(refs)
<1>1. /\ refs = PendingRefs(r) /\ foreign' = foreign \cup ForeignRows(refs)
      /\ NotQueued(B) /\ B \subseteq Rows
  BY DEF Attach, PendingRefs, ReplacePart, ReplacePartOk, RowsExist
<1>2. ForeignRows(refs) \subseteq B
  BY DEF ForeignRows, Blocks
<1>3. \A x \in refs : x.id \notin ForeignRows(refs) => message[x.id] = x.msg
  BY DEF ForeignRows
<1>4. ASSUME NEW b \in B, b \notin foreign' PROVE message[b] \in Body(refs) /\ Reserved(b)
  <2>1. PICK x \in refs : x.id = b
    BY DEF Blocks
  <2>2. message[b] \in Body(refs)
    BY <1>1, <1>3, <1>4, <2>1 DEF Body
  <2>3. message[b] \in PendingBody(r)
    BY <1>1, <2>2 DEF PendingBody
  <2>4. queue[b] = "none" /\ b \in Rows
    BY <1>1 DEF NotQueued
  <2> QED
    BY <1>1, <1>4, <2>2, <2>3, <2>4 DEF EngineInv, BlocksOwned
<1>5. ASSUME B \cap foreign' = {} PROVE Body(refs) = Stored(B)
  <2>1. \A x \in refs : message[x.id] = x.msg
    BY <1>1, <1>3, <1>5 DEF Blocks
  <2> QED
    BY <2>1 DEF Body, Blocks, Stored
<1> QED
  BY <1>1, <1>2, <1>4, <1>5

\* replace_part uses up the reference each staged block has been created with.
\* A row listed by a stale id gets one holder more and no reference.
LEMMA AttachCounts ==
    ASSUME EngineInv, NEW r \in Req, Attach(r)
    PROVE  /\ StoreInv' /\ HoldersFinite' /\ CountsStayExact'
           /\ \A b \in BlockId \ Blocks(req[r].refs) : Reserved(b) <=> Reserved(b)'
<1> DEFINE u == req[r].u
           p == req[r].part
           body == Body(req[r].refs)
           B == Blocks(req[r].refs)
           old == parts[u][p].blocks
<1>1. /\ req[r].pc = "attach" /\ u \in Upload /\ p \in PartNo
      /\ B \in SUBSET BlockId /\ body \in SUBSET sent
      /\ ReplacePart(u, p, body, B) /\ taken' = taken \ B
  BY DEF Attach, Blocks, Body, EngineInv, EngineTypeOK, LocalsOK, LocalOK, Locals
<1>a. /\ B \in SUBSET Rows
      /\ \A b \in BlockId \ B : b \in foreign' <=> b \in foreign
      /\ \A b \in B \ foreign' : Reserved(b)
  BY AttachedRows
<1>b. foreign \subseteq foreign'
  BY DEF Attach
<1>2. body \in Etag
  BY <1>1, EtagIsDigest DEF EngineInv, EngineTypeOK
<1>3. StoreInv' /\ KeepsRows
  BY <1>1, <1>2, ReplacePartInv DEF EngineInv
<1>4. UNCHANGED <<objects, state>> /\ Rows' = Rows
  BY <1>1 DEF ReplacePart, Rows
<1>5. \A v \in Upload, q \in PartNo :
         parts'[v][q] = IF v = u /\ q = p THEN [etag |-> body, blocks |-> B] ELSE parts[v][q]
  BY <1>1 DEF ReplacePart, EngineInv, StoreInv, TypeOK
<1>6. ASSUME NEW b \in BlockId, Held(b)' PROVE Held(b) \/ b \in B
  BY <1>4, <1>5, <1>6 DEF Held, HeldByObject, HeldByPart
<1>7. \A b \in B : Held(b)'
  BY <1>1, <1>5 DEF Held, HeldByPart
<1>8. \A b \in BlockId : Reserved(b) => b \notin old
  BY <1>1 DEF EngineInv, ListedCommitted, Reserved, Unlisted, Held, HeldByPart
<1>9. \A b \in Rows : /\ IsFiniteSet(Holders(b)) /\ IsFiniteSet(Holders(b)')
                      /\ \/ ref'[b] + Cardinality(Holders(b)) + One(b \in B \ old)
                              = ref[b] + Cardinality(Holders(b)')
                         \/ StaysLow(b)
  <2>1. \A b \in Rows : IsFiniteSet(Holders(b))
    BY DEF Rows, EngineInv, HoldersFinite
  <2> QED
    BY <1>1, <2>1, ReplacePartCount DEF EngineInv
<1> HIDE DEF u, p, body, B, old
<1>10. \A b \in B : ~Reserved(b)'
  BY <1>1, <1>7 DEF Reserved, Unlisted
<1>11. ASSUME NEW b \in Rows, b \notin B
       PROVE  CountAt(b)' /\ IsFiniteSet(Holders(b)') /\ (Reserved(b) <=> Reserved(b)')
  <2>1. KeepsExcess(b)
    <3>1. b \in BlockId /\ ref[b] \in Nat /\ ref'[b] \in Nat
      BY <1>3 DEF Rows, EngineInv, StoreInv, TypeOK
    <3>2. One(b \in B \ old) = 0
      BY <1>11 DEF One
    <3>3. Cardinality(Holders(b)) \in Nat /\ Cardinality(Holders(b)') \in Nat
      BY <1>9, FS_CardinalityType
    <3>4. \/ ref'[b] + Cardinality(Holders(b)) = ref[b] + Cardinality(Holders(b)')
          \/ StaysLow(b)
      BY <1>9, <3>1, <3>2, <3>3
    <3> QED
      BY <1>9, <3>4 DEF KeepsExcess
  <2>2. b \in BlockId /\ b \in Rows' /\ (b \in foreign' <=> b \in foreign)
    BY <1>a, <1>4, <1>11 DEF Rows
  <2>3. (b \in taken <=> b \in taken') /\ (b \in taken' => Reserved(b))
    BY <1>1, <1>11 DEF Reserved
  <2>4. Unlisted(b) => state'[b] = "staged" /\ ~Held(b)'
    BY <1>4, <1>6, <1>11, <2>2 DEF Unlisted
  <2> QED
    BY <1>3, <2>1, <2>2, <2>3, <2>4, CountKept DEF EngineInv
<1>12. ASSUME NEW b \in Rows, b \in B
       PROVE  CountAt(b)' /\ IsFiniteSet(Holders(b)')
  <2> DEFINE c == Cardinality(Holders(b))
             d == Cardinality(Holders(b)')
             e == One(Reserved(b))
             n == One(b \in B \ old)
  <2>1. b \in BlockId /\ ref[b] \in Nat /\ ref'[b] \in Nat /\ c \in Nat /\ d \in Nat
    BY <1>3, <1>9, FS_CardinalityType DEF Rows, EngineInv, StoreInv, TypeOK
  <2>2. /\ ref[b] <= c + e
        /\ b \notin foreign => ref[b] = c + e
    BY DEF EngineInv, CountsStayExact, Owed, Reserved, One
  <2>3. /\ e \in {0, 1} /\ n \in {0, 1} /\ e <= n
        /\ b \notin foreign' => e = 1
    BY <1>a, <1>8, <1>12, <2>1 DEF One
  <2>4. \/ ref'[b] + c + n = ref[b] + d
        \/ ref[b] < c /\ ref'[b] <= d
    BY <1>9 DEF StaysLow
  <2> HIDE DEF c, d, e, n
  <2>5. ref'[b] <= d
    BY <2>1, <2>2, <2>3, <2>4
  <2>6. b \notin foreign' => ref'[b] = d
    BY <1>b, <2>1, <2>2, <2>3, <2>4
  <2>7. One(Reserved(b)') = 0
    BY <1>10, <1>12 DEF One
  <2>8. CountAt(b)'
    <3>1. ref'[b] <= d + 0 /\ (b \notin foreign' => ref'[b] = d + 0)
      BY <2>1, <2>5, <2>6
    <3>2. /\ ref'[b] <= Cardinality(Holders(b)') + One(Reserved(b)')
          /\ b \notin foreign' => ref'[b] = Cardinality(Holders(b)') + One(Reserved(b)')
      BY <2>7, <3>1 DEF d
    <3> QED
      BY <3>2 DEF CountAt, One
  <2> QED
    BY <1>9, <2>8
<1>13. HoldersFinite' /\ CountsStayExact'
  BY <1>3, <1>4, <1>11, <1>12, CountsFromRows
<1>14. \A b \in BlockId \ B : Reserved(b) <=> Reserved(b)'
  <2> SUFFICES ASSUME NEW b \in BlockId, b \notin B PROVE Reserved(b) <=> Reserved(b)'
    OBVIOUS
  <2>1. CASE b \in Rows
    BY <1>11, <2>1
  <2>2. CASE b \notin Rows
    BY <1>1, <1>4, <2>2 DEF Reserved, Unlisted, Rows, EngineInv, EngineTypeOK
  <2> QED
    BY <2>1, <2>2
<1> QED
  BY <1>3, <1>13, <1>14 DEF B

\* The blocks a new part takes the place of are queued.
LEMMA AttachReleases ==
    ASSUME EngineInv, NEW r \in Req, Attach(r), NEW b \in BlockId, Held(b)
    PROVE  Held(b)' \/ queue'[b] # "none" \/ b \in taken
<1>1. /\ StoreInv' /\ CountsStayExact'
      /\ b \notin Blocks(req[r].refs) => (Reserved(b) <=> Reserved(b)')
  BY AttachCounts
<1>2. CASE b \in Blocks(req[r].refs)
  <2>1. req[r].u \in Upload /\ req[r].part \in PartNo
    BY DEF Attach, EngineInv, LocalsOK, LocalOK
  <2>2. parts'[req[r].u][req[r].part].blocks = Blocks(req[r].refs)
    BY <2>1 DEF Attach, ReplacePart, EngineInv, StoreInv, TypeOK
  <2> QED
    BY <1>2, <2>1, <2>2 DEF Held, HeldByPart
<1>3. CASE b \notin Blocks(req[r].refs)
  <2>1. state'[b] # "absent"
    BY ReservedRows DEF Attach, ReplacePart
  <2> QED
    BY <1>1, <1>3, <2>1, ReleaseAt
<1> QED
  BY <1>2, <1>3

\* A stored body becomes a part of its upload, or replaces it.
LEMMA AttachInv ==
    ASSUME EngineInv, NEW r \in Req, Attach(r) PROVE EngineStep
<1> DEFINE u == req[r].u
           p == req[r].part
           body == Body(req[r].refs)
           B == Blocks(req[r].refs)
<1>1. /\ req[r] \in Locals /\ LocalOK(req[r])
      /\ req[r].pc = "attach" /\ u \in Upload /\ p \in PartNo /\ req[r].op \in {"put", "part"}
      /\ B \in SUBSET BlockId /\ body \in SUBSET sent /\ body = PendingBody(r)
      /\ ReplacePart(u, p, body, B) /\ taken' = taken \ B
      /\ UNCHANGED <<setup, sent, cleaning, scanned, abandoned, committed, outrun>>
  BY DEF Attach, PendingRefs, PendingBody, Blocks, Body, idVars,
         EngineInv, EngineTypeOK, LocalsOK, LocalOK, Locals
<1>a. /\ B \in SUBSET Rows /\ foreign \subseteq foreign'
      /\ \A b \in foreign' : b \in foreign \/ b \in B
      /\ \A b \in B \ foreign' : message[b] \in body
      /\ B \cap foreign' = {} => body = Stored(B)
  BY AttachedRows
<1>2. /\ UNCHANGED <<buckets, cors, objects, uploads, expired, state, message>>
      /\ \A v \in Upload, q \in PartNo :
           parts'[v][q] = IF v = u /\ q = p THEN [etag |-> body, blocks |-> B] ELSE parts[v][q]
  BY <1>1 DEF ReplacePart, bucketVars, EngineInv, StoreInv, TypeOK
<1>b. \A b \in BlockId : queue[b] # "none" => queue'[b] # "none"
  BY <1>1 DEF ReplacePart, EnqueueZero
<1>c. NotQueued(B) /\ Rows' = Rows
  BY <1>1, <1>2 DEF ReplacePart, ReplacePartOk, Rows
<1>3. PICK l : l = IF req[r].op = "put" THEN [req[r] EXCEPT !.pc = "commit"] ELSE Ready
  OBVIOUS
<1>4. req' = [req EXCEPT ![r] = l]
  BY <1>3 DEF Attach, Goto, Finish
<1>5. /\ l \in Locals' /\ LocalOK(l)' /\ l.pc \notin {"upload", "attach"}
      /\ req[r].op = "put" => l.op = "put" /\ l.u = req[r].u
  <2>1. Ready \in Locals' /\ LocalOK(Ready)' /\ Ready.pc \notin {"upload", "attach"}
    <3>1. Ready \in Locals'
      BY <1>1, ReadyLocals DEF Locals, PartSnap
    <3> QED
      BY <3>1 DEF LocalOK, Ready
  <2>2. CASE req[r].op = "put"
    BY <1>1, <1>2, <1>3, <2>2 DEF Locals, PartSnap, LocalOK
  <2> QED
    BY <1>3, <2>1, <2>2
<1>6. \A q \in Req : req'[q] = IF q = r THEN l ELSE req[q]
  BY <1>4 DEF EngineInv, EngineTypeOK
<1>7. \A q \in Req : PendingBody(q)' = IF q = r THEN {} ELSE PendingBody(q)
  BY <1>5, <1>6 DEF PendingRefs, PendingBody, Body
<1>8. /\ StoreInv' /\ HoldersFinite' /\ CountsStayExact'
      /\ \A b \in BlockId \ B : Reserved(b) <=> Reserved(b)'
  BY AttachCounts
<1>d. \A b \in B : Held(b)'
  BY <1>1, <1>2 DEF Held, HeldByPart
<1>9. BlocksOwned'
  <2> SUFFICES ASSUME NEW q \in Req, NEW c \in Rows', message'[c] \in PendingBody(q)'
               PROVE  Reserved(c)' \/ queue'[c] # "none" \/ c \in foreign'
    BY DEF BlocksOwned
  <2>1. q # r /\ c \in BlockId /\ c \in Rows /\ message[c] \in PendingBody(q)
    BY <1>2, <1>7, <1>c DEF Rows
  <2>2. Reserved(c) \/ queue[c] # "none" \/ c \in foreign
    BY <2>1 DEF EngineInv, BlocksOwned
  <2> HIDE DEF B, body
  <2>3. CASE c \in B
    <3>1. body \cap PendingBody(q) = {}
      BY <1>1, <2>1 DEF EngineInv, DataOwned
    <3> QED
      BY <1>a, <2>1, <2>3, <3>1
  <2>4. CASE c \notin B
    BY <1>8, <1>a, <1>b, <2>1, <2>2, <2>4
  <2> QED
    BY <2>3, <2>4
<1>e. ForeignListed'
  <2> SUFFICES ASSUME NEW b \in foreign' PROVE b \notin taken' /\ (Held(b)' \/ queue'[b] # "none")
    BY DEF ForeignListed
  <2>1. CASE b \in B
    BY <1>1, <1>d, <2>1
  <2>2. CASE b \notin B
    <3>1. b \in foreign /\ b \in BlockId
      BY <1>a, <2>2 DEF EngineInv, EngineTypeOK, Rows
    <3>2. b \notin taken /\ (Held(b) \/ queue[b] # "none")
      BY <3>1 DEF EngineInv, ForeignListed
    <3> QED
      BY <1>1, <1>b, <3>1, <3>2, AttachReleases
  <2> QED
    BY <2>1, <2>2
<1>10. ListedCommitted'
  <2>1. \A b \in BlockId : HeldByObject(b)' => HeldByObject(b)
    BY <1>2 DEF HeldByObject
  <2>2. \A b \in taken' : ~HeldByPart(b)'
    BY <1>1, <1>2 DEF EngineInv, ListedCommitted, HeldByPart
  <2> QED
    BY <1>1, <1>2, <2>1, <2>2 DEF EngineInv, ListedCommitted
<1>11. /\ body \cap committed = {}
       /\ \A q \in Req : q # r => PendingBody(q) \cap body = {}
       /\ \A v \in Upload, q \in PartNo : parts[v][q].etag # NoEtag =>
            /\ parts[v][q].blocks \cap foreign = {} => parts[v][q].etag = Stored(parts[v][q].blocks)
            /\ parts[v][q].etag \subseteq sent \ committed
            /\ parts[v][q].etag \cap body = {}
            /\ \A s \in Req : PendingBody(s) \cap parts[v][q].etag = {}
       /\ \A v, w \in Upload : \A q, s \in PartNo :
            parts[v][q].etag # NoEtag /\ parts[w][s].etag # NoEtag /\ <<w, s>> # <<v, q>>
               => parts[v][q].etag \cap parts[w][s].etag = {}
       /\ \A q \in Req : PendingBody(q) \cap committed = {}
       /\ \A s, q \in Req : s # q => PendingBody(s) \cap PendingBody(q) = {}
  BY <1>1 DEF EngineInv, DataOwned
<1>12. DataOwned'
  <2>2. /\ \A q \in Req : PendingBody(q)' \cap committed' = {}
        /\ \A s, q \in Req : s # q => PendingBody(s)' \cap PendingBody(q)' = {}
    BY <1>1, <1>7, <1>11
  <2>3. ASSUME NEW v \in Upload, NEW q \in PartNo, parts'[v][q].etag # NoEtag
        PROVE  /\ parts'[v][q].blocks \cap foreign' = {} =>
                    parts'[v][q].etag = Stored(parts[v][q].blocks)'
               /\ parts'[v][q].etag \subseteq sent' \ committed'
               /\ \A s \in Req : PendingBody(s)' \cap parts'[v][q].etag = {}
    <3>1. Stored(parts[v][q].blocks)' = Stored(parts'[v][q].blocks)
      BY <1>2 DEF Stored
    <3>2. CASE v = u /\ q = p
      <4>1. parts'[v][q] = [etag |-> body, blocks |-> B]
        BY <1>2, <3>2
      <4>2. parts'[v][q].etag = body /\ parts'[v][q].blocks = B
        BY <4>1
      <4> HIDE DEF Stored, body, B
      <4>3. \A s \in Req : PendingBody(s)' \cap body = {}
        BY <1>7, <1>11
      <4> QED
        BY <1>1, <1>a, <1>11, <3>1, <4>2, <4>3
    <3>3. CASE ~(v = u /\ q = p)
      <4>1. parts'[v][q] = parts[v][q]
        BY <1>2, <3>3
      <4> HIDE DEF Stored
      <4>2. \A s \in Req : PendingBody(s)' \cap parts[v][q].etag = {}
        BY <1>7, <1>11, <2>3, <4>1
      <4>3. parts[v][q].blocks \cap foreign' = {} => parts[v][q].blocks \cap foreign = {}
        BY <1>a
      <4> QED
        BY <1>1, <1>11, <2>3, <3>1, <4>1, <4>2, <4>3
    <3> QED
      BY <3>2, <3>3
  <2>4. ASSUME NEW v \in Upload, NEW w \in Upload, NEW q \in PartNo, NEW s \in PartNo,
               parts'[v][q].etag # NoEtag, parts'[w][s].etag # NoEtag, <<w, s>> # <<v, q>>
        PROVE  parts'[v][q].etag \cap parts'[w][s].etag = {}
    <3>1. CASE v = u /\ q = p
      <4>1. ~(w = u /\ s = p)
        BY <2>4, <3>1
      <4>2. parts'[v][q].etag = body /\ parts'[w][s] = parts[w][s]
        BY <1>2, <3>1, <4>1
      <4> QED
        BY <1>11, <2>4, <4>2
    <3>2. CASE w = u /\ s = p
      <4>1. ~(v = u /\ q = p)
        BY <2>4, <3>2
      <4>2. parts'[w][s].etag = body /\ parts'[v][q] = parts[v][q]
        BY <1>2, <3>2, <4>1
      <4> QED
        BY <1>11, <2>4, <4>2
    <3>3. CASE ~(v = u /\ q = p) /\ ~(w = u /\ s = p)
      <4>1. parts'[v][q] = parts[v][q] /\ parts'[w][s] = parts[w][s]
        BY <1>2, <3>3
      <4> QED
        BY <1>11, <2>4, <4>1
    <3> QED
      BY <3>1, <3>2, <3>3
  <2> HIDE DEF Stored
  <2> QED
    BY <2>2, <2>3, <2>4 DEF DataOwned
<1>13. req' \in [Req -> Locals'] /\ LocalsOK'
  BY <1>1, <1>2, <1>4, <1>5, LocalsStep DEF EngineInv
<1>14. EngineTypeOK'
  <2>1. taken' \in SUBSET Rows' /\ foreign' \in SUBSET Rows'
    BY <1>1, <1>a, <1>c DEF EngineInv, EngineTypeOK
  <2> QED
    BY <1>1, <1>2, <1>8, <1>13, <2>1 DEF EngineInv, EngineTypeOK, StoreInv
<1>15. NothingOutlivesBucket' /\ PutUploadsOwned'
  <2>1. NothingOutlivesBucket'
    BY <1>1, <1>2 DEF EngineInv, NothingOutlivesBucket, Exists
  <2> QED
    BY <1>1, <1>2, <1>4, <1>5, <2>1, PutOwnerStep
<1> QED
  <2>1. RowsSent'
    BY <1>1, <1>2 DEF EngineInv, RowsSent, Rows
  <2>2. Releases
    BY <1>2, <1>a, AttachReleases DEF Releases
  <2> QED
    BY <1>8, <1>9, <1>10, <1>12, <1>13, <1>14, <1>15, <1>e, <2>1, <2>2 DEF EngineStep, EngineInv

----------------------------------------------------------------------------
(* The collector and the cleanup queue staged rows that are in no part.    *)

\* The reference of the upload that staged the row is given up, whether the
\* upload still runs or not.
LEMMA VisitStaleInv ==
    ASSUME EngineInv, NEW b \in BlockId, VisitStale(b), UNCHANGED <<setup, req, sent, historyVars>>,
           cleaning' \in SUBSET BlockId, scanned' \in SUBSET BlockId
    PROVE  EngineStep
<1> USE DEF bucketVars, uploadVars, blockVars
<1>1. /\ UNCHANGED <<setup, req, sent, abandoned, committed, outrun, taken, foreign>>
      /\ outrun \in SUBSET (Bucket \ buckets)
  BY DEF historyVars, EngineInv, EngineTypeOK
<1>2. CASE ~QueueStaleOk(b)
  <2>1. UNCHANGED storeVars
    BY <1>2 DEF VisitStale
  <2>2. Calm
    BY <1>1, <2>1, StutterInv, PlainCalm DEF EngineInv, storeVars
  <2>3. \A k \in Key : Exists(k)' => Exists(k)
    BY <2>1 DEF Exists, storeVars
  <2> QED
    BY <1>1, <2>1, <2>2, <2>3, OtherStep DEF storeVars
<1>3. CASE QueueStaleOk(b)
  <2>1. /\ QueueStaleBlock(b) /\ state[b] = "staged" /\ ~Held(b)
        /\ UNCHANGED <<buckets, cors, objects, uploads, expired, parts, state, message>>
        /\ \A c \in BlockId : c # b => ref'[c] = ref[c] /\ queue'[c] = queue[c]
        /\ ref'[b] = 0 /\ queue'[b] # "none"
    BY <1>3 DEF VisitStale, QueueStaleOk, QueueStaleBlock, EngineInv, StoreInv, TypeOK
  <2>2. StoreInv' /\ Rows' = Rows
    BY <2>1, QueueStaleBlockInv DEF EngineInv, Rows
  <2>3. /\ \A c \in BlockId : Holders(c)' = Holders(c) /\ (Held(c)' <=> Held(c))
                               /\ (HeldByObject(c)' <=> HeldByObject(c))
                               /\ (HeldByPart(c)' <=> HeldByPart(c))
    BY <2>1 DEF Holders, Held, HeldByObject, HeldByPart
  <2>4. b \notin taken
    BY <2>1 DEF EngineInv, ListedCommitted
  <2>5. \A c \in BlockId : Reserved(c)' <=> Reserved(c) /\ c # b
    BY <1>1, <2>1, <2>3, <2>4 DEF Reserved, Unlisted
  <2>6. HoldersFinite' /\ CountsStayExact'
    <3>1. Cardinality(Holders(b)') = 0
      BY <2>1, <2>3, HeldHasHolder, FS_EmptySet
    <3>2. ASSUME NEW c \in Rows' PROVE CountAt(c)' /\ IsFiniteSet(Holders(c)')
      <4>1. c \in BlockId /\ c \in Rows /\ IsFiniteSet(Holders(c)')
        BY <2>2, <2>3 DEF Rows, EngineInv, HoldersFinite
      <4>2. CASE c = b
        BY <2>1, <2>5, <3>1, <4>1, <4>2 DEF CountAt, One
      <4>3. CASE c # b
        <5>1. CountAt(c)
          BY <4>1 DEF EngineInv, CountsStayExact, Owed, CountAt, Reserved, One
        <5>2. One(Reserved(c)') = One(Reserved(c))
          BY <2>5, <4>1, <4>3 DEF One
        <5>3. ref'[c] = ref[c] /\ Holders(c)' = Holders(c)
          BY <2>1, <2>3, <4>1, <4>3
        <5> QED
          BY <1>1, <4>1, <5>1, <5>2, <5>3 DEF CountAt, One
      <4> QED
        BY <4>2, <4>3
    <3> QED
      BY <2>2, <3>2, CountsFromRows
  <2>7. ListedCommitted'
    BY <1>1, <2>1, <2>3 DEF EngineInv, EngineTypeOK, ListedCommitted, Rows
  <2>8. \A r \in Req : PendingBody(r)' = PendingBody(r)
    BY <1>1 DEF PendingRefs, PendingBody
  <2>a. \A c \in BlockId : queue[c] # "none" => queue'[c] # "none"
    BY <2>1
  <2>b. BlocksOwned'
    <3> SUFFICES ASSUME NEW r \in Req, NEW c \in Rows', message'[c] \in PendingBody(r)'
                 PROVE  Reserved(c)' \/ queue'[c] # "none" \/ c \in foreign'
      BY DEF BlocksOwned
    <3>1. c \in BlockId /\ c \in Rows /\ message[c] \in PendingBody(r)
      BY <2>1, <2>2, <2>8 DEF Rows
    <3>2. Reserved(c) \/ queue[c] # "none" \/ c \in foreign
      BY <3>1 DEF EngineInv, BlocksOwned
    <3> QED
      BY <1>1, <2>1, <2>5, <2>a, <3>1, <3>2
  <2>c. ForeignListed'
    BY <1>1, <2>3, <2>a DEF EngineInv, EngineTypeOK, ForeignListed, Rows
  <2>9. DataOwned'
    BY <1>1, <2>1, <2>8 DEF EngineInv, DataOwned, Stored
  <2>10. req' \in [Req -> Locals'] /\ LocalsOK'
    BY <1>1, <2>1, LocalsUnchanged DEF EngineInv
  <2>11. EngineTypeOK'
    BY <1>1, <2>1, <2>2, <2>10 DEF EngineInv, EngineTypeOK, StoreInv
  <2>12. NothingOutlivesBucket' /\ PutUploadsOwned'
    BY <1>1, <2>1 DEF EngineInv, NothingOutlivesBucket, PutUploadsOwned, Exists
  <2> QED
    <3>1. RowsSent'
      BY <1>1, <2>1 DEF EngineInv, RowsSent, Rows
    <3>2. Releases
      BY <1>1, <2>1, <2>3 DEF Releases
    <3> QED
      BY <2>2, <2>6, <2>7, <2>9, <2>10, <2>11, <2>12, <2>b, <2>c, <3>1, <3>2
         DEF EngineStep, EngineInv
<1> QED
  BY <1>2, <1>3

\* run_gc visits a row its scan has read.
LEMMA QueueScannedInv ==
    ASSUME EngineInv, NEW b \in BlockId, QueueScanned(b) PROVE EngineStep
<1>1. cleaning' \in SUBSET BlockId /\ scanned' \in SUBSET BlockId
  BY DEF QueueScanned, EngineInv, EngineTypeOK
<1> QED
  BY <1>1, VisitStaleInv DEF QueueScanned

\* The cleanup of a failed upload visits an id it was handed.
LEMMA CleanBlockInv ==
    ASSUME EngineInv, NEW b \in BlockId, CleanBlock(b) PROVE EngineStep
<1>1. cleaning' \in SUBSET BlockId /\ scanned' \in SUBSET BlockId
  BY DEF CleanBlock, EngineInv, EngineTypeOK
<1> QED
  BY <1>1, VisitStaleInv DEF CleanBlock

----------------------------------------------------------------------------
(* The invariant.                                                          *)

\* Every step of the system keeps the invariant.
LEMMA EngineNextInv ==
    ASSUME EngineInv, [EngineNext]_engineVars PROVE EngineStep
<1>1. CASE Uploading
  BY <1>1, PutStartInv, PartStartInv, StageBlockInv, UploadDoneInv, UploadErrorInv, AttachInv,
     PutCommitInv, CommitErrorInv, PutAbortInv, PutAbortErrorInv DEF Uploading
<1>2. CASE Completing
  BY <1>2, CompleteReadPartsInv, CompleteReadBlocksInv, CompleteCommitInv DEF Completing
<1>3. CASE Copying
  BY <1>3, CopyReadRowInv, CopyReadBlocksInv, CopyCommitInv DEF Copying
<1>4. CASE Configuring
  BY <1>4, CorsCheckInv, CorsCommitInv DEF Configuring
<1>5. CASE \E r \in Req : Cancel(r)
  BY <1>5, CancelInv
<1>6. CASE Crash
  BY <1>6, CrashInv
<1>7. CASE Collecting
  BY <1>7, ScanStaleInv, QueueScannedInv, CleanBlockInv, CollectInv DEF Collecting
<1>8. CASE \E bkt \in Bucket : AddBucket(bkt) \/ DropBucket(bkt)
  BY <1>8, AddBucketInv, DropBucketInv
<1>9. CASE Others
  BY <1>9, OthersInv
<1>10. CASE UNCHANGED engineVars
  <2>1. UNCHANGED <<storeVars, req, handlerVars>>
    BY <1>10 DEF engineVars, handlerVars
  <2>2. Calm
    BY <2>1, StutterInv, PlainCalm
       DEF EngineInv, storeVars, bucketVars, uploadVars, blockVars, handlerVars, historyVars
  <2>3. \A k \in Key : Exists(k)' => Exists(k)
    BY <2>1 DEF Exists, storeVars
  <2>4. /\ outrun \in SUBSET (Bucket \ buckets)
        /\ cleaning' \in SUBSET BlockId /\ scanned' \in SUBSET BlockId
    BY <2>1 DEF EngineInv, EngineTypeOK, handlerVars, idVars
  <2> QED
    BY <2>1, <2>2, <2>3, <2>4, OtherStep
       DEF storeVars, bucketVars, uploadVars, handlerVars, historyVars
<1> QED
  BY <1>1, <1>2, <1>3, <1>4, <1>5, <1>6, <1>7, <1>8, <1>9, <1>10 DEF EngineNext

\* The invariant and, of every step, what becomes of the blocks it releases.
THEOREM EngineInvariant ==
    EngineSpec => []EngineInv /\ [][EngineInv /\ EngineStep]_engineVars
<1>1. EngineInit => EngineInv
  BY EngineInitInv
<1>2. EngineInv /\ [EngineNext]_engineVars => EngineStep
  BY EngineNextInv
<1>3. EngineStep => EngineInv'
  BY DEF EngineStep
<1> QED
  BY <1>1, <1>2, <1>3, PTL DEF EngineSpec

\* The count of every block is the number of rows that refer to it, but for a
\* block that a copy with a stale source record took from an unfinished upload,
\* and never more than that for a row that a part lists by a stale id
\* (add_reference, release_blocks and what every handler does around them).
THEOREM CountsAlwaysExact == EngineSpec => []CountsStayExact
<1>1. EngineInv => CountsStayExact
  BY DEF EngineInv
<1> QED
  BY <1>1, EngineInvariant, PTL

\* The upload of a put_object is never forgotten: while its row stands a handler
\* owns it, unless that handler was cancelled, crashed or could not abort it.
THEOREM PutUploadsAlwaysOwned == EngineSpec => []PutUploadsOwned
<1>1. EngineInv => PutUploadsOwned
  BY DEF EngineInv
<1> QED
  BY <1>1, EngineInvariant, PTL

\* delete_bucket leaves nothing behind: what is in no bucket is of a handler that
\* had checked the bucket before.
THEOREM BucketsDeletedWhole == EngineSpec => []NothingOutlivesBucket
<1>1. EngineInv => NothingOutlivesBucket
  BY DEF EngineInv
<1> QED
  BY <1>1, EngineInvariant, PTL

\* Database, chat and handlers keep their types.
THEOREM EngineTypes == EngineSpec => []EngineTypeOK
<1>1. EngineInv => EngineTypeOK
  BY DEF EngineInv
<1> QED
  BY <1>1, EngineInvariant, PTL

\* Whatever a step releases for the last time it also queues for deletion
\* (release_blocks of every handler's transaction).
THEOREM LastReleaseQueues == EngineSpec => ReleasedIsQueued
<1>1. EngineInv /\ EngineStep =>
        \A b \in BlockId : Held(b) /\ ~Held(b)' => queue'[b] # "none" \/ b \in taken
  BY DEF EngineStep, Releases
<1>2. [EngineInv /\ EngineStep]_engineVars =>
        [\A b \in BlockId : Held(b) /\ ~Held(b)' => queue'[b] # "none" \/ b \in taken]_engineVars
  BY <1>1
<1> QED
  BY <1>2, EngineInvariant, PTL DEF ReleasedIsQueued

----------------------------------------------------------------------------
(* What clients see.                                                       *)

NewObject(k, etag, blocks) == \E i \in ObjectId :
    objects' = [objects EXCEPT ![k] = [id |-> i, etag |-> etag, blocks |-> blocks]]

ObjectWritten == \E k \in Key, D \in SUBSET sent, S \in SUBSET BlockId :
    /\ D \cap committed = {} /\ D = Stored(S) /\ \A b \in S : Held(b)
    /\ committed' = committed \cup D
    /\ NewObject(k, D, S)

\* The other way to write an object: data that a stale id has mixed up.
ObjectMiswritten == \E k \in Key, D \in SUBSET sent, S \in SUBSET BlockId :
    /\ S \cap foreign # {} /\ \A b \in S : Held(b)
    /\ NewObject(k, D, S)
    /\ ForeignCommit

ObjectRemoved == \E k \in Key :
    /\ Exists(k) /\ objects' = [objects EXCEPT ![k] = NoObject]
    /\ UNCHANGED committed

ObjectCopied == \E src, dst \in Key :
    /\ Exists(src) /\ NewObject(dst, objects[src].etag, objects[src].blocks)
    /\ UNCHANGED committed

\* What the two commits of uploads write: one object, with the handler's data
\* unless a part lists a row by a stale id.
LEMMA CommitWrites ==
    ASSUME EngineInv, NEW r \in Req, req[r].op \in {"put", "complete"},
           req[r].pc = "commit", req'[r].pc = "ready", req[r].u \in Upload,
           NEW snap, DOMAIN snap \subseteq PartNo, NEW D, D = Composite(snap), NEW cond,
           CommitUpload(req[r].u, snap, D, cond), committed' = committed \cup D
    PROVE  ObjectWritten \/ ObjectMiswritten
<1> DEFINE u == req[r].u
           k == uploads[u].key
           S == SnapBlocks(snap)
<1>1. /\ CommitUploadOk(u, snap, cond) /\ PartsUnchanged(u, snap) /\ Active(u) /\ k \in Key
  BY DEF CommitUpload, CommitUploadOk, EngineInv, StoreInv, TypeOK
<1>2. D \subseteq sent \ committed /\ (S \cap foreign = {} => D = Stored(S))
  BY <1>1, CommitData
<1>3. S \in SUBSET BlockId /\ \A b \in S : Held(b)
  BY <1>1 DEF SnapBlocks, PartsUnchanged, Held, HeldByPart, EngineInv, StoreInv, TypeOK, PartRow
<1>4. PICK i \in ObjectId : objects' = [objects EXCEPT ![k] = [id |-> i, etag |-> D, blocks |-> S]]
  BY DEF CommitUpload
<1>5. NewObject(k, D, S)
  BY <1>4 DEF NewObject
<1>6. D \in SUBSET sent /\ D \cap committed = {}
  BY <1>2
<1>7. CASE D = Stored(S)
  BY <1>1, <1>3, <1>5, <1>6, <1>7 DEF ObjectWritten
<1>8. CASE D # Stored(S)
  <2>1. S \cap foreign # {}
    BY <1>2, <1>8
  <2>2. objects'[k].blocks = S /\ objects'[k].etag = D
    BY <1>1, <1>4 DEF EngineInv, StoreInv, TypeOK
  <2> HIDE DEF S
  <2>3. ForeignCommit
    BY <1>1, <1>8, <2>1, <2>2 DEF ForeignCommit
  <2> QED
    BY <1>1, <1>3, <1>5, <1>6, <2>1, <2>3 DEF ObjectMiswritten
<1> QED
  BY <1>7, <1>8

\* Every step leaves the objects alone but the commits, deletions and bucket drops.
LEMMA ObjectsChange ==
    ASSUME EngineInv, EngineNext
    PROVE  \/ UNCHANGED <<objects, committed>>
           \/ ObjectWritten \/ ObjectMiswritten
           \/ ObjectRemoved \/ ObjectCopied \/ StaleCopy
<1> USE DEF handlerVars, historyVars, storeVars, bucketVars, uploadVars, blockVars
<1>1. ASSUME NEW r \in Req, NEW cond, PutCommit(r, cond) PROVE ObjectWritten \/ ObjectMiswritten
  <2> DEFINE snap == PutSnap(req[r].refs)
             D == Body(req[r].refs)
  <2>1. /\ req[r].u \in Upload /\ D = Composite(snap) /\ DOMAIN snap \subseteq PartNo
        /\ req[r].op = "put" /\ req[r].pc = "commit"
        /\ CommitUpload(req[r].u, snap, D, cond)
        /\ committed' = committed \cup D
    BY <1>1 DEF PutCommit, EngineInv, LocalsOK, LocalOK, Composite, PutSnap
  <2>2. req'[r].pc = "ready"
    BY <1>1 DEF PutCommit, Finish, Ready, EngineInv, EngineTypeOK
  <2> HIDE DEF snap, D
  <2> QED
    BY <2>1, <2>2, CommitWrites
<1>2. ASSUME NEW r \in Req, NEW cond, CompleteCommit(r, cond)
      PROVE  ObjectWritten \/ ObjectMiswritten
  <2>1. /\ req[r].u \in Upload /\ DOMAIN req[r].snap \subseteq PartNo
        /\ req[r].op = "complete" /\ req[r].pc = "commit"
        /\ CommitUpload(req[r].u, req[r].snap, Composite(req[r].snap), cond)
        /\ committed' = committed \cup Composite(req[r].snap)
    BY <1>2 DEF CompleteCommit, EngineInv, EngineTypeOK, LocalsOK, LocalOK, Locals, PartSnap
  <2>2. req'[r].pc = "ready"
    BY <1>2 DEF CompleteCommit, Finish, Ready, EngineInv, EngineTypeOK
  <2> QED
    BY <2>1, <2>2, CommitWrites
<1>3. ASSUME NEW r \in Req, NEW cond, CopyCommit(r, cond) PROVE ObjectCopied \/ StaleCopy
  <2>1. /\ req[r].op = "copy" /\ req[r].pc = "commit" /\ req'[r].pc = "ready"
        /\ req[r].src \in Key /\ req[r].dst \in Key
        /\ CopyObject(req[r].src, req[r].row, req[r].dst, cond)
        /\ CopyObjectOk(req[r].src, req[r].row, req[r].dst, cond)
        /\ UNCHANGED committed
    BY <1>3 DEF CopyCommit, Finish, Ready, CopyObject,
                EngineInv, EngineTypeOK, LocalsOK, LocalOK
  <2>2. NewObject(req[r].dst, req[r].row.etag, req[r].row.blocks)
    BY <2>1 DEF CopyObject, NewObject
  <2>3. CASE objects[req[r].src] = req[r].row
    <3>1. Exists(req[r].src)
      BY <2>1, <2>3 DEF CopyObjectOk, Exists
    <3>2. NewObject(req[r].dst, objects[req[r].src].etag, objects[req[r].src].blocks)
      BY <2>2, <2>3
    <3> QED
      BY <2>1, <3>1, <3>2 DEF ObjectCopied
  <2>4. CASE objects[req[r].src] # req[r].row
    BY <2>1, <2>4 DEF StaleCopy, CopyObjectOk
  <2> QED
    BY <2>3, <2>4
<1>4. CASE Uploading
  <2> DEFINE Kept == UNCHANGED <<objects, committed>>
  <2>1. PICK r \in Req :
          \/ \E u \in Upload, k \in Key : PutStart(r, u, k)
          \/ \E u \in Upload, p \in PartNo : PartStart(r, u, p)
          \/ \E m \in Msg : StageBlock(r, m)
          \/ UploadDone(r) \/ UploadError(r) \/ Attach(r)
          \/ \E cond \in Condition : PutCommit(r, cond)
          \/ CommitError(r) \/ PutAbort(r) \/ PutAbortError(r)
    BY <1>4 DEF Uploading
  <2>2. /\ \A u \in Upload, k \in Key : PutStart(r, u, k) => Kept
        /\ \A u \in Upload, p \in PartNo : PartStart(r, u, p) => Kept
    BY DEF PutStart, CreateUpload, PartStart
  <2>3. \A m \in Msg : StageBlock(r, m) => Kept
    BY DEF StageBlock, AddStagedBlock
  <2>4. /\ UploadDone(r) => Kept
        /\ UploadError(r) => Kept
        /\ CommitError(r) => Kept
        /\ PutAbortError(r) => Kept
    BY DEF UploadDone, UploadError, CommitError, PutAbortError
  <2>5. Attach(r) => Kept
    BY DEF Attach, ReplacePart
  <2>6. PutAbort(r) => Kept
    BY DEF PutAbort, AbortUpload
  <2>7. Kept \/ ObjectWritten \/ ObjectMiswritten
    <3> HIDE DEF Kept
    <3> QED
      BY <1>1, <2>1, <2>2, <2>3, <2>4, <2>5, <2>6
  <2> QED
    BY <2>7
<1>5. CASE Completing
  <2>1. \A r \in Req, u \in Upload, P \in SUBSET PartNo \ {{}} :
           CompleteReadParts(r, u, P) => UNCHANGED <<objects, committed>>
    BY DEF CompleteReadParts
  <2>2. \A r \in Req : CompleteReadBlocks(r) => UNCHANGED <<objects, committed>>
    BY DEF CompleteReadBlocks
  <2> QED
    BY <1>2, <1>5, <2>1, <2>2 DEF Completing
<1>6. CASE Copying
  BY <1>3, <1>6 DEF Copying, CopyReadRow, CopyReadBlocks
<1>7. CASE Configuring
  BY <1>7 DEF Configuring, CorsCheck, CorsCommit, SetBucketCors
<1>8. CASE Others
  BY <1>8 DEF Others, CreateUpload, AbortUpload, Expire, UploadExpires, DeleteObject, ObjectRemoved
<1>9. CASE \/ \E r \in Req : Cancel(r)
           \/ Crash
           \/ \E bkt \in Bucket : AddBucket(bkt) \/ DropBucket(bkt)
  BY <1>9 DEF Cancel, Crash, AddBucket, CreateBucket, DropBucket, DeleteBucket
<1>10. CASE Collecting
  <2>1. \A b \in BlockId : VisitStale(b) => UNCHANGED objects
    BY DEF VisitStale, QueueStaleBlock
  <2> QED
    BY <1>10, <2>1 DEF Collecting, ScanStale, QueueScanned, CleanBlock, Collect, GcSuccess, Age, BlockAges
<1> QED
  BY <1>4, <1>5, <1>6, <1>7, <1>8, <1>9, <1>10 DEF EngineNext

\* What the objects list is held, so its messages stay.
LEMMA ListedData ==
    ASSUME EngineInv, Releases, NEW S \in SUBSET BlockId, \A b \in S : Held(b)
    PROVE  {message'[b] : b \in S} = Stored(S) /\ Stored(S) \in Etag
<1>1. \A b \in S : message'[b] = message[b] /\ message[b] \in Msg
  BY DEF Releases, EngineInv, EngineTypeOK, RowsSent, Rows, StoreInv, References
<1> QED
  BY <1>1, EtagIsDigest DEF Stored

\* What an object lists, its blocks hold.
LEMMA ObjectsListHeld ==
    ASSUME EngineInv, NEW k \in Key
    PROVE  objects[k].blocks \in SUBSET BlockId /\ \A b \in objects[k].blocks : Held(b)
BY DEF EngineInv, StoreInv, TypeOK, ObjectRow, Held, HeldByObject

\* The data of an object, before and after a step.
Data(k) == Stored(objects[k].blocks)
DataAfter(k) == {message'[b] : b \in objects'[k].blocks}

\* An object whose row and blocks are untouched keeps its data.
LEMMA SameObject ==
    ASSUME EngineInv, Releases, NEW k \in Key, objects'[k] = objects[k]
    PROVE  DataAfter(k) = Data(k) /\ (Exists(k)' <=> Exists(k))
BY ObjectsListHeld, ListedData DEF Data, DataAfter, Exists

\* The data of an object just written is what its handler listed.
LEMMA NewObjectData ==
    ASSUME EngineInv, Releases, NEW k \in Key, NEW etag, NEW S \in SUBSET BlockId,
           \A b \in S : Held(b), NewObject(k, etag, S)
    PROVE  /\ Exists(k)' /\ objects'[k].etag = etag /\ DataAfter(k) = Stored(S)
           /\ \A j \in Key \ {k} : objects'[j] = objects[j]
<1>1. PICK i \in ObjectId : objects' = [objects EXCEPT ![k] = [id |-> i, etag |-> etag, blocks |-> S]]
  BY DEF NewObject
<1>2. \A j \in Key : objects'[j] = IF j = k THEN [id |-> i, etag |-> etag, blocks |-> S]
                                            ELSE objects[j]
  BY <1>1 DEF EngineInv, StoreInv, TypeOK
<1>3. objects'[k].blocks = S /\ objects'[k].etag = etag /\ objects'[k].id # 0
  BY <1>2, ObjectIdAssumption
<1>4. DataAfter(k) = Stored(S)
  BY <1>3, ListedData DEF DataAfter
<1> QED
  BY <1>2, <1>3, <1>4 DEF Exists

\* A block that was listed by a stale id keeps that mark as long as it is listed.
LEMMA ForeignMark ==
    ASSUME Releases, NEW S \in SUBSET BlockId, \A b \in S : Held(b), S \cap foreign' = {}
    PROVE  S \cap foreign = {}
BY DEF Releases

ObjectTags == \A k \in Key :
    Exists(k) /\ objects[k].blocks \cap foreign = {} => objects[k].etag = Data(k)

\* A step keeps every object's tag true to its data, unless it is a stale copy.
LEMMA ObjectTagsStep ==
    ASSUME EngineInv, Releases, ObjectTags, EngineNext, ~StaleCopy
    PROVE  ObjectTags'
<1> SUFFICES ASSUME NEW k \in Key, Exists(k)', objects'[k].blocks \cap foreign' = {}
             PROVE  objects'[k].etag = DataAfter(k)
  BY DEF ObjectTags, Data, DataAfter, Stored
<1>1. CASE objects'[k] = objects[k]
  <2>1. objects[k].blocks \cap foreign = {}
    BY <1>1, ObjectsListHeld, ForeignMark
  <2> QED
    BY <1>1, <2>1, SameObject DEF ObjectTags
<1>2. CASE ObjectWritten /\ objects'[k] # objects[k]
  <2>1. PICK j \in Key, D \in SUBSET sent, S \in SUBSET BlockId :
           D = Stored(S) /\ (\A b \in S : Held(b)) /\ NewObject(j, D, S)
    BY <1>2 DEF ObjectWritten
  <2> QED
    BY <1>2, <2>1, NewObjectData
<1>5. CASE ObjectMiswritten /\ objects'[k] # objects[k]
  <2>1. PICK j \in Key, D \in SUBSET sent, S \in SUBSET BlockId :
           S \cap foreign # {} /\ (\A b \in S : Held(b)) /\ NewObject(j, D, S)
    BY <1>5 DEF ObjectMiswritten
  <2>2. j = k
    BY <1>5, <2>1, NewObjectData
  <2>3. objects'[k].blocks = S
    BY <2>1, <2>2 DEF NewObject, EngineInv, StoreInv, TypeOK
  <2> QED
    BY <2>1, <2>3, ForeignMark
<1>3. CASE ObjectRemoved /\ objects'[k] # objects[k]
  BY <1>3 DEF ObjectRemoved, NoObject, Exists, EngineInv, StoreInv, TypeOK
<1>4. CASE ObjectCopied /\ objects'[k] # objects[k]
  <2>1. PICK src \in Key, dst \in Key :
           Exists(src) /\ NewObject(dst, objects[src].etag, objects[src].blocks)
    BY <1>4 DEF ObjectCopied
  <2>2. k = dst
    BY <1>4, <2>1, ObjectsListHeld, NewObjectData
  <2>3. objects'[k].blocks = objects[src].blocks
    BY <2>1, <2>2 DEF NewObject, EngineInv, StoreInv, TypeOK
  <2>4. objects[src].blocks \cap foreign = {}
    BY <2>3, ObjectsListHeld, ForeignMark
  <2>5. objects[src].etag = Data(src)
    BY <2>1, <2>4 DEF ObjectTags
  <2> QED
    BY <2>1, <2>2, <2>5, ObjectsListHeld, NewObjectData DEF Data
<1> QED
  BY <1>1, <1>2, <1>3, <1>4, <1>5, ObjectsChange

\* Objects and parts list the data their entity tags digest, as long as no
\* copy_object writes with a source record that is not its source's any more,
\* and but for parts that list the row of another upload by a stale id, and the
\* objects made of them.
THEOREM TagsAlwaysMatch ==
    EngineSpec /\ [][~StaleCopy]_engineVars => []TagsMatchData
<1>1. EngineInit => ObjectTags
  BY DEF EngineInit, StoreInit, ObjectTags, Exists, NoObject
<1>2. EngineInv /\ ObjectTags /\ [EngineNext /\ EngineStep /\ ~StaleCopy]_engineVars
        => ObjectTags'
  <2>1. CASE UNCHANGED engineVars
    BY <2>1 DEF engineVars, handlerVars, historyVars, storeVars, blockVars,
                ObjectTags, Data, Stored, Exists
  <2> QED
    BY <2>1, ObjectTagsStep DEF EngineStep
<1>3. EngineInv /\ ObjectTags => TagsMatchData
  BY DEF EngineInv, DataOwned, ObjectTags, Data, TagsMatchData
<1> QED
  BY <1>1, <1>2, <1>3, EngineInvariant, PTL DEF EngineSpec

\* Every step is one of the promised store's, or none, unless it is a stale copy
\* or commits a row listed by a stale id.
LEMMA PromiseStep ==
    ASSUME EngineInv, Releases, EngineNext
    PROVE  [Promise!Next \/ StaleCopy \/ ForeignCommit]_Promise!vars
<1> DEFINE content == [k \in Key |-> IF Exists(k) THEN Stored(objects[k].blocks) ELSE NoEtag]
<1>1. \A k \in Key : /\ content[k] = IF Exists(k) THEN Data(k) ELSE NoEtag
                     /\ content'[k] = IF Exists(k)' THEN DataAfter(k) ELSE NoEtag
  BY DEF Data, DataAfter, Stored
<1>2. /\ DOMAIN content = Key /\ content = [k \in Key |-> content[k]]
      /\ DOMAIN content' = Key /\ content' = [k \in Key |-> content'[k]]
  OBVIOUS
<1>3. \A k \in Key : objects'[k] = objects[k] => content'[k] = content[k]
  BY <1>1, SameObject
<1> HIDE DEF content
<1>4. CASE UNCHANGED <<objects, committed>>
  <2>1. content' = content
    BY <1>2, <1>3, <1>4
  <2> QED
    BY <1>4, <2>1 DEF Promise!vars, content
<1>5. CASE ObjectWritten
  <2>1. PICK k \in Key, D \in SUBSET sent, S \in SUBSET BlockId :
           /\ D = Stored(S) /\ (\A b \in S : Held(b)) /\ NewObject(k, D, S)
           /\ D \cap committed = {} /\ committed' = committed \cup D
    BY <1>5 DEF ObjectWritten
  <2>2. content'[k] = D /\ \A j \in Key \ {k} : content'[j] = content[j]
    BY <1>1, <1>3, <2>1, NewObjectData
  <2>3. content' = [content EXCEPT ![k] = D]
    BY <1>2, <2>2
  <2>4. D \in SUBSET Msg
    BY DEF EngineInv, EngineTypeOK
  <2>5. Promise!Write(k, D)
    BY <2>1, <2>3 DEF Promise!Write, content
  <2> QED
    BY <2>4, <2>5 DEF Promise!Next
<1>6. CASE ObjectRemoved
  <2>1. PICK k \in Key : /\ Exists(k) /\ objects' = [objects EXCEPT ![k] = NoObject]
                         /\ UNCHANGED committed
    BY <1>6 DEF ObjectRemoved
  <2>2. objects'[k].id = 0 /\ \A j \in Key \ {k} : objects'[j] = objects[j]
    BY <2>1 DEF NoObject, EngineInv, StoreInv, TypeOK
  <2>3. content'[k] = NoEtag /\ \A j \in Key \ {k} : content'[j] = content[j]
    BY <1>1, <1>3, <2>2 DEF Exists
  <2>4. content' = [content EXCEPT ![k] = NoEtag]
    BY <1>2, <2>3
  <2>5. content[k] # NoEtag
    BY <1>1, <2>1, ObjectsListHeld, ListedData, EtagAssumption DEF Data
  <2>6. Promise!Remove(k)
    BY <2>1, <2>4, <2>5 DEF Promise!Remove, content
  <2> QED
    BY <2>6 DEF Promise!Next
<1>7. CASE ObjectCopied
  <2>1. PICK src \in Key, dst \in Key :
           /\ Exists(src) /\ NewObject(dst, objects[src].etag, objects[src].blocks)
           /\ UNCHANGED committed
    BY <1>7 DEF ObjectCopied
  <2>2. content'[dst] = content[src] /\ \A j \in Key \ {dst} : content'[j] = content[j]
    BY <1>1, <1>3, <2>1, ObjectsListHeld, NewObjectData DEF Data
  <2>3. content' = [content EXCEPT ![dst] = content[src]]
    BY <1>2, <2>2
  <2>4. content[src] # NoEtag
    BY <1>1, <2>1, ObjectsListHeld, ListedData, EtagAssumption DEF Data
  <2>5. Promise!Copy(src, dst)
    BY <2>1, <2>3, <2>4 DEF Promise!Copy, content
  <2> QED
    BY <2>5 DEF Promise!Next
<1>8. CASE ObjectMiswritten
  BY <1>8 DEF ObjectMiswritten
<1> QED
  BY <1>4, <1>5, <1>6, <1>7, <1>8, ObjectsChange

\* The handlers implement the object store clients were promised, but for
\* copies with a stale source record and for commits of a part that lists the
\* row of another upload by a stale id.
THEOREM ImplementsStore == EngineSpec => ImplementsObjectStore
<1>1. EngineInit => Promise!Init
  BY DEF EngineInit, StoreInit, Promise!Init, Exists, NoObject
<1>2. EngineInv /\ [EngineNext /\ EngineStep]_engineVars
        => [Promise!Next \/ StaleCopy \/ ForeignCommit]_Promise!vars
  <2>1. CASE UNCHANGED engineVars
    BY <2>1 DEF engineVars, handlerVars, historyVars, storeVars, blockVars,
                Promise!vars, Exists, Stored
  <2> QED
    BY <2>1, PromiseStep DEF EngineStep
<1> QED
  BY <1>1, <1>2, EngineInvariant, PTL DEF EngineSpec, ImplementsObjectStore

============================================================================
