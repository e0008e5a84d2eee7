------------------------------ MODULE RangeRead ------------------------------
(***************************************************************************)
(* GET of an object or of a byte range of it: parse_range and get_object   *)
(* of the S3 front end (src/src/s3.rs, s3/object.rs), the admission of     *)
(* transfers (limits.rs), range_stream, which visits the object's blocks   *)
(* one after the other (transfer/download.rs), and exact_range_stream,     *)
(* which cuts the bytes of a block out of what Telegram sends              *)
(* (telegram/download.rs).  Readers compete for admission and for download *)
(* slots; Telegram may send more than was asked for, in chunks of any      *)
(* size, fail, or stop early; clients leave.                               *)
(*                                                                         *)
(* Data abstraction: a byte is its position in the object.  The row of the *)
(* object has been read and its conditions checked; HEAD, which has no     *)
(* body, is left out; throttling only delays a read.                       *)
(***************************************************************************)
EXTENDS Integers, Sequences, FiniteSets

CONSTANTS Req,            \* readers
          Layout,         \* objects: for each block, the position after its end
          Header,         \* Range headers
          MaxTransfers,   \* config.max_active_transfers
          Slots,          \* config.download_concurrency
          MaxChunk,       \* bytes of one chunk from Telegram
          Align           \* DOWNLOAD_CHUNK_SIZE of the MTProto client

\* No header; bytes=a-b; bytes=a-; bytes=-a; anything else
AnyHeader == [kind : {"none", "closed", "open", "suffix", "bad"}, a : Nat, b : Nat]

ASSUME LayoutAssumption ==
    \A l \in Layout : /\ l \in Seq(Nat \ {0})
                      /\ \A i \in 2..Len(l) : l[i - 1] < l[i]
ASSUME HeaderAssumption == Header \subseteq AnyHeader
ASSUME LimitsAssumption ==
    {MaxTransfers, Slots, MaxChunk, Align} \subseteq Nat \ {0}

VARIABLES get,      \* per reader: the request, and the state of its stream
          writers   \* uploads that hold an admission permit

readVars == <<get, writers>>

ObjectSize(l) == IF l = <<>> THEN 0 ELSE l[Len(l)]
BlockOffset(l, i) == IF i = 1 THEN 0 ELSE l[i - 1]
BlockEnd(l, i) == l[i] - 1

Lesser(x, y) == IF x < y THEN x ELSE y
Greater(x, y) == IF x < y THEN y ELSE x

Nothing == [pc |-> "idle", layout |-> <<>>, header |-> [kind |-> "none", a |-> 0, b |-> 0],
            start |-> 0, end |-> -1, index |-> 1, slot |-> FALSE,
            pos |-> 0, stop |-> 0, skip |-> 0, remaining |-> 0, out |-> <<>>]

Admitted == {"next", "slot", "open", "read"}
Waiting == {"admit"} \cup Admitted
Answered == {"done", "failed", "refused", "slowdown", "gone"}

\* Permits of AdmissionController in use, by readers and by uploads
Reading == {r \in Req : get[r].pc \in Admitted}
Permits == writers + Cardinality(Reading)

\* Download slots in use
Downloading == {r \in Req : get[r].slot}

\* pos..stop-1 is what the source of the current block has yet to send, and
\* index the block after it.
Reader ==
    [pc : {"idle"} \cup Waiting \cup Answered, layout : Layout \cup {<<>>}, header : AnyHeader,
     start : Int, end : Int, index : Nat \ {0}, slot : BOOLEAN,
     pos : Nat, stop : Nat, skip : Nat, remaining : Nat, out : Seq(Nat)]

ReadTypeOK ==
    /\ writers \in Nat
    /\ get \in [Req -> Reader]
    /\ \A r \in Req : get[r].index <= Len(get[r].layout) + 1

ReadInit == get = [r \in Req |-> Nothing] /\ writers = 0

----------------------------------------------------------------------------
(* The request.                                                            *)

InvalidRange == [valid |-> FALSE, start |-> 0, end |-> -1]
ValidRange(start, end) == [valid |-> TRUE, start |-> start, end |-> end]

LastPosition(h, size) == IF h.kind = "closed" THEN Lesser(h.b, size - 1) ELSE size - 1

\* i64::saturating_sub saturates at the least integer, not at zero: a suffix
\* longer than the object starts before it.
ParseRange(h, size) ==
    CASE size = 0 -> ValidRange(0, -1)
      [] size > 0 /\ h.kind = "none" -> ValidRange(0, size - 1)
      [] size > 0 /\ h.kind = "suffix" /\ h.a > 0 -> ValidRange(size - h.a, size - 1)
      [] /\ size > 0 /\ h.kind \in {"open", "closed"}
         /\ h.a < size /\ h.a <= LastPosition(h, size) ->
           ValidRange(h.a, LastPosition(h, size))
      [] OTHER -> InvalidRange

GetObject(r, l, h) ==
    LET range == ParseRange(h, ObjectSize(l))
    IN  /\ get[r].pc = "idle"
        /\ get' = [get EXCEPT ![r] =
                     [Nothing EXCEPT !.layout = l, !.header = h,
                        !.start = range.start, !.end = range.end,
                        !.pc = CASE ~range.valid -> "refused"
                                 [] range.valid /\ l = <<>> -> "done"
                                 [] OTHER -> "admit"]]

\* AdmissionController::acquire: a permit, or SlowDown after limit_wait_secs
Admit(r) ==
    /\ get[r].pc = "admit"
    /\ Permits < MaxTransfers
    /\ get' = [get EXCEPT ![r].pc = "next"]

SlowDown(r) ==
    /\ get[r].pc = "admit"
    /\ Permits >= MaxTransfers
    /\ get' = [get EXCEPT ![r].pc = "slowdown"]

\* PUT of an object or a part takes a permit for as long as it runs.
UploadAdmitted ==
    /\ Permits < MaxTransfers
    /\ writers' = writers + 1
    /\ UNCHANGED get

UploadEnds ==
    /\ writers > 0
    /\ writers' = writers - 1
    /\ UNCHANGED get

----------------------------------------------------------------------------
(* range_stream                                                            *)

\* Mutant: a block that starts at the last position is left out.
OutsideRange_offByOne(g) ==
    BlockEnd(g.layout, g.index) < g.start \/ BlockOffset(g.layout, g.index) >= g.end

OutsideRange(g) ==
    BlockEnd(g.layout, g.index) < g.start \/ BlockOffset(g.layout, g.index) > g.end

SkipBlock(r) ==
    /\ get[r].pc = "next"
    /\ get[r].index <= Len(get[r].layout)
    /\ OutsideRange(get[r])
    /\ get' = [get EXCEPT ![r].index = @ + 1]

NextBlock(r) ==
    /\ get[r].pc = "next"
    /\ get[r].index <= Len(get[r].layout)
    /\ ~OutsideRange(get[r])
    /\ get' = [get EXCEPT ![r].pc = "slot"]

StreamEnds(r) ==
    /\ get[r].pc = "next"
    /\ get[r].index > Len(get[r].layout)
    /\ get' = [get EXCEPT ![r].pc = "done"]

TakeSlot(r) ==
    /\ get[r].pc = "slot"
    /\ Cardinality(Downloading) < Slots
    /\ get' = [get EXCEPT ![r].pc = "open", ![r].slot = TRUE]

\* download_stream: the source starts where the range does (206), or at the
\* block (200), or at a chunk of the MTProto client, and ends with the range
\* or with the block; exact_range_stream skips what comes before the range.
Open(r) ==
    LET g == get[r]
        offset == BlockOffset(g.layout, g.index)
        blockEnd == BlockEnd(g.layout, g.index)
        first == Greater(g.start, offset)
        last == Lesser(g.end, blockEnd)
        aligned == offset + ((first - offset) \div Align) * Align
    IN  /\ g.pc = "open"
        /\ \E s \in {<<first, last>>, <<offset, blockEnd>>, <<aligned, blockEnd>>} :
             get' = [get EXCEPT ![r] =
                       [g EXCEPT !.pc = "read", !.index = g.index + 1,
                          !.pos = s[1], !.stop = s[2] + 1,
                          !.skip = first - s[1], !.remaining = last - first + 1]]

Fail(g) == [g EXCEPT !.pc = "failed", !.slot = FALSE]

OpenFails(r) ==
    /\ get[r].pc = "open"
    /\ get' = [get EXCEPT ![r] = Fail(@)]

----------------------------------------------------------------------------
(* exact_range_stream                                                      *)

\* Mutants: skip is not reset; a chunk is passed on whole.
Deliver_keepsSkip(g, n) ==
    LET from == g.pos + g.skip
        count == Lesser(g.remaining, n - g.skip)
    IN  [g EXCEPT !.pos = @ + n, !.remaining = @ - count,
                  !.out = @ \o [i \in 1..count |-> from + i - 1]]
Deliver_wholeChunk(g, n) ==
    LET from == g.pos + g.skip
        count == n - g.skip
    IN  [g EXCEPT !.pos = @ + n, !.skip = 0, !.remaining = @ - count,
                  !.out = @ \o [i \in 1..count |-> from + i - 1]]

\* The part of an n byte chunk after skip, cut to what remains.
Deliver(g, n) ==
    LET from == g.pos + g.skip
        count == Lesser(g.remaining, n - g.skip)
    IN  [g EXCEPT !.pos = @ + n, !.skip = 0, !.remaining = @ - count,
                  !.out = @ \o [i \in 1..count |-> from + i - 1]]

Chunk(r) ==
    LET g == get[r]
    IN  /\ g.pc = "read" /\ g.remaining > 0
        /\ \E n \in 1..MaxChunk :
             /\ g.pos + n <= g.stop
             /\ get' = [get EXCEPT ![r] =
                          IF g.skip >= n THEN [g EXCEPT !.pos = g.pos + n, !.skip = g.skip - n]
                          ELSE Deliver(g, n)]

\* The source fails or ends although bytes remain.
SourceFails(r) ==
    /\ get[r].pc = "read" /\ get[r].remaining > 0
    /\ get' = [get EXCEPT ![r] = Fail(@)]

\* Mutant: the permit is kept while the next one is acquired.
Release_late(g) == [g EXCEPT !.pc = "next"]

\* The block's stream has ended: its permit goes before the next one comes.
Release(g) == [g EXCEPT !.pc = "next", !.slot = FALSE]

BlockDone(r) ==
    /\ get[r].pc = "read" /\ get[r].remaining = 0
    /\ get' = [get EXCEPT ![r] = Release(@)]

\* The client is gone: the stream and its permits are dropped.
Leave(r) ==
    /\ get[r].pc \in Waiting
    /\ get' = [get EXCEPT ![r].pc = "gone", ![r].slot = FALSE]

\* What a reader does by itself while its client reads on.
ReadStep(r) ==
    /\ \/ SkipBlock(r)
       \/ NextBlock(r)
       \/ StreamEnds(r)
       \/ Open(r)
       \/ Chunk(r)
       \/ BlockDone(r)
    /\ UNCHANGED writers

GetsPermit(r) == (Admit(r) \/ SlowDown(r)) /\ UNCHANGED writers
GetsSlot(r) == TakeSlot(r) /\ UNCHANGED writers

ReadNext ==
    \/ UploadAdmitted
    \/ UploadEnds
    \/ \E r \in Req :
         \/ GetsPermit(r)
         \/ GetsSlot(r)
         \/ ReadStep(r)
         \/ /\ \/ \E l \in Layout, h \in Header : GetObject(r, l, h)
               \/ OpenFails(r)
               \/ SourceFails(r)
               \/ Leave(r)
            /\ UNCHANGED writers

\* tokio runs what can run, the semaphore of the slots serves its waiters in
\* order, and limit_wait_secs passes.  Telegram answers, and clients read on
\* or leave: a stalled client holds its slot for ever.
ReadFairness == \A r \in Req :
    WF_readVars(ReadStep(r)) /\ WF_readVars(GetsPermit(r)) /\ SF_readVars(GetsSlot(r))

ReadSpec == ReadInit /\ [][ReadNext]_readVars /\ ReadFairness

----------------------------------------------------------------------------
(* Properties.                                                             *)

\* The positions a Range header asks for, by the definition of HTTP.
Requested(h, size) ==
    {p \in 0..(size - 1) :
        CASE h.kind = "closed" -> h.a <= p /\ p <= h.b
          [] h.kind = "open" -> h.a <= p
          [] h.kind = "suffix" -> size - h.a <= p
          [] OTHER -> TRUE}

\* The first byte of the body, and the position after the last one it has
\* before block i is read.
FirstByte(g) == Greater(g.start, 0)
ReachedBefore(g, i) == Greater(FirstByte(g), Lesser(g.end + 1, BlockOffset(g.layout, i)))

\* What has been sent is a piece of the object from FirstByte on, which grows
\* block by block; what the source sends next, after skip, is what comes next,
\* and it was asked for enough: what remains is still to come from it.
ReaderOK(g) ==
    LET range == ParseRange(g.header, ObjectSize(g.layout))
        reached == FirstByte(g) + Len(g.out)
    IN  /\ g.slot <=> g.pc \in {"open", "read"}
        /\ g.pc = "idle" => g = Nothing
        /\ g.pc # "idle" => /\ g.layout \in Layout /\ g.header \in Header
                            /\ g.start = range.start /\ g.end = range.end
                            /\ range.valid <=> g.pc # "refused"
        /\ \A i \in 1..Len(g.out) : g.out[i] = FirstByte(g) + i - 1
        /\ g.out # <<>> => reached <= g.end + 1
        /\ g.pc \in Waiting => g.layout # <<>>
        /\ g.pc \in {"admit", "next", "slot", "open"} => reached = ReachedBefore(g, g.index)
        /\ g.pc \in {"slot", "open"} => g.index <= Len(g.layout) /\ ~OutsideRange(g)
        /\ g.pc = "read" => /\ reached + g.remaining = ReachedBefore(g, g.index)
                            /\ g.remaining > 0 => g.pos + g.skip = reached
                            /\ g.pos + g.skip + g.remaining <= g.stop
        /\ g.pc = "done" => reached = g.end + 1

\* The inductive invariant, with the two limits.
ReadInv ==
    /\ ReadTypeOK
    /\ IsFiniteSet(Reading) /\ Permits <= MaxTransfers
    /\ IsFiniteSet(Downloading) /\ Cardinality(Downloading) <= Slots
    /\ \A r \in Req : ReaderOK(get[r])

\* The client never receives a wrong byte: at any time the i-th byte of the
\* body (range_stream) is the i-th byte requested, however the object is cut
\* into blocks and chunks and whatever Telegram sends besides.
BodyInOrder ==
    \A r \in Req :
        LET g == get[r]
            wanted == Requested(g.header, ObjectSize(g.layout))
        IN  \A i \in 1..Len(g.out) :
                /\ g.out[i] \in wanted
                /\ Cardinality({p \in wanted : p < g.out[i]}) = i - 1

\* A body that ends without an error is complete (exact_range_stream reports a
\* short stream) and as long as Content-Length, which is sent before it, said;
\* and parse_range refuses a range only when it is malformed or has no byte of
\* the object.  The exception is the Content-Length of a suffix longer than the
\* object, which parse_range lets start before the object.
RangeHonoured ==
    \A r \in Req :
        LET g == get[r]
            size == ObjectSize(g.layout)
            wanted == Requested(g.header, size)
        IN  /\ g.pc = "done" =>
                   /\ Len(g.out) = Cardinality(wanted)
                   /\ \/ Len(g.out) = g.end - g.start + 1
                      \/ g.header.kind = "suffix" /\ g.header.a > size
            /\ g.pc = "refused" => g.header.kind = "bad" \/ wanted = {}

\* The guards of the steps of a reader that wait for nobody.
ReaderMoves(r) ==
    \/ get[r].pc \in {"admit", "next", "open"}
    \/ get[r].pc = "slot" /\ Cardinality(Downloading) < Slots
    \/ /\ get[r].pc = "read"
       /\ \/ get[r].remaining = 0
          \/ \E n \in 1..MaxChunk : get[r].pos + n <= get[r].stop

\* Readers do not wait for each other in a circle, and none for bytes that its
\* source was not asked for: a reader that cannot go on waits for a slot, and
\* who holds one goes on, since range_stream drops the slot of a block before
\* it waits for that of the next, and each of download_stream's three sources
\* covers what exact_range_stream has yet to pass on.
NoReaderStuck ==
    \A r \in Req : get[r].pc \in Waiting =>
        \/ ReaderMoves(r)
        \/ get[r].pc = "slot" /\ Downloading # {} /\ \A h \in Downloading : ReaderMoves(h)

\* No reader waits for ever: range_stream gives the slot of a block back before
\* it waits for the next one, and whoever is admitted gets a slot in the end.
ReadsEnd == \A r \in Req : get[r].pc \in Waiting ~> get[r].pc \in Answered

============================================================================
