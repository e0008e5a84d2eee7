-------------------------- MODULE RangeReadProofs --------------------------
(* Proofs about range reads, for any number of readers, any layout of      *)
(* blocks, any Range header and chunks of any size: ReadInv is inductive,  *)
(* and with it every body is the range asked for, byte by byte.            *)
EXTENDS RangeRead, FiniteSetTheorems, TLAPS

\* What the client asks for is an interval, and parse_range gives its ends.
LEMMA RangeOfRequest ==
    ASSUME NEW h \in AnyHeader, NEW size \in Nat, NEW range, range = ParseRange(h, size)
    PROVE  /\ range.valid \in BOOLEAN /\ range.start \in Int /\ range.end \in Int
           /\ range.valid =>
                 /\ Requested(h, size) = Greater(range.start, 0)..range.end
                 /\ range.end < size /\ Greater(range.start, 0) <= range.end + 1
                 /\ size > 0 => range.start <= range.end
                 /\ range.start < 0 => h.kind = "suffix" /\ h.a > size
           /\ ~range.valid => h.kind = "bad" \/ Requested(h, size) = {}
           /\ size = 0 => range.valid /\ range.start = 0 /\ range.end = -1
<1>1. CASE size = 0
  <2>1. range = ValidRange(0, -1)
    BY <1>1 DEF ParseRange
  <2>2. Requested(h, size) = {} /\ 0..(-1) = {}
    BY <1>1 DEF Requested
  <2>3. range.valid = TRUE /\ range.start = 0 /\ range.end = -1
    BY <2>1 DEF ValidRange
  <2>4. Greater(range.start, 0) = 0
    BY <2>3 DEF Greater
  <2>5. Requested(h, size) = Greater(range.start, 0)..range.end
    BY <2>2, <2>3, <2>4
  <2>6. range.end < size /\ Greater(range.start, 0) <= range.end + 1 /\ ~(size > 0)
    BY <1>1, <2>3, <2>4
  <2>7. range.valid \in BOOLEAN /\ range.start \in Int /\ range.end \in Int
    BY <2>1 DEF ValidRange
  <2>8. /\ range.start < 0 => h.kind = "suffix" /\ h.a > size
        /\ ~range.valid => h.kind = "bad" \/ Requested(h, size) = {}
    BY <2>3
  <2> QED
    BY <1>1, <2>3, <2>5, <2>6, <2>7, <2>8
<1>2. CASE size > 0 /\ h.kind = "none"
  <2>1. range = ValidRange(0, size - 1)
    BY <1>2 DEF ParseRange
  <2>2. Requested(h, size) = 0..(size - 1)
    BY <1>2 DEF Requested
  <2> QED
    BY <1>2, <2>1, <2>2 DEF ValidRange, Greater
<1>3. CASE size > 0 /\ h.kind = "suffix"
  <2>1. Requested(h, size) = {p \in 0..(size - 1) : size - h.a <= p}
    BY <1>3 DEF Requested
  <2>2. h.a \in Nat
    BY DEF AnyHeader
  <2>3. CASE h.a > 0
    <3>1. range = ValidRange(size - h.a, size - 1)
      BY <1>3, <2>3 DEF ParseRange
    <3>2. Requested(h, size) = Greater(size - h.a, 0)..(size - 1)
      BY <2>1, <2>2 DEF Greater
    <3> QED
      BY <1>3, <2>2, <2>3, <3>1, <3>2 DEF ValidRange, Greater
  <2>4. CASE h.a = 0
    <3>1. range = InvalidRange
      BY <1>3, <2>4 DEF ParseRange
    <3> QED
      BY <1>3, <2>1, <2>4, <3>1 DEF InvalidRange
  <2> QED
    BY <2>2, <2>3, <2>4
<1>4. CASE size > 0 /\ h.kind \in {"open", "closed"}
  <2>1. PICK last : last = LastPosition(h, size)
    OBVIOUS
  <2>2. h.a \in Nat /\ h.b \in Nat
    BY DEF AnyHeader
  <2>3. last \in Int /\ last < size
    BY <2>1, <2>2 DEF LastPosition, Lesser
  <2>4. Requested(h, size) = h.a..last
    BY <1>4, <2>1, <2>2 DEF Requested, LastPosition, Lesser
  <2>5. CASE h.a < size /\ h.a <= last
    <3>1. range = ValidRange(h.a, last)
      BY <1>4, <2>1, <2>5 DEF ParseRange
    <3> QED
      BY <1>4, <2>2, <2>3, <2>4, <2>5, <3>1 DEF ValidRange, Greater
  <2>6. CASE ~(h.a < size /\ h.a <= last)
    <3>1. range = InvalidRange
      BY <1>4, <2>1, <2>6 DEF ParseRange
    <3> QED
      BY <1>4, <2>2, <2>3, <2>4, <2>6, <3>1 DEF InvalidRange
  <2> QED
    BY <2>5, <2>6
<1>5. CASE size > 0 /\ h.kind = "bad"
  <2>1. range = InvalidRange
    BY <1>5 DEF ParseRange
  <2> QED
    BY <1>5, <2>1 DEF InvalidRange
<1> QED
  BY <1>1, <1>2, <1>3, <1>4, <1>5 DEF AnyHeader

\* Blocks are not empty and follow each other.
LEMMA Blocks ==
    ASSUME NEW l \in Layout
    PROVE  /\ l \in Seq(Nat) /\ ObjectSize(l) \in Nat /\ (ObjectSize(l) = 0 <=> l = <<>>)
           /\ l # <<>> => BlockOffset(l, Len(l) + 1) = ObjectSize(l)
           /\ \A i \in 1..Len(l) : /\ BlockOffset(l, i) \in Nat /\ BlockEnd(l, i) \in Nat
                                   /\ BlockOffset(l, i + 1) = BlockEnd(l, i) + 1
                                   /\ BlockOffset(l, i) <= BlockEnd(l, i)
<1>1. /\ l \in Seq(Nat \ {0}) /\ Len(l) \in Nat
      /\ \A i \in 1..Len(l) : l[i] \in Nat \ {0}
      /\ \A i \in 2..Len(l) : l[i - 1] < l[i]
  BY LayoutAssumption
<1>2. l \in Seq(Nat)
  BY <1>1
<1>3. l # <<>> => Len(l) > 0 /\ ObjectSize(l) = l[Len(l)]
  BY <1>1 DEF ObjectSize
<1>4. ASSUME NEW i \in 1..Len(l)
      PROVE  /\ BlockOffset(l, i) \in Nat /\ BlockEnd(l, i) \in Nat
             /\ BlockOffset(l, i + 1) = BlockEnd(l, i) + 1
             /\ BlockOffset(l, i) <= BlockEnd(l, i)
  <2>1. l[i] \in Nat \ {0} /\ (i # 1 => i - 1 \in 1..Len(l) /\ l[i - 1] < l[i])
    BY <1>1
  <2>2. i # 1 => l[i - 1] \in Nat
    BY <1>1, <2>1
  <2> QED
    BY <2>1, <2>2 DEF BlockOffset, BlockEnd
<1>5. l # <<>> => BlockOffset(l, Len(l) + 1) = ObjectSize(l) /\ ObjectSize(l) \in Nat \ {0}
  BY <1>1, <1>3 DEF BlockOffset
<1> QED
  BY <1>2, <1>4, <1>5 DEF ObjectSize

\* A request before it is read.
LEMMA NothingReads == Nothing \in Reader /\ FirstByte(Nothing) = 0
<1>1. Nothing.header \in AnyHeader
  BY DEF Nothing, AnyHeader
<1> QED
  BY <1>1 DEF Nothing, Reader, Waiting, Answered, Admitted, FirstByte, Greater

\* At the start every reader and every permit is free.
LEMMA ReadInitInv == ReadInit => ReadInv
<1> SUFFICES ASSUME ReadInit PROVE ReadInv
  OBVIOUS
<1>1. get = [r \in Req |-> Nothing] /\ writers = 0
  BY DEF ReadInit
<1>2. Reading = {} /\ Downloading = {}
  BY <1>1 DEF Reading, Downloading, Nothing, Admitted
<1>3. Permits = 0 /\ IsFiniteSet({}) /\ Cardinality({}) = 0
  BY <1>1, <1>2, FS_EmptySet DEF Permits
<1>4. ReadTypeOK
  <2>1. Nothing.index = 1 /\ Len(Nothing.layout) = 0
    BY DEF Nothing
  <2> QED
    BY <1>1, <2>1, NothingReads DEF ReadTypeOK
<1>5. \A r \in Req : ReaderOK(get[r])
  <2>1. /\ Nothing.pc = "idle" /\ Nothing.slot = FALSE /\ Nothing.out = <<>>
    BY DEF Nothing
  <2> QED
    BY <1>1, <2>1 DEF ReaderOK, Waiting, Admitted
<1> QED
  BY <1>2, <1>3, <1>4, <1>5, LimitsAssumption DEF ReadInv

\* A smaller set of readers holds no more permits,
LEMMA Fewer ==
    ASSUME NEW S, IsFiniteSet(S), NEW T, T \subseteq S
    PROVE  IsFiniteSet(T) /\ Cardinality(T) \in Nat /\ Cardinality(T) <= Cardinality(S)
<1>1. IsFiniteSet(T) /\ Cardinality(T) <= Cardinality(S)
  BY FS_Subset
<1> QED
  BY <1>1, FS_CardinalityType

\* and one reader more holds one more.
LEMMA OneMore ==
    ASSUME NEW S, NEW x, IsFiniteSet(S), NEW T, T \subseteq S \cup {x}
    PROVE  IsFiniteSet(T) /\ Cardinality(T) \in 0..(Cardinality(S) + 1)
<1>1. PICK U : U = S \cup {x}
  OBVIOUS
<1>2. Cardinality(S) \in Nat
  BY FS_CardinalityType
<1>3. IsFiniteSet(U) /\ (Cardinality(U) = Cardinality(S) \/ Cardinality(U) = Cardinality(S) + 1)
  BY <1>1, FS_AddElement
<1>4. IsFiniteSet(T) /\ Cardinality(T) \in Nat /\ Cardinality(T) <= Cardinality(U)
  BY <1>1, <1>3, Fewer
<1> QED
  BY <1>2, <1>3, <1>4

\* A step of one reader: what remains to be shown is about that reader, and the
\* limits where it takes a permit or a slot.
LEMMA ReaderFrame ==
    ASSUME ReadInv, NEW r \in Req, NEW k \in Reader, get' = [get EXCEPT ![r] = k],
           k.index <= Len(k.layout) + 1, UNCHANGED writers,
           get[r].pc \in Admitted \/ k.pc \notin Admitted \/ Permits < MaxTransfers,
           get[r].slot \/ ~k.slot \/ Cardinality(Downloading) < Slots,
           ReaderOK(k)
    PROVE  ReadInv'
<1>1. get \in [Req -> Reader]
  BY DEF ReadInv, ReadTypeOK
<1>2. get'[r] = k /\ \A s \in Req : s # r => get'[s] = get[s]
  BY <1>1
<1>3. ReadTypeOK'
  BY <1>1, <1>2 DEF ReadInv, ReadTypeOK
<1>4. \A s \in Req : ReaderOK(get[s])'
  BY <1>2 DEF ReadInv
<1>5. IsFiniteSet(Reading') /\ Permits' <= MaxTransfers
  <2>1. /\ IsFiniteSet(Reading) /\ Cardinality(Reading) \in Nat /\ writers \in Nat
        /\ Permits <= MaxTransfers
    BY FS_CardinalityType DEF ReadInv, ReadTypeOK
  <2>2. CASE get[r].pc \in Admitted \/ k.pc \notin Admitted
    <3>1. Reading' \subseteq Reading
      BY <1>2, <2>2 DEF Reading
    <3>2. /\ IsFiniteSet(Reading') /\ Cardinality(Reading') \in Nat
          /\ Cardinality(Reading') <= Cardinality(Reading)
      BY <2>1, <3>1, Fewer
    <3> QED
      BY <2>1, <3>2, LimitsAssumption DEF Permits
  <2>3. CASE Permits < MaxTransfers
    <3>1. Reading' \subseteq Reading \cup {r}
      BY <1>2 DEF Reading
    <3>2. IsFiniteSet(Reading') /\ Cardinality(Reading') \in 0..(Cardinality(Reading) + 1)
      BY <2>1, <3>1, OneMore
    <3> QED
      BY <2>1, <2>3, <3>2, LimitsAssumption DEF Permits
  <2> QED
    BY <2>2, <2>3
<1>6. IsFiniteSet(Downloading') /\ Cardinality(Downloading') <= Slots
  <2>1. /\ IsFiniteSet(Downloading) /\ Cardinality(Downloading) \in Nat
        /\ Cardinality(Downloading) <= Slots
    BY FS_CardinalityType DEF ReadInv
  <2>2. CASE get[r].slot \/ ~k.slot
    <3>1. Downloading' \subseteq Downloading
      BY <1>2, <2>2 DEF Downloading
    <3> QED
      BY <2>1, <3>1, Fewer, LimitsAssumption
  <2>3. CASE Cardinality(Downloading) < Slots
    <3>1. Downloading' \subseteq Downloading \cup {r}
      BY <1>2 DEF Downloading
    <3>2. /\ IsFiniteSet(Downloading')
          /\ Cardinality(Downloading') \in 0..(Cardinality(Downloading) + 1)
      BY <2>1, <3>1, OneMore
    <3> QED
      BY <2>1, <2>3, <3>2, LimitsAssumption
  <2> QED
    BY <2>2, <2>3
<1> QED
  BY <1>3, <1>4, <1>5, <1>6 DEF ReadInv

----------------------------------------------------------------------------
(* A reader that has been answered with a body.                            *)

\* What the invariant says of the bytes a reader was promised.
LEMMA StreamFacts ==
    ASSUME NEW g \in Reader, ReaderOK(g), g.pc \notin {"idle", "refused"}
    PROVE  /\ g.layout \in Layout /\ g.header \in AnyHeader
           /\ g.start \in Int /\ g.end \in Int /\ g.end < ObjectSize(g.layout)
           /\ FirstByte(g) = Greater(g.start, 0)
           /\ FirstByte(g) \in Nat /\ g.start <= FirstByte(g) /\ FirstByte(g) <= g.end + 1
           /\ g.layout # <<>> => g.start <= g.end
           /\ g.out \in Seq(Nat) /\ Len(g.out) \in Nat
           /\ Requested(g.header, ObjectSize(g.layout)) = FirstByte(g)..g.end
<1>1. PICK size, range : size = ObjectSize(g.layout) /\ range = ParseRange(g.header, size)
  OBVIOUS
<1>2. /\ g.layout \in Layout /\ g.header \in AnyHeader
      /\ g.start = range.start /\ g.end = range.end /\ range.valid
  BY <1>1, HeaderAssumption DEF ReaderOK
<1>3. size \in Nat /\ (size = 0 <=> g.layout = <<>>)
  BY <1>1, <1>2, Blocks
<1>4. /\ g.start \in Int /\ g.end \in Int /\ g.end < size
      /\ Requested(g.header, size) = Greater(g.start, 0)..g.end
      /\ Greater(g.start, 0) <= g.end + 1 /\ (size > 0 => g.start <= g.end)
  BY <1>1, <1>2, <1>3, RangeOfRequest
<1>5. Greater(g.start, 0) \in Nat /\ g.start <= Greater(g.start, 0)
  BY <1>4 DEF Greater
<1>6. g.out \in Seq(Nat) /\ Len(g.out) \in Nat
  BY DEF Reader
<1> QED
  BY <1>1, <1>2, <1>3, <1>4, <1>5, <1>6 DEF FirstByte

\* The same body, with the reader elsewhere.
LEMMA SamePiece ==
    ASSUME NEW g \in Reader, ReaderOK(g), g.pc \in Waiting, NEW k \in Reader,
           k.layout = g.layout, k.header = g.header, k.start = g.start, k.end = g.end,
           k.out = g.out, k.pc \notin {"idle", "refused"},
           k.slot <=> k.pc \in {"open", "read"},
           k.pc \in {"admit", "next", "slot", "open"} =>
               FirstByte(g) + Len(g.out) = ReachedBefore(g, k.index),
           k.pc \in {"slot", "open"} => k.index <= Len(k.layout) /\ ~OutsideRange(k),
           k.pc = "read" =>
               /\ FirstByte(g) + Len(g.out) + k.remaining = ReachedBefore(g, k.index)
               /\ k.remaining > 0 => k.pos + k.skip = FirstByte(g) + Len(g.out)
               /\ k.pos + k.skip + k.remaining <= k.stop,
           k.pc = "done" => FirstByte(g) + Len(g.out) = g.end + 1
    PROVE  ReaderOK(k)
<1>1. FirstByte(k) = FirstByte(g) /\ ReachedBefore(k, k.index) = ReachedBefore(g, k.index)
  BY DEF FirstByte, ReachedBefore
<1>2. g.pc # "idle" /\ g.pc # "refused"
  BY DEF Waiting, Admitted
<1> QED
  BY <1>1, <1>2 DEF ReaderOK

\* Where the body is when a block has been left out or read.
LEMMA BlockStep ==
    ASSUME NEW g \in Reader, ReaderOK(g), g.pc \notin {"idle", "refused"},
           g.index <= Len(g.layout)
    PROVE  LET offset == BlockOffset(g.layout, g.index)
               blockEnd == BlockEnd(g.layout, g.index)
           IN  /\ offset \in Nat /\ blockEnd \in Nat /\ offset <= blockEnd
               /\ ReachedBefore(g, g.index) =
                      Greater(FirstByte(g), Lesser(g.end + 1, offset))
               /\ ReachedBefore(g, g.index + 1) =
                      Greater(FirstByte(g), Lesser(g.end + 1, blockEnd + 1))
               /\ OutsideRange(g) =>
                      ReachedBefore(g, g.index + 1) = ReachedBefore(g, g.index)
               /\ ~OutsideRange(g) =>
                      /\ Greater(g.start, offset) <= Lesser(g.end, blockEnd)
                      /\ ReachedBefore(g, g.index) = Greater(g.start, offset)
                      /\ ReachedBefore(g, g.index + 1) = Lesser(g.end, blockEnd) + 1
<1>1. PICK offset, blockEnd, first : /\ offset = BlockOffset(g.layout, g.index)
                                     /\ blockEnd = BlockEnd(g.layout, g.index)
                                     /\ first = FirstByte(g)
  OBVIOUS
<1>2. g.index \in 1..Len(g.layout) /\ g.layout \in Layout /\ g.layout # <<>>
  BY StreamFacts DEF Reader
<1>3. /\ offset \in Nat /\ blockEnd \in Nat /\ offset <= blockEnd
      /\ BlockOffset(g.layout, g.index + 1) = blockEnd + 1
  BY <1>1, <1>2, Blocks
<1>4. /\ g.start \in Int /\ g.end \in Int /\ first \in Nat /\ first <= g.end + 1
      /\ first = Greater(g.start, 0) /\ g.start <= g.end
  BY <1>1, <1>2, StreamFacts
<1>5. /\ ReachedBefore(g, g.index) = Greater(first, Lesser(g.end + 1, offset))
      /\ ReachedBefore(g, g.index + 1) = Greater(first, Lesser(g.end + 1, blockEnd + 1))
  BY <1>1, <1>3 DEF ReachedBefore
<1>6. OutsideRange(g) <=> blockEnd < g.start \/ offset > g.end
  BY <1>1 DEF OutsideRange
<1>7. OutsideRange(g) => ReachedBefore(g, g.index + 1) = ReachedBefore(g, g.index)
  BY <1>3, <1>4, <1>5, <1>6 DEF Greater, Lesser
<1>8. ~OutsideRange(g) => /\ Greater(g.start, offset) <= Lesser(g.end, blockEnd)
                          /\ ReachedBefore(g, g.index) = Greater(g.start, offset)
                          /\ ReachedBefore(g, g.index + 1) = Lesser(g.end, blockEnd) + 1
  BY <1>3, <1>4, <1>5, <1>6 DEF Greater, Lesser
<1> QED
  BY <1>1, <1>3, <1>5, <1>7, <1>8

----------------------------------------------------------------------------
(* Every step keeps the invariant.                                         *)

\* What the invariant says of one reader.
LEMMA ReaderFacts ==
    ASSUME ReadInv, NEW r \in Req
    PROVE  /\ get \in [Req -> Reader] /\ get[r] \in Reader /\ ReaderOK(get[r])
           /\ get[r].index <= Len(get[r].layout) + 1
BY DEF ReadInv, ReadTypeOK

\* Uploads take and give back admission permits.
LEMMA UploadsInv ==
    ASSUME ReadInv, UploadAdmitted \/ UploadEnds PROVE ReadInv'
<1>1. /\ UNCHANGED get /\ writers' \in Nat /\ writers \in Nat
      /\ writers' <= writers \/ (writers' = writers + 1 /\ Permits < MaxTransfers)
  BY DEF UploadAdmitted, UploadEnds, ReadInv, ReadTypeOK
<1>2. Reading' = Reading /\ Downloading' = Downloading /\ Cardinality(Reading) \in Nat
  BY <1>1, FS_CardinalityType DEF Reading, Downloading, ReadInv
<1>3. Permits' <= MaxTransfers
  BY <1>1, <1>2, LimitsAssumption DEF Permits, ReadInv
<1> QED
  BY <1>1, <1>2, <1>3 DEF ReadInv, ReadTypeOK

\* GetObject (get_object) keeps the invariant.
LEMMA GetObjectInv ==
    ASSUME ReadInv, NEW r \in Req, NEW l \in Layout, NEW h \in Header, GetObject(r, l, h),
           UNCHANGED writers
    PROVE  ReadInv'
<1>1. PICK range, pc : /\ range = ParseRange(h, ObjectSize(l))
                       /\ pc = CASE ~range.valid -> "refused"
                                 [] range.valid /\ l = <<>> -> "done"
                                 [] OTHER -> "admit"
  OBVIOUS
<1>2. PICK k : k = [Nothing EXCEPT !.layout = l, !.header = h, !.start = range.start,
                                   !.end = range.end, !.pc = pc]
  OBVIOUS
<1>3. get' = [get EXCEPT ![r] = k]
  BY <1>1, <1>2 DEF GetObject
<1>4. h \in AnyHeader /\ ObjectSize(l) \in Nat /\ (ObjectSize(l) = 0 <=> l = <<>>) /\ l \in Seq(Nat)
  BY HeaderAssumption, Blocks
<1>5. /\ range.valid \in BOOLEAN /\ range.start \in Int /\ range.end \in Int
      /\ l = <<>> => range.valid /\ range.start = 0 /\ range.end = -1
  BY <1>1, <1>4, RangeOfRequest
<1>6. /\ pc \in {"refused", "done", "admit"}
      /\ pc = "refused" <=> ~range.valid
      /\ pc = "done" => range.valid /\ l = <<>>
      /\ pc = "admit" => l # <<>>
  BY <1>1, <1>5
<1>7. /\ k.pc = pc /\ k.layout = l /\ k.header = h /\ k.start = range.start /\ k.end = range.end
      /\ k.index = 1 /\ k.slot = FALSE /\ k.out = <<>>
      /\ k.pos = 0 /\ k.stop = 0 /\ k.skip = 0 /\ k.remaining = 0
  BY <1>2 DEF Nothing
<1>8. k \in Reader
  <2>1. pc \in {"idle"} \cup Waiting \cup Answered
    BY <1>6 DEF Waiting, Answered
  <2> QED
    BY <1>2, <1>4, <1>5, <2>1, NothingReads DEF Reader, Nothing
<1>9. ReaderOK(k)
  <2>1. Len(k.out) = 0 /\ FirstByte(k) \in Nat
    BY <1>5, <1>7 DEF FirstByte, Greater
  <2>2. k.pc = "done" => FirstByte(k) + Len(k.out) = k.end + 1
    <3> SUFFICES ASSUME k.pc = "done" PROVE FirstByte(k) + Len(k.out) = k.end + 1
      OBVIOUS
    <3>1. k.start = 0 /\ k.end = -1
      BY <1>5, <1>6, <1>7
    <3>2. FirstByte(k) = 0
      BY <3>1 DEF FirstByte, Greater
    <3> QED
      BY <2>1, <3>1, <3>2
  <2>3. FirstByte(k) + Len(k.out) = ReachedBefore(k, k.index)
    BY <1>5, <1>7, <2>1 DEF ReachedBefore, BlockOffset, Greater, Lesser
  <2> QED
    BY <1>1, <1>6, <1>7, <2>1, <2>2, <2>3 DEF ReaderOK, Waiting, Admitted
<1>10. k.index <= Len(k.layout) + 1 /\ k.pc \notin Admitted /\ ~k.slot
  BY <1>4, <1>6, <1>7 DEF Admitted
<1> QED
  BY <1>3, <1>8, <1>9, <1>10, ReaderFrame

\* Admit (AdmissionController::acquire) keeps the invariant.
LEMMA AdmitInv == ASSUME ReadInv, NEW r \in Req, Admit(r), UNCHANGED writers PROVE ReadInv'
<1>1. PICK g, k : g = get[r] /\ k = [get[r] EXCEPT !.pc = "next"]
  OBVIOUS
<1>2. g \in Reader /\ ReaderOK(g) /\ g.pc = "admit" /\ Permits < MaxTransfers
  BY <1>1, ReaderFacts DEF Admit
<1>3. get' = [get EXCEPT ![r] = k]
  BY <1>1, ReaderFacts DEF Admit
<1>4. /\ k \in Reader /\ k.pc = "next" /\ k.index = g.index /\ k.slot = g.slot
      /\ k.layout = g.layout /\ k.header = g.header /\ k.start = g.start /\ k.end = g.end
      /\ k.out = g.out
  BY <1>1, <1>2 DEF Reader, Waiting, Admitted
<1>5. ReaderOK(k)
  BY <1>2, <1>4, SamePiece DEF ReaderOK, Waiting, Admitted
<1>6. ~k.slot /\ k.index <= Len(k.layout) + 1
  BY <1>1, <1>2, <1>4, ReaderFacts DEF ReaderOK
<1> QED
  BY <1>2, <1>3, <1>4, <1>5, <1>6, ReaderFrame

\* SlowDown (AdmissionController::acquire) keeps the invariant.
LEMMA SlowDownInv == ASSUME ReadInv, NEW r \in Req, SlowDown(r), UNCHANGED writers PROVE ReadInv'
<1>1. PICK g, k : g = get[r] /\ k = [get[r] EXCEPT !.pc = "slowdown"]
  OBVIOUS
<1>2. g \in Reader /\ ReaderOK(g) /\ g.pc = "admit"
  BY <1>1, ReaderFacts DEF SlowDown
<1>3. get' = [get EXCEPT ![r] = k]
  BY <1>1, ReaderFacts DEF SlowDown
<1>4. /\ k \in Reader /\ k.pc = "slowdown" /\ k.index = g.index /\ k.slot = g.slot
      /\ k.layout = g.layout /\ k.header = g.header /\ k.start = g.start /\ k.end = g.end
      /\ k.out = g.out
  BY <1>1, <1>2 DEF Reader, Answered
<1>5. ReaderOK(k)
  BY <1>2, <1>4, SamePiece DEF ReaderOK, Waiting
<1>6. ~k.slot /\ k.index <= Len(k.layout) + 1 /\ k.pc \notin Admitted
  BY <1>1, <1>2, <1>4, ReaderFacts DEF ReaderOK, Admitted
<1> QED
  BY <1>3, <1>4, <1>5, <1>6, ReaderFrame

\* SkipBlock (range_stream) keeps the invariant.
LEMMA SkipBlockInv ==
    ASSUME ReadInv, NEW r \in Req, SkipBlock(r), UNCHANGED writers PROVE ReadInv'
<1>1. PICK g, k : g = get[r] /\ k = [get[r] EXCEPT !.index = get[r].index + 1]
  OBVIOUS
<1>2. /\ g \in Reader /\ ReaderOK(g) /\ g.pc = "next" /\ g.index <= Len(g.layout)
      /\ OutsideRange(g)
  BY <1>1, ReaderFacts DEF SkipBlock
<1>3. get' = [get EXCEPT ![r] = k]
  BY <1>1, ReaderFacts DEF SkipBlock
<1>4. /\ k \in Reader /\ k.pc = "next" /\ k.index = g.index + 1 /\ k.slot = g.slot
      /\ k.layout = g.layout /\ k.header = g.header /\ k.start = g.start /\ k.end = g.end
      /\ k.out = g.out
  <2>1. g.index \in Nat /\ g.index + 1 \in Nat \ {0}
    BY <1>2 DEF Reader
  <2>2. k = [g EXCEPT !.index = g.index + 1]
    BY <1>1
  <2> QED
    BY <1>2, <2>1, <2>2 DEF Reader
<1>5. FirstByte(g) + Len(g.out) = ReachedBefore(g, k.index)
  BY <1>2, <1>4, BlockStep DEF ReaderOK
<1>6. ReaderOK(k)
  BY <1>2, <1>4, <1>5, SamePiece DEF ReaderOK, Waiting, Admitted
<1>7. k.index <= Len(k.layout) + 1 /\ ~k.slot /\ g.pc \in Admitted
  BY <1>2, <1>4, StreamFacts DEF Reader, Admitted, ReaderOK
<1> QED
  BY <1>1, <1>3, <1>4, <1>6, <1>7, ReaderFrame

\* NextBlock (range_stream) keeps the invariant.
LEMMA NextBlockInv ==
    ASSUME ReadInv, NEW r \in Req, NextBlock(r), UNCHANGED writers PROVE ReadInv'
<1>1. PICK g, k : g = get[r] /\ k = [get[r] EXCEPT !.pc = "slot"]
  OBVIOUS
<1>2. /\ g \in Reader /\ ReaderOK(g) /\ g.pc = "next" /\ g.index <= Len(g.layout)
      /\ ~OutsideRange(g)
  BY <1>1, ReaderFacts DEF NextBlock
<1>3. get' = [get EXCEPT ![r] = k]
  BY <1>1, ReaderFacts DEF NextBlock
<1>4. /\ k \in Reader /\ k.pc = "slot" /\ k.index = g.index /\ k.slot = g.slot
      /\ k.layout = g.layout /\ k.header = g.header /\ k.start = g.start /\ k.end = g.end
      /\ k.out = g.out
  BY <1>1, <1>2 DEF Reader, Waiting, Admitted
<1>5. k.index <= Len(k.layout) /\ ~OutsideRange(k)
  BY <1>2, <1>4 DEF OutsideRange
<1>6. ReaderOK(k)
  BY <1>2, <1>4, <1>5, SamePiece DEF ReaderOK, Waiting, Admitted
<1>7. k.index <= Len(k.layout) + 1 /\ ~k.slot /\ g.pc \in Admitted
  BY <1>1, <1>2, <1>4, ReaderFacts DEF Admitted, ReaderOK
<1> QED
  BY <1>1, <1>3, <1>4, <1>6, <1>7, ReaderFrame

\* All blocks have been visited, and the last one ends after the range.
LEMMA StreamEndsInv ==
    ASSUME ReadInv, NEW r \in Req, StreamEnds(r), UNCHANGED writers PROVE ReadInv'
<1>1. PICK g, k : g = get[r] /\ k = [get[r] EXCEPT !.pc = "done"]
  OBVIOUS
<1>2. /\ g \in Reader /\ ReaderOK(g) /\ g.pc = "next" /\ g.index > Len(g.layout)
      /\ g.index <= Len(g.layout) + 1
  BY <1>1, ReaderFacts DEF StreamEnds
<1>3. get' = [get EXCEPT ![r] = k]
  BY <1>1, ReaderFacts DEF StreamEnds
<1>4. /\ k \in Reader /\ k.pc = "done" /\ k.index = g.index /\ k.slot = g.slot
      /\ k.layout = g.layout /\ k.header = g.header /\ k.start = g.start /\ k.end = g.end
      /\ k.out = g.out
  BY <1>1, <1>2 DEF Reader, Answered
<1>5. FirstByte(g) + Len(g.out) = g.end + 1
  <2>1. g.layout \in Layout /\ g.layout # <<>> /\ Len(g.layout) \in Nat
    BY <1>2, StreamFacts, Blocks DEF ReaderOK, Waiting, Admitted
  <2>2. g.index = Len(g.layout) + 1
    BY <1>2, <2>1 DEF Reader
  <2>3. BlockOffset(g.layout, g.index) = ObjectSize(g.layout) /\ ObjectSize(g.layout) \in Nat
    BY <2>1, <2>2, Blocks
  <2>4. /\ g.end \in Int /\ g.end < ObjectSize(g.layout) /\ FirstByte(g) \in Nat
        /\ FirstByte(g) <= g.end + 1
    BY <1>2, StreamFacts
  <2>5. ReachedBefore(g, g.index) = g.end + 1
    BY <2>3, <2>4 DEF ReachedBefore, Greater, Lesser
  <2> QED
    BY <1>2, <2>5 DEF ReaderOK
<1>6. ReaderOK(k)
  BY <1>2, <1>4, <1>5, SamePiece DEF ReaderOK, Waiting, Admitted
<1>7. k.index <= Len(k.layout) + 1 /\ ~k.slot /\ g.pc \in Admitted
  BY <1>2, <1>4 DEF Admitted, ReaderOK
<1> QED
  BY <1>1, <1>3, <1>4, <1>6, <1>7, ReaderFrame

\* TakeSlot (range_stream) keeps the invariant.
LEMMA TakeSlotInv == ASSUME ReadInv, NEW r \in Req, TakeSlot(r), UNCHANGED writers PROVE ReadInv'
<1>1. PICK g, k : g = get[r] /\ k = [get[r] EXCEPT !.pc = "open", !.slot = TRUE]
  OBVIOUS
<1>2. g \in Reader /\ ReaderOK(g) /\ g.pc = "slot" /\ Cardinality(Downloading) < Slots
  BY <1>1, ReaderFacts DEF TakeSlot
<1>3. get' = [get EXCEPT ![r] = k]
  BY <1>1, ReaderFacts DEF TakeSlot
<1>4. /\ k \in Reader /\ k.pc = "open" /\ k.index = g.index /\ k.slot = TRUE
      /\ k.layout = g.layout /\ k.header = g.header /\ k.start = g.start /\ k.end = g.end
      /\ k.out = g.out
  BY <1>1, <1>2 DEF Reader, Waiting, Admitted
<1>5. k.index <= Len(k.layout) /\ ~OutsideRange(k)
  BY <1>2, <1>4 DEF OutsideRange, ReaderOK
<1>6. ReaderOK(k)
  BY <1>2, <1>4, <1>5, SamePiece DEF ReaderOK, Waiting, Admitted
<1>7. k.index <= Len(k.layout) + 1 /\ g.pc \in Admitted
  BY <1>1, <1>2, <1>4, ReaderFacts DEF Admitted
<1> QED
  BY <1>1, <1>2, <1>3, <1>4, <1>6, <1>7, ReaderFrame

\* The reader gives up, or its client leaves.
LEMMA EndsInv ==
    ASSUME ReadInv, NEW r \in Req, OpenFails(r) \/ SourceFails(r) \/ Leave(r), UNCHANGED writers
    PROVE  ReadInv'
<1>1. PICK pc \in {"failed", "gone"} :
          get[r].pc \in Waiting /\ get' = [get EXCEPT ![r] = [get[r] EXCEPT !.pc = pc, !.slot = FALSE]]
  <2>1. CASE OpenFails(r) \/ SourceFails(r)
    BY <2>1 DEF OpenFails, SourceFails, Fail, Waiting, Admitted
  <2>2. CASE Leave(r)
    <3>1. get' = [get EXCEPT ![r] = [get[r] EXCEPT !.pc = "gone", !.slot = FALSE]]
      BY <2>2, ReaderFacts DEF Leave
    <3> QED
      BY <2>2, <3>1 DEF Leave
  <2> QED
    BY <2>1, <2>2
<1>2. PICK g, k : g = get[r] /\ k = [get[r] EXCEPT !.pc = pc, !.slot = FALSE]
  OBVIOUS
<1>3. g \in Reader /\ ReaderOK(g) /\ g.pc \in Waiting
  BY <1>1, <1>2, ReaderFacts
<1>4. /\ k \in Reader /\ k.pc = pc /\ k.index = g.index /\ k.slot = FALSE
      /\ k.layout = g.layout /\ k.header = g.header /\ k.start = g.start /\ k.end = g.end
      /\ k.out = g.out
  BY <1>2, <1>3 DEF Reader, Answered
<1>5. ReaderOK(k)
  BY <1>3, <1>4, SamePiece
<1>6. k.index <= Len(k.layout) + 1 /\ k.pc \notin Admitted
  BY <1>2, <1>4, ReaderFacts DEF Admitted
<1> QED
  BY <1>1, <1>2, <1>4, <1>5, <1>6, ReaderFrame

\* BlockDone (range_stream) keeps the invariant.
LEMMA BlockDoneInv ==
    ASSUME ReadInv, NEW r \in Req, BlockDone(r), UNCHANGED writers PROVE ReadInv'
<1>1. PICK g, k : g = get[r] /\ k = [get[r] EXCEPT !.pc = "next", !.slot = FALSE]
  OBVIOUS
<1>2. g \in Reader /\ ReaderOK(g) /\ g.pc = "read" /\ g.remaining = 0
  BY <1>1, ReaderFacts DEF BlockDone
<1>3. get' = [get EXCEPT ![r] = k]
  BY <1>1 DEF BlockDone, Release
<1>4. /\ k \in Reader /\ k.pc = "next" /\ k.index = g.index /\ k.slot = FALSE
      /\ k.layout = g.layout /\ k.header = g.header /\ k.start = g.start /\ k.end = g.end
      /\ k.out = g.out
  BY <1>1, <1>2 DEF Reader, Waiting, Admitted
<1>5. FirstByte(g) + Len(g.out) = ReachedBefore(g, k.index)
  <2>1. FirstByte(g) + Len(g.out) \in Int
    BY <1>2, StreamFacts
  <2> QED
    BY <1>2, <1>4, <2>1 DEF ReaderOK
<1>6. ReaderOK(k)
  BY <1>2, <1>4, <1>5, SamePiece DEF Waiting, Admitted
<1>7. k.index <= Len(k.layout) + 1 /\ g.pc \in Admitted
  BY <1>1, <1>2, <1>4, ReaderFacts DEF Admitted
<1> QED
  BY <1>1, <1>3, <1>4, <1>6, <1>7, ReaderFrame

\* The source starts with the range, with the block, or with a chunk.
LEMMA OpenInv == ASSUME ReadInv, NEW r \in Req, Open(r), UNCHANGED writers PROVE ReadInv'
<1> DEFINE g == get[r]
           offset == BlockOffset(g.layout, g.index)
           blockEnd == BlockEnd(g.layout, g.index)
           first == Greater(g.start, offset)
           last == Lesser(g.end, blockEnd)
           aligned == offset + ((first - offset) \div Align) * Align
           Opened(pos, stop) == [g EXCEPT !.pc = "read", !.index = g.index + 1,
                                   !.pos = pos, !.stop = stop,
                                   !.skip = first - pos, !.remaining = last - first + 1]
<1>1. \E s \in {<<first, last>>, <<offset, blockEnd>>, <<aligned, blockEnd>>} :
          get' = [get EXCEPT ![r] = Opened(s[1], s[2] + 1)]
  BY DEF Open
<1>2. /\ g \in Reader /\ ReaderOK(g) /\ g.pc = "open"
      /\ g.index <= Len(g.layout) /\ ~OutsideRange(g)
  BY ReaderFacts DEF Open, ReaderOK
<1>3. /\ offset \in Nat /\ blockEnd \in Nat /\ offset <= blockEnd /\ first <= last
      /\ ReachedBefore(g, g.index) = first /\ ReachedBefore(g, g.index + 1) = last + 1
  BY <1>2, BlockStep
<1>4. /\ g.start \in Int /\ g.end \in Int /\ first \in Nat /\ last \in Nat
      /\ offset <= first /\ last <= blockEnd
  BY <1>2, <1>3, StreamFacts DEF Greater, Lesser
<1>5. g = get[r]
  OBVIOUS
<1> HIDE DEF g, offset, blockEnd, first, last
<1>6. aligned \in Nat /\ aligned <= first
  <2>1. first - offset \in Nat /\ Align \in Nat \ {0}
    BY <1>3, <1>4, LimitsAssumption
  <2>2. PICK chunks : chunks = (first - offset) \div Align
    OBVIOUS
  <2>3. chunks \in Nat /\ chunks * Align \in Nat /\ chunks * Align <= first - offset
    BY <2>1, <2>2
  <2> QED
    BY <1>3, <1>4, <2>2, <2>3
<1> HIDE DEF aligned
<1>7. PICK pos, stop : /\ pos \in Nat /\ stop \in Nat /\ pos <= first /\ last + 1 <= stop
                       /\ get' = [get EXCEPT ![r] = Opened(pos, stop)]
  <2> HIDE DEF Opened
  <2>1. PICK s \in {<<first, last>>, <<offset, blockEnd>>, <<aligned, blockEnd>>} :
            get' = [get EXCEPT ![r] = Opened(s[1], s[2] + 1)]
    BY <1>1
  <2>2. /\ s[1] \in Nat /\ s[2] + 1 \in Nat /\ s[1] <= first /\ last + 1 <= s[2] + 1
    BY <1>3, <1>4, <1>6, <2>1
  <2> QED
    BY <2>1, <2>2
<1>8. PICK k : k = Opened(pos, stop)
  OBVIOUS
<1>9. g.index + 1 \in Nat \ {0} /\ first - pos \in Nat /\ last - first + 1 \in Nat
  <2>1. g.index \in Nat \ {0}
    BY <1>2 DEF Reader
  <2> QED
    BY <1>3, <1>4, <1>7, <2>1
<1>10. /\ k \in Reader /\ k.pc = "read" /\ k.index = g.index + 1 /\ k.slot = g.slot
       /\ k.layout = g.layout /\ k.header = g.header /\ k.start = g.start /\ k.end = g.end
       /\ k.out = g.out
       /\ k.pos = pos /\ k.stop = stop /\ k.skip = first - pos
       /\ k.remaining = last - first + 1
  BY <1>2, <1>7, <1>8, <1>9 DEF Reader, Waiting, Admitted
<1>11. FirstByte(g) + Len(g.out) = first
  BY <1>2, <1>3 DEF ReaderOK
<1>12. /\ FirstByte(g) + Len(g.out) + k.remaining = ReachedBefore(g, k.index)
       /\ k.pos + k.skip = FirstByte(g) + Len(g.out)
       /\ k.pos + k.skip + k.remaining <= k.stop
  BY <1>3, <1>4, <1>7, <1>10, <1>11
<1>13. ReaderOK(k)
  BY <1>2, <1>10, <1>12, SamePiece DEF ReaderOK, Waiting, Admitted
<1>14. k.index <= Len(k.layout) + 1 /\ g.pc \in Admitted /\ g.slot
  BY <1>2, <1>10, StreamFacts DEF Admitted, ReaderOK, Reader
<1> QED
  BY <1>5, <1>7, <1>8, <1>10, <1>13, <1>14, ReaderFrame

\* What precedes a block lies within the range.
LEMMA ReachedInRange ==
    ASSUME NEW g \in Reader, ReaderOK(g), g.pc \notin {"idle", "refused"},
           g.index <= Len(g.layout) + 1
    PROVE  ReachedBefore(g, g.index) \in Nat /\ ReachedBefore(g, g.index) <= g.end + 1
<1>1. /\ g.layout \in Layout /\ g.end \in Int /\ FirstByte(g) \in Nat
      /\ FirstByte(g) <= g.end + 1
  BY StreamFacts
<1>2. BlockOffset(g.layout, g.index) \in Nat
  <2>1. g.layout \in Seq(Nat) /\ g.index \in Nat \ {0}
    BY <1>1, Blocks DEF Reader
  <2>2. g.index = 1 \/ g.index - 1 \in 1..Len(g.layout)
    BY <2>1
  <2> QED
    BY <2>1, <2>2 DEF BlockOffset
<1> QED
  BY <1>1, <1>2 DEF ReachedBefore, Greater, Lesser

\* All of a chunk comes before the range.
LEMMA SkippedOK ==
    ASSUME NEW g \in Reader, ReaderOK(g), g.pc = "read", NEW n \in Nat \ {0},
           g.pos + n <= g.stop, g.remaining > 0, g.skip >= n,
           NEW k, k = [g EXCEPT !.pos = g.pos + n, !.skip = g.skip - n]
    PROVE  /\ k \in Reader /\ ReaderOK(k) /\ k.pc = g.pc /\ k.slot = g.slot
           /\ k.index = g.index /\ k.layout = g.layout
<1>1. /\ g.pos \in Nat /\ g.stop \in Nat /\ g.skip \in Nat /\ g.remaining \in Nat
      /\ FirstByte(g) + Len(g.out) \in Int
  BY StreamFacts DEF Reader
<1>2. g.pos + n \in Nat /\ g.skip - n \in Nat
  BY <1>1
<1>3. /\ k \in Reader /\ k.pc = g.pc /\ k.index = g.index /\ k.slot = g.slot
      /\ k.layout = g.layout /\ k.header = g.header /\ k.start = g.start /\ k.end = g.end
      /\ k.out = g.out /\ k.pos = g.pos + n /\ k.stop = g.stop /\ k.skip = g.skip - n
      /\ k.remaining = g.remaining
  BY <1>2 DEF Reader
<1>4. /\ FirstByte(g) + Len(g.out) + k.remaining = ReachedBefore(g, k.index)
      /\ k.pos + k.skip = FirstByte(g) + Len(g.out)
      /\ k.pos + k.skip + k.remaining <= k.stop
  BY <1>1, <1>3 DEF ReaderOK
<1>5. ReaderOK(k)
  <2>1. g.pc \in Waiting /\ g.slot
    BY DEF ReaderOK, Waiting, Admitted
  <2>2. /\ k.slot <=> k.pc \in {"open", "read"}
        /\ k.pc \notin {"idle", "refused", "admit", "next", "slot", "open", "done"}
    BY <1>3, <2>1
  <2> QED
    BY <1>3, <1>4, <2>1, <2>2, SamePiece
<1> QED
  BY <1>3, <1>5

\* Where the bytes of two sequences stand in their concatenation.
LEMMA Appended ==
    ASSUME NEW s, NEW u, NEW t, s \in Seq(Nat), u \in Seq(Nat), t = s \o u
    PROVE  /\ t \in Seq(Nat) /\ Len(t) \in Nat /\ Len(t) = Len(s) + Len(u)
           /\ \A i \in 1..Len(s) : t[i] = s[i]
           /\ \A i \in (Len(s) + 1)..Len(t) : t[i] = u[i - Len(s)]
OBVIOUS

\* A reader that passed on a chunk.
LEMMA DeliveredReader ==
    ASSUME NEW g \in Reader, NEW pos \in Nat, NEW rest \in Nat, NEW out \in Seq(Nat)
    PROVE  [g EXCEPT !.pos = pos, !.skip = 0, !.remaining = rest, !.out = out] \in Reader
BY DEF Reader

\* The bytes of a chunk that are passed on follow those already sent.
LEMMA DeliveredOK ==
    ASSUME NEW g \in Reader, NEW n \in Nat \ {0}, NEW k
    PROVE  /\ ReaderOK(g) /\ g.pc = "read" /\ g.index <= Len(g.layout) + 1
           /\ g.pos + n <= g.stop /\ g.remaining > 0 /\ g.skip < n
           /\ k = Deliver(g, n)
           => /\ k \in Reader /\ ReaderOK(k) /\ k.pc = g.pc /\ k.slot = g.slot
              /\ k.index = g.index /\ k.layout = g.layout
<1>0. SUFFICES ASSUME ReaderOK(g), g.pc = "read", g.index <= Len(g.layout) + 1,
                      g.pos + n <= g.stop, g.remaining > 0, g.skip < n, k = Deliver(g, n)
               PROVE  /\ k \in Reader /\ ReaderOK(k) /\ k.pc = g.pc /\ k.slot = g.slot
                      /\ k.index = g.index /\ k.layout = g.layout
  OBVIOUS
<1>1. PICK from, count : from = g.pos + g.skip /\ count = Lesser(g.remaining, n - g.skip)
  OBVIOUS
<1>2. PICK new, out : new = [i \in 1..count |-> from + i - 1] /\ out = g.out \o new
  OBVIOUS
<1>3. k = [g EXCEPT !.pos = g.pos + n, !.skip = 0, !.remaining = g.remaining - count,
                    !.out = out]
  BY <1>0, <1>1, <1>2 DEF Deliver
<1>4. /\ g.pos \in Nat /\ g.stop \in Nat /\ g.skip \in Nat /\ g.remaining \in Nat
      /\ g.out \in Seq(Nat) /\ Len(g.out) \in Nat /\ FirstByte(g) \in Nat /\ g.end \in Int
      /\ FirstByte(g) <= g.end + 1
  <2>1. /\ g.pos \in Nat /\ g.stop \in Nat /\ g.skip \in Nat /\ g.remaining \in Nat
        /\ g.out \in Seq(Nat) /\ Len(g.out) \in Nat
    BY DEF Reader
  <2>2. g.pc \notin {"idle", "refused"}
    BY <1>0
  <2> QED
    BY <1>0, <2>1, <2>2, StreamFacts
<1>5. /\ count \in Nat \ {0} /\ count <= g.remaining
      /\ count = g.remaining \/ count = n - g.skip
  <2>1. n - g.skip \in Nat \ {0} /\ g.remaining \in Nat \ {0}
    BY <1>0, <1>4
  <2> QED
    BY <1>1, <2>1 DEF Lesser
<1>6. from \in Nat /\ g.pos + n \in Nat /\ g.remaining - count \in Nat
  <2>1. from \in Nat
    BY <1>1, <1>4
  <2>2. g.pos + n \in Nat
    BY <1>4
  <2>3. g.remaining - count \in Nat
    BY <1>4, <1>5
  <2> QED
    BY <2>1, <2>2, <2>3
<1>7. new \in Seq(Nat) /\ Len(new) = count /\ \A i \in 1..count : new[i] = from + i - 1
  <2>1. new \in [1..count -> Nat]
    BY <1>2, <1>5, <1>6
  <2> QED
    BY <1>2, <1>5, <2>1
<1>8. out \in Seq(Nat) /\ Len(out) \in Nat /\ Len(out) = Len(g.out) + count
  <2>1. g.out \in Seq(Nat) /\ new \in Seq(Nat) /\ out = g.out \o new
    BY <1>2, <1>4, <1>7
  <2>2. out \in Seq(Nat) /\ Len(out) \in Nat /\ Len(out) = Len(g.out) + Len(new)
    BY <2>1, Appended
  <2> QED
    BY <1>7, <2>2
<1>9. /\ \A i \in 1..Len(g.out) : out[i] = g.out[i]
      /\ \A i \in (Len(g.out) + 1)..Len(out) : out[i] = new[i - Len(g.out)]
  <2>1. g.out \in Seq(Nat) /\ new \in Seq(Nat) /\ out = g.out \o new
    BY <1>2, <1>4, <1>7
  <2> QED
    BY <2>1, Appended
<1>10. /\ k.pc = g.pc /\ k.index = g.index /\ k.slot = g.slot
       /\ k.layout = g.layout /\ k.header = g.header /\ k.start = g.start /\ k.end = g.end
       /\ k.out = out /\ k.pos = g.pos + n /\ k.stop = g.stop /\ k.skip = 0
       /\ k.remaining = g.remaining - count
  BY <1>3 DEF Reader
<1>11. k \in Reader
  <2>1. PICK pos, rest : pos = g.pos + n /\ rest = g.remaining - count
    OBVIOUS
  <2>2. k = [g EXCEPT !.pos = pos, !.skip = 0, !.remaining = rest, !.out = out]
    BY <1>3, <2>1
  <2>3. pos \in Nat /\ rest \in Nat
    BY <1>6, <2>1
  <2> QED
    BY <1>8, <2>2, <2>3, DeliveredReader
<1>12. FirstByte(k) = FirstByte(g) /\ ReachedBefore(k, k.index) = ReachedBefore(g, g.index)
  BY <1>10 DEF FirstByte, ReachedBefore
<1>13. PICK before, reached, limit : /\ before = FirstByte(g) + Len(g.out)
                                     /\ reached = FirstByte(k) + Len(k.out)
                                     /\ limit = ReachedBefore(g, g.index)
  OBVIOUS
<1>14. /\ from = before /\ before + g.remaining = limit
       /\ \A i \in 1..Len(g.out) : g.out[i] = FirstByte(g) + i - 1
  BY <1>0, <1>1, <1>13 DEF ReaderOK
<1>15. before \in Nat /\ reached = before + count
  <2>1. FirstByte(k) = FirstByte(g) /\ Len(k.out) = Len(g.out) + count
    BY <1>8, <1>10, <1>12
  <2>2. before \in Nat /\ count \in Nat
    BY <1>4, <1>5, <1>13
  <2> QED
    BY <1>4, <1>13, <2>1, <2>2
<1>16. \A i \in 1..Len(k.out) : k.out[i] = FirstByte(k) + i - 1
  <2> SUFFICES ASSUME NEW i \in 1..Len(out) PROVE out[i] = FirstByte(g) + i - 1
    BY <1>10, <1>12
  <2>1. CASE i \in 1..Len(g.out)
    BY <1>9, <1>14, <2>1
  <2>2. CASE i \in (Len(g.out) + 1)..Len(out)
    <3>1. PICK d : d = i - Len(g.out)
      OBVIOUS
    <3>2. d \in 1..count /\ i = d + Len(g.out)
      BY <1>4, <1>5, <1>8, <2>2, <3>1
    <3>3. out[i] = from + d - 1
      BY <1>7, <1>9, <2>2, <3>1, <3>2
    <3> QED
      BY <1>4, <1>13, <1>14, <3>2, <3>3
  <2> QED
    BY <1>4, <1>8, <2>1, <2>2
<1>17. reached + k.remaining = ReachedBefore(k, k.index) /\ k.remaining \in Nat
  <2>1. k.remaining = g.remaining - count /\ k.remaining \in Nat
    BY <1>6, <1>10
  <2>2. reached = before + count /\ before + g.remaining = limit
    BY <1>14, <1>15
  <2>3. before \in Nat /\ count \in Nat /\ g.remaining \in Nat
    BY <1>4, <1>5, <1>15
  <2>4. reached + k.remaining = limit
    BY <2>1, <2>2, <2>3
  <2> QED
    BY <1>12, <1>13, <2>1, <2>4
<1>18. k.pos + k.skip + k.remaining <= k.stop
  <2>1. k.pos = g.pos + n /\ k.skip = 0 /\ k.remaining = g.remaining - count /\ k.stop = g.stop
    BY <1>10
  <2>2. g.pos + g.skip + g.remaining <= g.stop /\ g.pos + n <= g.stop
    BY <1>0 DEF ReaderOK
  <2>3. CASE count = g.remaining
    BY <1>4, <2>1, <2>2, <2>3
  <2>4. CASE count = n - g.skip
    BY <1>4, <2>1, <2>2, <2>4
  <2> QED
    BY <1>5, <2>3, <2>4
<1>19. k.remaining > 0 => k.pos + k.skip = reached
  <2> SUFFICES ASSUME k.remaining > 0 PROVE k.pos + k.skip = reached
    OBVIOUS
  <2>1. count = n - g.skip
    BY <1>4, <1>5, <1>10
  <2>2. k.pos = g.pos + n /\ k.skip = 0
    BY <1>10
  <2> QED
    BY <1>1, <1>4, <1>14, <1>15, <2>1, <2>2
<1>20. reached <= k.end + 1
  <2>1. limit \in Nat /\ limit <= g.end + 1
    BY <1>0, <1>13, ReachedInRange
  <2>2. k.end = g.end /\ reached + k.remaining = limit
    BY <1>10, <1>12, <1>13, <1>17
  <2> QED
    BY <1>4, <1>15, <1>17, <2>1, <2>2
<1> QED
  BY <1>0, <1>10, <1>11, <1>13, <1>16, <1>17, <1>18, <1>19, <1>20 DEF ReaderOK, Waiting, Admitted

\* Chunk (exact_range_stream) keeps the invariant.
LEMMA ChunkInv == ASSUME ReadInv, NEW r \in Req, Chunk(r), UNCHANGED writers PROVE ReadInv'
<1>1. PICK g : g = get[r]
  OBVIOUS
<1>2. /\ g \in Reader /\ ReaderOK(g) /\ g.pc = "read" /\ g.remaining > 0
      /\ g.index <= Len(g.layout) + 1
  BY <1>1, ReaderFacts DEF Chunk
<1>3. PICK n \in Nat \ {0} :
          /\ g.pos + n <= g.stop
          /\ get' = [get EXCEPT ![r] =
                       IF g.skip >= n THEN [g EXCEPT !.pos = g.pos + n, !.skip = g.skip - n]
                       ELSE Deliver(g, n)]
  <2>1. PICK n \in 1..MaxChunk :
            /\ g.pos + n <= g.stop
            /\ get' = [get EXCEPT ![r] =
                         IF g.skip >= n THEN [g EXCEPT !.pos = g.pos + n, !.skip = g.skip - n]
                         ELSE Deliver(g, n)]
    BY <1>1 DEF Chunk
  <2>2. n \in Nat \ {0}
    BY LimitsAssumption
  <2> QED
    BY <2>1, <2>2
<1>4. PICK k : k = IF g.skip >= n THEN [g EXCEPT !.pos = g.pos + n, !.skip = g.skip - n]
                   ELSE Deliver(g, n)
  OBVIOUS
<1>5. /\ k \in Reader /\ ReaderOK(k) /\ k.pc = g.pc /\ k.slot = g.slot
      /\ k.index = g.index /\ k.layout = g.layout
  <2>1. CASE g.skip >= n
    BY <1>2, <1>3, <1>4, <2>1, SkippedOK
  <2>2. CASE ~(g.skip >= n)
    <3>1. g.skip < n
      BY <1>2, <1>3, <2>2 DEF Reader
    <3> QED
      BY <1>2, <1>3, <1>4, <2>2, <3>1, DeliveredOK
  <2> QED
    BY <2>1, <2>2
<1>6. k.index <= Len(k.layout) + 1 /\ g.pc \in Admitted /\ (g.slot \/ ~k.slot)
  BY <1>2, <1>5 DEF Admitted, ReaderOK
<1> QED
  BY <1>1, <1>3, <1>4, <1>5, <1>6, ReaderFrame

\* Every step keeps the invariant.
LEMMA ReadNextInv == ReadInv /\ [ReadNext]_readVars => ReadInv'
<1> SUFFICES ASSUME ReadInv, [ReadNext]_readVars PROVE ReadInv'
  OBVIOUS
<1>1. CASE UNCHANGED readVars
  BY <1>1 DEF readVars, ReadInv, ReadTypeOK, Permits, Reading, Downloading
<1>2. CASE UploadAdmitted \/ UploadEnds
  BY <1>2, UploadsInv
<1>3. ASSUME NEW r \in Req, GetsPermit(r) \/ GetsSlot(r) PROVE ReadInv'
  BY <1>3, AdmitInv, SlowDownInv, TakeSlotInv DEF GetsPermit, GetsSlot
<1>4. ASSUME NEW r \in Req, ReadStep(r) PROVE ReadInv'
  BY <1>4, SkipBlockInv, NextBlockInv, StreamEndsInv, OpenInv, ChunkInv, BlockDoneInv
     DEF ReadStep
<1>5. ASSUME NEW r \in Req, UNCHANGED writers,
             \/ \E l \in Layout, h \in Header : GetObject(r, l, h)
             \/ OpenFails(r) \/ SourceFails(r) \/ Leave(r)
      PROVE  ReadInv'
  BY <1>5, GetObjectInv, EndsInv
<1> QED
  BY <1>1, <1>2, <1>3, <1>4, <1>5 DEF ReadNext

\* What has been sent of a body is always the piece of the object that comes
\* next, and the limits on transfers and downloads are kept (get_object,
\* range_stream, exact_range_stream, AdmissionController).
THEOREM ReadInvariant == ReadSpec => []ReadInv
<1>1. ReadInit => ReadInv
  BY ReadInitInv
<1>2. ReadInv /\ [ReadNext]_readVars => ReadInv'
  BY ReadNextInv
<1> QED
  BY <1>1, <1>2, PTL DEF ReadSpec

\* Who is refused has been sent nothing.
LEMMA RefusedIsEmpty ==
    ASSUME NEW g \in Reader, ReaderOK(g), g.pc \in {"idle", "refused"}
    PROVE  g.out = <<>>
<1>1. CASE g.pc = "idle"
  BY <1>1 DEF ReaderOK, Nothing
<1>2. CASE g.pc = "refused"
  <2>1. PICK size, range : size = ObjectSize(g.layout) /\ range = ParseRange(g.header, size)
    OBVIOUS
  <2>2. /\ g.layout \in Layout /\ g.header \in AnyHeader /\ ~range.valid
        /\ g.start = range.start /\ g.end = range.end
    BY <1>2, <2>1, HeaderAssumption DEF ReaderOK
  <2>3. range.start = 0 /\ range.end = -1
    BY <2>1, <2>2 DEF ParseRange, InvalidRange, ValidRange
  <2>4. FirstByte(g) = 0 /\ g.end = -1
    BY <2>2, <2>3 DEF FirstByte, Greater
  <2>5. g.out # <<>> => Len(g.out) \in Nat \ {0}
    BY DEF Reader
  <2> QED
    BY <2>4, <2>5 DEF ReaderOK
<1> QED
  BY <1>1, <1>2

\* The body counts the bytes requested one by one, whatever Telegram sends
\* (exact_range_stream).
THEOREM BodyAlwaysInOrder == ReadSpec => []BodyInOrder
<1>1. ReadInv => BodyInOrder
  <2> SUFFICES ASSUME ReadInv, NEW r \in Req, NEW g, g = get[r],
                      NEW wanted, wanted = Requested(g.header, ObjectSize(g.layout)),
                      NEW i \in 1..Len(g.out)
               PROVE  /\ g.out[i] \in wanted
                      /\ Cardinality({p \in wanted : p < g.out[i]}) = i - 1
    BY DEF BodyInOrder
  <2>1. g \in Reader /\ ReaderOK(g)
    BY ReaderFacts
  <2>2. g.pc \notin {"idle", "refused"}
    BY <2>1, RefusedIsEmpty
  <2>3. PICK first, end : first = FirstByte(g) /\ end = g.end
    OBVIOUS
  <2>4. /\ first \in Nat /\ end \in Int /\ wanted = first..end /\ Len(g.out) \in Nat
    BY <2>1, <2>2, <2>3, StreamFacts
  <2>5. g.out[i] = first + i - 1 /\ first + Len(g.out) <= end + 1
    <3>1. g.out # <<>>
      OBVIOUS
    <3> QED
      BY <2>1, <2>3, <3>1 DEF ReaderOK
  <2>6. PICK byte : byte = g.out[i]
    OBVIOUS
  <2>7. byte \in first..end /\ byte - first = i - 1 /\ i - 1 \in Nat
    BY <2>4, <2>5, <2>6
  <2>8. {p \in wanted : p < byte} = first..(byte - 1)
    BY <2>4, <2>7
  <2>9. Cardinality(first..(byte - 1)) = i - 1
    <3>1. PICK last : last = byte - 1
      OBVIOUS
    <3>2. last \in Int /\ last - first + 1 = i - 1 /\ (first > last => i - 1 = 0)
      BY <2>4, <2>7, <3>1
    <3>3. Cardinality(first..last) = IF first > last THEN 0 ELSE last - first + 1
      BY <2>4, <3>2, FS_Interval
    <3> QED
      BY <3>1, <3>2, <3>3
  <2> QED
    BY <2>4, <2>6, <2>7, <2>8, <2>9
<1> QED
  BY <1>1, ReadInvariant, PTL

\* A body that ends well is complete and as long as announced, and a refusal is
\* right (parse_range, range_stream).
THEOREM RangeAlwaysHonoured == ReadSpec => []RangeHonoured
<1>1. ReadInv => RangeHonoured
  <2> SUFFICES ASSUME ReadInv, NEW r \in Req, NEW g, g = get[r],
                      NEW size, size = ObjectSize(g.layout),
                      NEW wanted, wanted = Requested(g.header, size)
               PROVE  /\ g.pc = "done" =>
                             /\ Len(g.out) = Cardinality(wanted)
                             /\ \/ Len(g.out) = g.end - g.start + 1
                                \/ g.header.kind = "suffix" /\ g.header.a > size
                      /\ g.pc = "refused" => g.header.kind = "bad" \/ wanted = {}
    BY DEF RangeHonoured
  <2>1. g \in Reader /\ ReaderOK(g)
    BY ReaderFacts
  <2>2. CASE g.pc = "done"
    <3>1. PICK first : first = FirstByte(g)
      OBVIOUS
    <3>2. /\ first \in Nat /\ g.end \in Int /\ g.start \in Int /\ wanted = first..g.end
          /\ Len(g.out) \in Nat /\ first <= g.end + 1 /\ first = Greater(g.start, 0)
          /\ g.layout \in Layout /\ g.header \in AnyHeader
      BY <2>1, <2>2, <3>1, StreamFacts
    <3>3. first + Len(g.out) = g.end + 1
      BY <2>1, <2>2, <3>1 DEF ReaderOK
    <3>4. Cardinality(first..g.end) = Len(g.out)
      BY <3>2, <3>3, FS_Interval
    <3>5. CASE g.start >= 0
      <4>1. first = g.start
        BY <3>2, <3>5 DEF Greater
      <4>2. Len(g.out) = g.end - g.start + 1
        BY <3>2, <3>3, <4>1
      <4> QED
        BY <2>2, <3>2, <3>4, <4>2
    <3>6. CASE g.start < 0
      <4>1. size \in Nat /\ g.header \in AnyHeader
        BY <3>2, Blocks
      <4>2. PICK range : range = ParseRange(g.header, size)
        OBVIOUS
      <4>3. range.valid /\ range.start < 0
        BY <2>1, <2>2, <3>6, <4>2 DEF ReaderOK
      <4>4. g.header.kind = "suffix" /\ g.header.a > size
        BY <4>1, <4>2, <4>3, RangeOfRequest
      <4> QED
        BY <2>2, <3>2, <3>4, <4>4
    <3> QED
      BY <3>2, <3>5, <3>6
  <2>3. CASE g.pc = "refused"
    <3>1. PICK range : range = ParseRange(g.header, size)
      OBVIOUS
    <3>2. g.layout \in Layout /\ g.header \in AnyHeader /\ ~range.valid
      BY <2>1, <2>3, <3>1, HeaderAssumption DEF ReaderOK
    <3>3. size \in Nat
      BY <3>2, Blocks
    <3>4. g.header.kind = "bad" \/ wanted = {}
      BY <3>1, <3>2, <3>3, RangeOfRequest
    <3> QED
      BY <2>3, <3>4
  <2> QED
    BY <2>2, <2>3
<1> QED
  BY <1>1, ReadInvariant, PTL

----------------------------------------------------------------------------
(* Nobody waits in a circle.                                               *)

\* Who holds a slot goes on: it asks Telegram for the block, or its source has
\* the next byte.
LEMMA HoldersMove == ASSUME ReadInv, NEW h \in Downloading PROVE ReaderMoves(h)
<1>1. h \in Req /\ get[h].slot
  BY DEF Downloading
<1>2. get[h] \in Reader /\ ReaderOK(get[h]) /\ get[h].pc \in {"open", "read"}
  BY <1>1, ReaderFacts DEF ReaderOK
<1>3. CASE get[h].pc = "read" /\ get[h].remaining # 0
  <2>1. /\ get[h].pos \in Nat /\ get[h].stop \in Nat /\ get[h].skip \in Nat
        /\ get[h].remaining \in Nat
    BY <1>2 DEF Reader
  <2>2. get[h].pos + get[h].skip + get[h].remaining <= get[h].stop
    BY <1>2, <1>3 DEF ReaderOK
  <2>3. get[h].pos + 1 <= get[h].stop
    <3>1. PICK pos, stop, skip, rest : /\ pos = get[h].pos /\ stop = get[h].stop
                                       /\ skip = get[h].skip /\ rest = get[h].remaining
      OBVIOUS
    <3>2. pos + skip + rest <= stop /\ rest # 0 /\ {pos, stop, skip, rest} \subseteq Nat
      BY <1>3, <2>1, <2>2, <3>1
    <3>3. pos + 1 <= stop
      BY <3>2
    <3> QED
      BY <3>1, <3>3
  <2>4. 1 \in 1..MaxChunk
    BY LimitsAssumption
  <2> QED
    BY <1>3, <2>3, <2>4 DEF ReaderMoves
<1> QED
  BY <1>2, <1>3 DEF ReaderMoves

\* Whoever waits for a slot waits for readers that go on: no cycle of readers
\* holding one slot and waiting for another, and no reader short of bytes that
\* its source was never asked for (range_stream, download_stream).
THEOREM ReadersNeverDeadlocked == ReadSpec => []NoReaderStuck
<1>1. ReadInv => NoReaderStuck
  <2> SUFFICES ASSUME ReadInv, NEW r \in Req, get[r].pc \in Waiting
               PROVE  \/ ReaderMoves(r)
                      \/ /\ get[r].pc = "slot" /\ Downloading # {}
                         /\ \A h \in Downloading : ReaderMoves(h)
    BY DEF NoReaderStuck
  <2>1. CASE get[r].pc \in {"admit", "next", "open"}
    BY <2>1 DEF ReaderMoves
  <2>2. CASE get[r].pc = "read"
    <3>1. r \in Downloading
      BY <2>2, ReaderFacts DEF ReaderOK, Downloading
    <3> QED
      BY <3>1, HoldersMove
  <2>3. CASE get[r].pc = "slot"
    <3>1. CASE Cardinality(Downloading) < Slots
      BY <2>3, <3>1 DEF ReaderMoves
    <3>2. CASE ~(Cardinality(Downloading) < Slots)
      <4>1. Downloading # {}
        BY <3>2, FS_EmptySet, LimitsAssumption
      <4> QED
        BY <2>3, <4>1, HoldersMove
    <3> QED
      BY <3>1, <3>2
  <2> QED
    BY <2>1, <2>2, <2>3 DEF Waiting, Admitted
<1> QED
  BY <1>1, ReadInvariant, PTL

=============================================================================
