--------------------------- MODULE BandwidthProofs ---------------------------
(***************************************************************************)
(* Proofs that the backlog of a bandwidth schedule is exactly what was     *)
(* granted and that the schedule keeps the rate, for any number of         *)
(* transfers, any frame size, any limit and any length of the run.         *)
(***************************************************************************)
EXTENDS Bandwidth, FiniteSetTheorems, TLAPS

\* Grants are not empty and lie before next, so that a new one, which starts
\* at next or later, overlaps none; and nobody has read a later clock than
\* now, so that a gap a new grant leaves before it is over already.
GrantsBeforeNext == \A g \in granted : g.from < g.to /\ g.to <= next
ClocksRead ==
    \A t \in Transfer :
        /\ transfer[t].seen <= now
        /\ transfer[t].pc = "reserving" => transfer[t].frame >= 1

BandwidthInv == BandwidthTypeOK /\ GrantsBeforeNext /\ ClocksRead /\ BacklogIsGranted

USE FrameAssumption, WaitAssumption

\* At the start nothing is granted and nobody waits.
LEMMA BandwidthInitInv == BandwidthInit => BandwidthInv
  BY DEF BandwidthInit, BandwidthInv, BandwidthTypeOK, GrantsBeforeNext, ClocksRead,
         BacklogIsGranted, Disjoint, Reading

\* Only time passes: the instants still to come are fewer.
LEMMA TickInv == ASSUME BandwidthInv, Tick PROVE BandwidthInv'
<1>1. BandwidthTypeOK' /\ GrantsBeforeNext' /\ ClocksRead'
  BY DEF BandwidthInv, Tick, BandwidthTypeOK, GrantsBeforeNext, ClocksRead
<1>2. BacklogIsGranted'
  BY DEF BandwidthInv, BandwidthTypeOK, BacklogIsGranted, Disjoint, Tick
<1> QED  BY <1>1, <1>2 DEF BandwidthInv

\* A transfer moves on; the schedule stays.
LEMMA TransferInv ==
    ASSUME BandwidthInv, NEW t \in Transfer,
           ReadClock(t) \/ Refuse(t) \/ Pass(t) \/ Leave(t)
    PROVE  BandwidthInv'
<1> USE DEF BandwidthInv
<1>1. UNCHANGED <<direction, now, next, granted>> /\ passed' \in Nat
  BY DEF ReadClock, Refuse, Pass, Leave, BandwidthTypeOK
<1>2. \E r : /\ transfer' = [transfer EXCEPT ![t] = r]
             /\ r \in [pc : {"reading", "reserving", "sleeping"},
                       seen : Nat, frame : 0..MaxFrame, until : Nat]
             /\ r.seen <= now /\ (r.pc = "reserving" => r.frame >= 1)
  BY DEF ReadClock, Refuse, Pass, Leave, BandwidthTypeOK, Reading
<1>3. BandwidthTypeOK' /\ ClocksRead'
  BY <1>1, <1>2 DEF BandwidthTypeOK, ClocksRead
<1>4. GrantsBeforeNext' /\ BacklogIsGranted'
  BY <1>1 DEF GrantsBeforeNext, BacklogIsGranted, Disjoint
<1> QED  BY <1>3, <1>4

\* A reservation (reserve) keeps the invariant.
LEMMA GrantInv == ASSUME BandwidthInv, NEW t \in Transfer, Grant(t) PROVE BandwidthInv'
<1> DEFINE from == ReservedFrom(t)
           new == [from |-> from, to |-> from + transfer[t].frame]
<1> USE DEF BandwidthInv
<1>1. /\ transfer[t].seen \in Nat /\ transfer[t].frame \in Nat /\ transfer[t].frame >= 1
      /\ now \in Nat /\ next \in Nat /\ transfer[t].seen <= now
  BY DEF Grant, BandwidthTypeOK, ClocksRead
<1>2. from \in Nat /\ from >= next /\ from >= transfer[t].seen
      /\ (from = next \/ from = transfer[t].seen)
  BY <1>1 DEF ReservedFrom
<1>3. next' = from + transfer[t].frame /\ granted' = granted \cup {new} /\ now' = now
  BY DEF Grant
<1> HIDE DEF from
<1>4. BandwidthTypeOK' /\ ClocksRead'
  <2>1. now + WaitOf(t) \in Nat
    BY <1>1, <1>2 DEF WaitOf, from
  <2>2. new \in [from : Nat, to : Nat]
    BY <1>1, <1>2
  <2>3. transfer' = [transfer EXCEPT ![t].pc = "sleeping", ![t].until = now + WaitOf(t)]
    BY DEF Grant
  <2>4. UNCHANGED <<direction, passed>>
    BY DEF Grant
  <2>5. transfer' \in [Transfer -> [pc : {"reading", "reserving", "sleeping"},
                                   seen : Nat, frame : 0..MaxFrame, until : Nat]]
    BY <2>1, <2>3 DEF BandwidthTypeOK
  <2>6. ClocksRead'
    BY <1>3, <2>3 DEF BandwidthTypeOK, ClocksRead
  <2> QED  BY <1>1, <1>2, <1>3, <2>2, <2>4, <2>5, <2>6 DEF BandwidthTypeOK
<1>5. GrantsBeforeNext'
  <2> SUFFICES ASSUME NEW g \in granted' PROVE g.from < g.to /\ g.to <= next'
    BY DEF GrantsBeforeNext
  <2>1. CASE g = new
    BY <1>1, <1>2, <1>3, <2>1
  <2>2. CASE g \in granted
    <3>1. g.from \in Nat /\ g.to \in Nat /\ g.from < g.to /\ g.to <= next
      BY <2>2 DEF GrantsBeforeNext, BandwidthTypeOK
    <3> QED  BY <1>1, <1>2, <1>3, <3>1
  <2> QED  BY <1>3, <2>1, <2>2
<1>6. Disjoint(granted')
  <2>1. \A g \in granted : g.to <= new.from
    <3> SUFFICES ASSUME NEW g \in granted PROVE g.to <= new.from
      OBVIOUS
    <3>1. g.to \in Nat /\ g.to <= next
      BY DEF GrantsBeforeNext, BandwidthTypeOK
    <3> QED  BY <1>1, <1>2, <3>1
  <2> QED  BY <1>3, <2>1 DEF BacklogIsGranted, Disjoint
<1>7. ASSUME NEW i \in now'..(next' - 1)
      PROVE  \E g \in granted' : g.from <= i /\ i < g.to
  <2>1. i \in Int /\ now <= i /\ i < from + transfer[t].frame
    BY <1>1, <1>2, <1>3
  <2>2. CASE i >= from
    <3>1. new.from <= i /\ i < new.to /\ new \in granted'
      BY <1>3, <2>1, <2>2
    <3> QED  BY <3>1
  <2>3. CASE i < from
    <3>1. from = next
      BY <1>1, <1>2, <2>1, <2>3
    <3>2. i \in now..(next - 1)
      BY <1>1, <2>1, <2>3, <3>1
    <3>3. PICK g \in granted : g.from <= i /\ i < g.to
      BY <3>2 DEF BacklogIsGranted
    <3> QED  BY <1>3, <3>3
  <2> QED  BY <1>2, <2>1, <2>2, <2>3
<1> QED  BY <1>4, <1>5, <1>6, <1>7 DEF BacklogIsGranted

\* Every step keeps the invariant.
LEMMA BandwidthNextInv == BandwidthInv /\ [BandwidthNext]_bandwidthVars => BandwidthInv'
<1> SUFFICES ASSUME BandwidthInv, [BandwidthNext]_bandwidthVars PROVE BandwidthInv'
  OBVIOUS
<1>1. CASE UNCHANGED bandwidthVars
  BY <1>1 DEF bandwidthVars, BandwidthInv, BandwidthTypeOK, GrantsBeforeNext,
              ClocksRead, BacklogIsGranted, Disjoint
<1>2. CASE Tick
  BY <1>2, TickInv
<1>3. ASSUME NEW t \in Transfer,
             ReadClock(t) \/ Grant(t) \/ Refuse(t) \/ Pass(t) \/ Leave(t)
      PROVE  BandwidthInv'
  BY <1>3, TransferInv, GrantInv
<1> QED  BY <1>1, <1>2, <1>3 DEF BandwidthNext

\* The schedule of either direction never lets two frames share an instant,
\* and makes nobody wait for an instant that was not granted (limits.rs,
\* reserve), however many transfers read the clock before they reserve.
THEOREM BacklogAlwaysGranted == BandwidthSpec => []BacklogIsGranted
<1>1. BandwidthInv => BacklogIsGranted
  BY DEF BandwidthInv
<1> QED  BY <1>1, BandwidthInitInv, BandwidthNextInv, PTL DEF BandwidthSpec

\* The clock, the schedule and what each transfer has read or reserved keep
\* their types (limits.rs, BandwidthLimiter).
THEOREM BandwidthTypes == BandwidthSpec => []BandwidthTypeOK
<1>1. BandwidthInv => BandwidthTypeOK
  BY DEF BandwidthInv
<1> QED  BY <1>1, BandwidthInitInv, BandwidthNextInv, PTL DEF BandwidthSpec

----------------------------------------------------------------------------
(* The rate.                                                               *)

\* Frames are counted by the instants they are paid with.  P are those of the
\* frames let through: as many as passed says, none later than a frame after
\* now.  F tells where the reservation of a sleeping transfer begins: it lies
\* before next, is its own, and begins no later than the sleep ends.
Paid(t, F) == F[t]..(F[t] + transfer[t].frame - 1)
Sleeping == {t \in Transfer : transfer[t].pc = "sleeping"}

AccountsFor(P, F) ==
    /\ IsFiniteSet(P) /\ Cardinality(P) = passed
    /\ \A i \in P : i < now + MaxFrame /\ i < next
    /\ \A t \in Sleeping :
         /\ F[t] <= transfer[t].until
         /\ F[t] + transfer[t].frame <= next
         /\ Paid(t, F) \cap P = {}
    /\ \A t, u \in Sleeping :
         t = u \/ F[t] + transfer[t].frame <= F[u] \/ F[u] + transfer[u].frame <= F[t]

RateInv == \E P \in SUBSET Nat, F \in [Transfer -> Nat] : AccountsFor(P, F)

\* Time passes, or a transfer that does not sleep afterwards, nor pass, moves.
LEMMA RateFrame ==
    ASSUME BandwidthTypeOK, RateInv, UNCHANGED <<passed, next>>, now' \in Nat, now <= now',
           \A t \in Sleeping' : t \in Sleeping /\ transfer'[t] = transfer[t]
    PROVE  RateInv'
<1>1. PICK P \in SUBSET Nat, F \in [Transfer -> Nat] : AccountsFor(P, F)
  BY DEF RateInv
<1>2. \A i \in P : i < now' + MaxFrame /\ i < next'
  <2>1. /\ now \in Nat /\ next' = next
        /\ \A i \in P : i \in Nat /\ i < now + MaxFrame /\ i < next
    BY <1>1 DEF AccountsFor, BandwidthTypeOK
  <2>2. \A i, m, later \in Nat : i < now + m /\ now <= later => i < later + m
    BY <2>1
  <2>3. MaxFrame \in Nat
    BY FrameAssumption
  <2> QED
    BY <2>1, <2>2, <2>3
<1>3. \A u \in Sleeping' : Paid(u, F)' = Paid(u, F)
  BY DEF Paid
<1>4. \A u, v \in Sleeping' :
        \/ u = v
        \/ F[u] + transfer'[u].frame <= F[v]
        \/ F[v] + transfer'[v].frame <= F[u]
  BY <1>1 DEF AccountsFor
<1>5. \A u \in Sleeping' :
        /\ F[u] <= transfer'[u].until
        /\ F[u] + transfer'[u].frame <= next'
        /\ Paid(u, F)' \cap P = {}
  BY <1>1, <1>3 DEF AccountsFor
<1>6. AccountsFor(P, F)'
  BY <1>1, <1>2, <1>4, <1>5 DEF AccountsFor
<1> QED
  BY <1>6 DEF RateInv

\* A grant begins at next or later, behind everything that was accounted for.
LEMMA RateGrant ==
    ASSUME BandwidthTypeOK, ClocksRead, RateInv, NEW t \in Transfer, Grant(t)
    PROVE  RateInv'
<1>1. PICK P \in SUBSET Nat, F \in [Transfer -> Nat] : AccountsFor(P, F)
  BY DEF RateInv
<1> DEFINE from == ReservedFrom(t)
<1>2. /\ transfer[t].seen \in Nat /\ transfer[t].frame \in Nat
      /\ now \in Nat /\ next \in Nat /\ transfer[t].seen <= now
  BY DEF BandwidthTypeOK, ClocksRead
<1>3. from \in Nat /\ from >= next
  BY <1>2 DEF ReservedFrom
<1>4. /\ next' = from + transfer[t].frame /\ UNCHANGED <<now, passed>>
      /\ transfer'[t].until = now + (from - transfer[t].seen)
      /\ transfer'[t].frame = transfer[t].frame
      /\ Sleeping' = Sleeping \cup {t} /\ t \notin Sleeping
      /\ \A u \in Sleeping : transfer'[u] = transfer[u]
  BY DEF Grant, BandwidthTypeOK, Sleeping, WaitOf
<1> HIDE DEF from
<1>5. PICK G \in [Transfer -> Nat] : G[t] = from /\ \A u \in Sleeping : G[u] = F[u]
  <2>1. [F EXCEPT ![t] = from] \in [Transfer -> Nat]
    BY <1>3
  <2> QED
    BY <1>4, <2>1 DEF Sleeping
<1>6. \A i \in P : i < now' + MaxFrame /\ i < next'
  BY <1>1, <1>2, <1>3, <1>4 DEF AccountsFor
<1>7. ASSUME NEW u \in Sleeping'
      PROVE  /\ G[u] <= transfer'[u].until
             /\ G[u] + transfer'[u].frame <= next'
             /\ Paid(u, G)' \cap P = {}
  <2>1. CASE u = t
    <3>1. \A i \in P : i \in Nat /\ i < next
      BY <1>1 DEF AccountsFor
    <3>2. Paid(u, G)' = from..(from + transfer[t].frame - 1)
      BY <1>4, <1>5, <2>1 DEF Paid
    <3>3. Paid(u, G)' \cap P = {}
      BY <1>2, <1>3, <3>1, <3>2
    <3>4. G[u] <= transfer'[u].until
      BY <1>2, <1>3, <1>4, <1>5, <2>1
    <3>5. G[u] + transfer'[u].frame <= next'
      BY <1>2, <1>3, <1>4, <1>5, <2>1
    <3> QED
      BY <3>3, <3>4, <3>5
  <2>2. CASE u \in Sleeping
    <3>1. F[u] \in Nat /\ transfer[u].frame \in Nat
      BY <2>2 DEF BandwidthTypeOK, Sleeping
    <3>2. F[u] + transfer[u].frame <= next /\ F[u] <= transfer[u].until /\ Paid(u, F) \cap P = {}
      BY <1>1, <2>2 DEF AccountsFor
    <3>3. Paid(u, G)' = Paid(u, F)
      BY <1>4, <1>5, <2>2 DEF Paid
    <3>4. G[u] = F[u] /\ transfer'[u] = transfer[u]
      BY <1>4, <1>5, <2>2
    <3>5. next' \in Nat /\ next <= next'
      BY <1>2, <1>3, <1>4
    <3> QED
      BY <1>2, <3>1, <3>2, <3>3, <3>4, <3>5
  <2> QED
    BY <1>4, <2>1, <2>2
<1>8. ASSUME NEW u \in Sleeping', NEW v \in Sleeping'
      PROVE  \/ u = v
             \/ G[u] + transfer'[u].frame <= G[v]
             \/ G[v] + transfer'[v].frame <= G[u]
  <2>1. \A w \in Sleeping : F[w] + transfer[w].frame <= from
    <3> TAKE w \in Sleeping
    <3>1. F[w] \in Nat /\ transfer[w].frame \in Nat /\ F[w] + transfer[w].frame <= next
      BY <1>1 DEF AccountsFor, BandwidthTypeOK, Sleeping
    <3> QED
      BY <1>2, <1>3, <3>1
  <2> QED
    BY <1>1, <1>4, <1>5, <2>1 DEF AccountsFor
<1>9. AccountsFor(P, G)'
  BY <1>1, <1>4, <1>6, <1>7, <1>8 DEF AccountsFor
<1> QED
  BY <1>5, <1>9 DEF RateInv

\* A frame that is let through after its sleep has a reservation that began at
\* now or before.
LEMMA RatePass ==
    ASSUME BandwidthTypeOK, RateInv, NEW t \in Transfer, Pass(t)
    PROVE  RateInv'
<1>1. PICK P \in SUBSET Nat, F \in [Transfer -> Nat] : AccountsFor(P, F)
  BY DEF RateInv
<1>2. /\ F[t] \in Nat /\ transfer[t].frame \in Nat /\ transfer[t].frame <= MaxFrame
      /\ now \in Nat /\ next \in Nat /\ transfer[t].until \in Nat /\ passed \in Nat
  BY DEF BandwidthTypeOK
<1>3. /\ t \in Sleeping /\ transfer[t].until <= now
      /\ passed' = passed + transfer[t].frame /\ UNCHANGED <<now, next>>
      /\ \A u \in Sleeping' : u \in Sleeping /\ u # t /\ transfer'[u] = transfer[u]
  BY DEF Pass, Sleeping, BandwidthTypeOK, Reading
<1>4. Paid(t, F) \in SUBSET Nat
  BY <1>2 DEF Paid
<1>5. PICK Q \in SUBSET Nat : Q = P \cup Paid(t, F)
  BY <1>4
<1>6. IsFiniteSet(Q) /\ Cardinality(Q) = passed'
  <2>1. IsFiniteSet(Paid(t, F)) /\ Cardinality(Paid(t, F)) = transfer[t].frame
    <3> DEFINE from == F[t]
               to == F[t] + transfer[t].frame - 1
    <3>1. from \in Int /\ to \in Int
      BY <1>2
    <3>2. (IF from > to THEN 0 ELSE to - from + 1) = transfer[t].frame
      BY <1>2
    <3>3. Paid(t, F) = from..to
      BY DEF Paid
    <3> HIDE DEF from, to
    <3>4. /\ IsFiniteSet(from..to)
          /\ Cardinality(from..to) = IF from > to THEN 0 ELSE to - from + 1
      BY <3>1, FS_Interval
    <3> QED
      BY <3>2, <3>3, <3>4
  <2>2. IsFiniteSet(P) /\ Cardinality(P) = passed /\ P \cap Paid(t, F) = {}
    BY <1>1, <1>3 DEF AccountsFor
  <2>3. Cardinality(P \cap Paid(t, F)) = 0
    BY <2>2, FS_EmptySet
  <2>4. /\ IsFiniteSet(Q)
        /\ Cardinality(Q) = Cardinality(P) + Cardinality(Paid(t, F)) - Cardinality(P \cap Paid(t, F))
    BY <1>5, <2>1, <2>2, FS_Union
  <2>5. Cardinality(Q) = passed + transfer[t].frame - 0
    BY <2>1, <2>2, <2>3, <2>4
  <2> QED
    BY <1>2, <1>3, <2>4, <2>5
<1>7. ASSUME NEW i \in Q PROVE i < now' + MaxFrame /\ i < next'
  <2>1. CASE i \in P
    BY <1>1, <1>3, <2>1 DEF AccountsFor
  <2>2. CASE i \in Paid(t, F)
    <3>1. i \in Int /\ F[t] <= i /\ i < F[t] + transfer[t].frame
      BY <1>2, <2>2 DEF Paid
    <3>2. F[t] <= transfer[t].until /\ F[t] + transfer[t].frame <= next
      BY <1>1, <1>3 DEF AccountsFor
    <3> QED
      BY <1>2, <1>3, <3>1, <3>2, FrameAssumption
  <2> QED
    BY <1>5, <2>1, <2>2
<1>8. ASSUME NEW u \in Sleeping'
      PROVE  /\ F[u] <= transfer'[u].until
             /\ F[u] + transfer'[u].frame <= next'
             /\ Paid(u, F)' \cap Q = {}
  <2>1. /\ F[u] \in Nat /\ transfer[u].frame \in Nat
        /\ u \in Sleeping /\ u # t /\ transfer'[u] = transfer[u]
    BY <1>3 DEF BandwidthTypeOK, Sleeping
  <2>2. /\ F[u] <= transfer[u].until /\ F[u] + transfer[u].frame <= next
        /\ Paid(u, F) \cap P = {}
        /\ F[t] + transfer[t].frame <= F[u] \/ F[u] + transfer[u].frame <= F[t]
    BY <1>1, <1>3, <2>1 DEF AccountsFor
  <2>3. Paid(u, F) \cap Paid(t, F) = {}
    BY <1>2, <2>1, <2>2 DEF Paid
  <2>4. Paid(u, F)' = Paid(u, F)
    BY <2>1 DEF Paid
  <2> QED
    BY <1>3, <1>5, <2>1, <2>2, <2>3, <2>4
<1>9. \A u, v \in Sleeping' :
        \/ u = v
        \/ F[u] + transfer'[u].frame <= F[v]
        \/ F[v] + transfer'[v].frame <= F[u]
  BY <1>1, <1>3 DEF AccountsFor
<1>10. AccountsFor(Q, F)'
  BY <1>6, <1>7, <1>8, <1>9 DEF AccountsFor
<1> QED
  BY <1>10 DEF RateInv

\* The limiter keeps the rate (limits.rs, throttle): no more than the time since
\* the start is worth, and one frame, is let through, whoever reads the clock
\* before whom, sleeps too long, leaves or is refused.
THEOREM RateAlwaysKept == BandwidthSpec => []RateKept
<1>1. BandwidthInit => RateInv
  <2> SUFFICES ASSUME BandwidthInit PROVE RateInv
    OBVIOUS
  <2>1. Sleeping = {} /\ passed = 0
    BY DEF BandwidthInit, Sleeping, Reading
  <2>2. IsFiniteSet({}) /\ Cardinality({}) = 0
    BY FS_EmptySet
  <2>3. AccountsFor({}, [t \in Transfer |-> 0])
    BY <2>1, <2>2 DEF AccountsFor
  <2> QED
    BY <2>3 DEF RateInv
<1>2. ASSUME BandwidthInv, RateInv, [BandwidthNext]_bandwidthVars
      PROVE  RateInv'
  <2>0. BandwidthTypeOK /\ ClocksRead
    BY <1>2 DEF BandwidthInv
  <2>1. CASE UNCHANGED bandwidthVars \/ Tick
    BY <1>2, <2>0, <2>1, RateFrame DEF bandwidthVars, Tick, BandwidthTypeOK, Sleeping
  <2>2. ASSUME NEW t \in Transfer, ReadClock(t) \/ Refuse(t) \/ Leave(t)
        PROVE  RateInv'
    BY <1>2, <2>0, <2>2, RateFrame
       DEF ReadClock, Refuse, Leave, BandwidthTypeOK, Sleeping, Reading
  <2> QED
    BY <1>2, <2>0, <2>1, <2>2, RateGrant, RatePass DEF BandwidthNext
<1>3. BandwidthInv /\ RateInv => RateKept
  <2> SUFFICES ASSUME BandwidthInv, RateInv PROVE RateKept
    OBVIOUS
  <2>1. PICK P \in SUBSET Nat, F \in [Transfer -> Nat] : AccountsFor(P, F)
    BY DEF RateInv
  <2>2. now + MaxFrame - 1 \in Nat /\ P \subseteq 0..(now + MaxFrame - 1)
    BY <2>1 DEF AccountsFor, BandwidthInv, BandwidthTypeOK
  <2>3. /\ IsFiniteSet(0..(now + MaxFrame - 1))
        /\ Cardinality(0..(now + MaxFrame - 1)) = now + MaxFrame
    <3> DEFINE last == now + MaxFrame - 1
    <3>1. last \in Int /\ 0 <= last /\ last - 0 + 1 = now + MaxFrame
      BY <2>2, FrameAssumption DEF BandwidthInv, BandwidthTypeOK
    <3> HIDE DEF last
    <3>2. IsFiniteSet(0..last) /\ Cardinality(0..last) = now + MaxFrame
      BY <3>1, FS_Interval
    <3> QED
      BY <3>2 DEF last
  <2>4. Cardinality(P) <= now + MaxFrame
    BY <2>2, <2>3, FS_Subset
  <2> QED
    BY <2>1, <2>4 DEF AccountsFor, RateKept
<1> QED
  BY <1>1, <1>2, <1>3, BandwidthInitInv, BandwidthNextInv, PTL DEF BandwidthSpec

============================================================================
