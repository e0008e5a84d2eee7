------------------------------ MODULE Bandwidth ------------------------------
(***************************************************************************)
(* One schedule of the bandwidth limiter of tg2s3 (src/src/limits.rs).     *)
(* Every frame of a body is paid for with a reservation on the schedule of *)
(* its direction, which is one instant, `next`, the end of the last        *)
(* reservation.  A transfer reads the clock, takes the mutex, reserves,    *)
(* and sleeps until its turn.  Time may pass and others may reserve        *)
(* between the reading of the clock and the mutex, and a client may leave  *)
(* while its transfer sleeps.                                              *)
(*                                                                         *)
(* Uploads and downloads have a schedule each and share nothing, so Init   *)
(* chooses the direction of the schedule described.  Time is counted in    *)
(* ticks; the size of a frame is the number of ticks the configured rate   *)
(* takes for it.  A rate of zero switches the limiter off.                 *)
(***************************************************************************)
EXTENDS Integers

CONSTANTS Transfer,   \* the transfers of the direction
          MaxFrame,   \* the longest frame, in ticks
          LimitWait,  \* TG2S3_LIMIT_WAIT_SECS, in ticks
          MaxTime     \* bound: no frame arrives, and none is put off, later

ASSUME FrameAssumption == MaxFrame \in Nat \ {0}
ASSUME WaitAssumption == LimitWait \in Nat /\ MaxTime \in Nat

VARIABLES
    direction,  \* TransferDirection; never changes
    now,        \* the monotonic clock
    next,       \* RateSchedule::next; 0 stands for None
    transfer,   \* what each transfer is doing
    passed,     \* how many ticks' worth of frames were let through
    granted     \* history: the intervals reserved

bandwidthVars == <<direction, now, next, transfer, passed, granted>>

Reading == [pc |-> "reading", seen |-> 0, frame |-> 0, until |-> 0]

\* seen: the clock as reserve() read it; until: when the sleep ends.
BandwidthTypeOK ==
    /\ direction \in {"upload", "download"}
    /\ now \in Nat
    /\ next \in Nat
    /\ transfer \in [Transfer -> [pc : {"reading", "reserving", "sleeping"},
                                  seen : Nat, frame : 0..MaxFrame, until : Nat]]
    /\ passed \in Nat
    /\ granted \in SUBSET [from : Nat, to : Nat]

BandwidthInit ==
    /\ direction \in {"upload", "download"}
    /\ now = 0
    /\ next = 0
    /\ transfer = [t \in Transfer |-> Reading]
    /\ passed = 0
    /\ granted = {}

----------------------------------------------------------------------------

\* A frame of the body arrives: throttle() is called and reads the clock.
ReadClock(t) ==
    /\ transfer[t].pc = "reading"
    /\ now <= MaxTime /\ next <= MaxTime
    /\ \E frame \in 1..MaxFrame :
         transfer' = [transfer EXCEPT ![t] =
             [pc |-> "reserving", seen |-> now, frame |-> frame, until |-> 0]]
    /\ UNCHANGED <<direction, now, next, passed, granted>>

\* Mutant: a reservation starts at once, whatever is reserved already.
ReservedFrom_now(t) == transfer[t].seen

\* When the frame's turn comes: after all that is reserved, not before now.
ReservedFrom(t) == IF next > transfer[t].seen THEN next ELSE transfer[t].seen

WaitOf(t) == ReservedFrom(t) - transfer[t].seen

\* Uploads are bounded (known.rs, spool.rs), downloads are not (download.rs).
TooLong(t) == direction = "upload" /\ WaitOf(t) > LimitWait

Grant(t) ==
    LET from == ReservedFrom(t)
        to == from + transfer[t].frame
    IN  /\ transfer[t].pc = "reserving"
        /\ ~TooLong(t)
        /\ next' = to
        /\ granted' = granted \cup {[from |-> from, to |-> to]}
        /\ transfer' = [transfer EXCEPT ![t].pc = "sleeping", ![t].until = now + WaitOf(t)]
        /\ UNCHANGED <<direction, now, passed>>

\* Mutant: the schedule is advanced before the bound is looked at.
Refuse_committed(t) ==
    /\ transfer[t].pc = "reserving"
    /\ TooLong(t)
    /\ next' = ReservedFrom(t) + transfer[t].frame
    /\ transfer' = [transfer EXCEPT ![t] = Reading]
    /\ UNCHANGED <<direction, now, passed, granted>>

\* SlowDown: the upload fails, and the transfer slot serves another one.
Refuse(t) ==
    /\ transfer[t].pc = "reserving"
    /\ TooLong(t)
    /\ transfer' = [transfer EXCEPT ![t] = Reading]
    /\ UNCHANGED <<direction, now, next, passed, granted>>

\* The sleep is over, perhaps long over, and the frame goes on its way.
Pass(t) ==
    /\ transfer[t].pc = "sleeping"
    /\ transfer[t].until <= now
    /\ passed' = passed + transfer[t].frame
    /\ transfer' = [transfer EXCEPT ![t] = Reading]
    /\ UNCHANGED <<direction, now, next, granted>>

\* The request is dropped while it sleeps; what it reserved stays reserved.
Leave(t) ==
    /\ transfer[t].pc = "sleeping"
    /\ transfer' = [transfer EXCEPT ![t] = Reading]
    /\ UNCHANGED <<direction, now, next, passed, granted>>

Tick ==
    /\ now <= MaxTime
    /\ now' = now + 1
    /\ UNCHANGED <<direction, next, transfer, passed, granted>>

BandwidthNext ==
    \/ Tick
    \/ \E t \in Transfer :
         ReadClock(t) \/ Grant(t) \/ Refuse(t) \/ Pass(t) \/ Leave(t)

BandwidthSpec == BandwidthInit /\ [][BandwidthNext]_bandwidthVars

----------------------------------------------------------------------------

\* The limiter keeps the rate: from the start, no more frames have gone
\* through than the rate allows for the time that has passed, and one frame,
\* although transfers read the clock before they take the mutex.
RateKept == passed <= now + MaxFrame

\* The backlog is what was granted and nothing else: no two grants overlap,
\* and every instant a newcomer has to wait for was granted to a transfer, so
\* a refused upload delays nobody.
Disjoint(G) == \A g, h \in G : g = h \/ g.to <= h.from \/ h.to <= g.from

BacklogIsGranted ==
    /\ Disjoint(granted)
    /\ \A i \in now..(next - 1) : \E g \in granted : g.from <= i /\ i < g.to

============================================================================
