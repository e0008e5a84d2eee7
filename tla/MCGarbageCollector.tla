------------------------ MODULE MCGarbageCollector ------------------------
(* Instances of GarbageCollector for TLC.                                  *)
EXTENDS GarbageCollector, TLC

NoPattern == [given |-> FALSE, star |-> FALSE, tags |-> {}]
Unconditional == {[ifMatch |-> NoPattern, ifNoneMatch |-> NoPattern]}

OneBlockId == 1..1
MCBlockId == 1..2
MCObjectId == 1..2
MCPartNo == 0..0

\* One crash or database error while requests are dropped and rows go stale; one
\* while uploads fail and are cleaned up, in a time too short for that; one gc
\* command beside the server; and no mishap but failed uploads and stale rows.
StaleRows == [faults |-> 1, commands |-> 0, failures |-> FALSE, aging |-> TRUE]
Cleanups == [faults |-> 1, commands |-> 0, failures |-> TRUE, aging |-> FALSE]
TwoCollectors == [faults |-> 0, commands |-> 1, failures |-> FALSE, aging |-> FALSE]
Faultless == [faults |-> 0, commands |-> 0, failures |-> TRUE, aging |-> TRUE]

SafetyBudgets == {StaleRows, Cleanups, TwoCollectors}
LivenessBudgets == {StaleRows, Faultless}
NoFault == {Faultless}

\* Sound because all messages are stored with one backend.
Symmetry == Permutations(Name) \cup Permutations(Upload) \cup Permutations(Msg)

============================================================================
