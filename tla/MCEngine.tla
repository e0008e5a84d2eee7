------------------------------ MODULE MCEngine ------------------------------
(* Instances of Engine for TLC.                                            *)
EXTENDS Engine, TLC

NoPattern == [given |-> FALSE, star |-> FALSE, tags |-> {}]
Unconditional == {[ifMatch |-> NoPattern, ifNoneMatch |-> NoPattern]}

MCBlockId == 1..2
MCObjectId == 1..2
PutPart == {0}
MCPartNo == 1..2
MCEtag == SUBSET Msg
\* Not a set of messages, and comparable with one.
MCNoEtag == {NoMsg - 1}

\* Two parts that are replaced and completed; and their bucket going meanwhile.
Parts == [ops |-> {"part", "complete"}, body |-> 1, messages |-> 3, oldest |-> 0]
Buckets == [ops |-> {"part", "complete", "cors"}, body |-> 1, messages |-> 1, oldest |-> 0]
UploadSetup == {Parts, Buckets}

\* Copies; and PUTs so slow that the collector takes their rows.
Copies == [ops |-> {"put", "copy"}, body |-> 1, messages |-> 2, oldest |-> 0]
SlowPuts == [ops |-> {"put"}, body |-> 2, messages |-> 2, oldest |-> 1]
ObjectSetup == {Copies, SlowPuts}
CopySetup == {Copies}

Symmetry ==
    Permutations(Bucket) \cup Permutations(Name) \cup Permutations(Upload) \cup Permutations(Msg)
        \cup Permutations(Req)

============================================================================
