-------------------------- MODULE MCMetadataStore --------------------------
(* Instances of MetadataStore for TLC.                                     *)
EXTENDS MetadataStore, TLC

NoPattern == [given |-> FALSE, star |-> FALSE, tags |-> {}]
Star == [given |-> TRUE, star |-> TRUE, tags |-> {}]

NoCondition == [ifMatch |-> NoPattern, ifNoneMatch |-> NoPattern]
IfAbsent == [ifMatch |-> NoPattern, ifNoneMatch |-> Star]

MCBlockId == 1..2
MCBlockId3 == 1..3
MCObjectId == 1..2
MCObjectId3 == 1..3
MCPartNo == 0..1
MCPartNo2 == 0..2
Unconditional == {NoCondition}
WithCondition == {NoCondition, IfAbsent}

Symmetry == Permutations(Name) \cup Permutations(Upload) \cup Permutations(Msg)

============================================================================
