---------------------------- MODULE MCRangeRead ----------------------------
(* Instances of RangeRead for TLC.                                         *)
EXTENDS RangeRead, TLC

\* No object data, one block, two blocks of one and of four bytes.
MCLayout == {<<>>, <<2>>, <<1, 5>>}

Whole == {[kind |-> k, a |-> 0, b |-> 0] : k \in {"none", "bad"}}
Suffixes == {[kind |-> "suffix", a |-> n, b |-> 0] : n \in {0, 1, 3, 5}}
Open3 == {[kind |-> "open", a |-> n, b |-> 0] : n \in {1, 2, 4}}
Closed == {[kind |-> "closed", a |-> n[1], b |-> n[2]] :
              n \in {<<0, 0>>, <<0, 1>>, <<1, 2>>, <<2, 3>>, <<2, 9>>, <<3, 2>>, <<4, 4>>}}
MCHeader == Whole \cup Suffixes \cup Open3 \cup Closed

============================================================================
