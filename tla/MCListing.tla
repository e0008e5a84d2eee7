----------------------------- MODULE MCListing -----------------------------
(* Instances of Listing for TLC.  The characters: 0, the delimiter 1, and 2, *)
(* which is char::MAX.                                                      *)
EXTENDS Listing

\* A key; a group of two or three keys with and without the delimiter at its
\* end; keys under the greatest character, which has no successor.
MCKeys == {<<0>>, <<0, 1>>, <<0, 1, 2>>, <<2>>, <<2, 2>>}

Ask(p, d, m, s) == [prefix |-> p, delimiter |-> d, maxKeys |-> m, start |-> s]
Delimiters == {<<>>, <<1>>, <<2>>}

\* No keys at all; with a prefix; from a key, from a group, and from within it
MCQuery == {Ask(<<>>, <<1>>, 0, <<>>)}
    \cup {Ask(p, d, m, <<>>) : p \in {<<>>, <<0>>, <<2>>}, d \in Delimiters, m \in {1, 2}}
    \cup {Ask(<<>>, d, m, s) : d \in Delimiters, m \in {1, 2}, s \in {<<0>>, <<0, 1, 2>>}}

============================================================================
