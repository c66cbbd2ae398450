------------------------------ MODULE MCDataArea ------------------------------
(***************************************************************************)
(* Two pages of user memory, whose first five bytes are any of a NULL, a    *)
(* lock-control TLV, an NDEF TLV, a tag byte the code does not know or a   *)
(* terminator, each of which is a length as well; and areas that begin     *)
(* with a TLV in the long form.  The messages look like TLVs themselves,   *)
(* and the longest takes the long form.                                    *)
(***************************************************************************)
EXTENDS DataArea

Tails == {<<0, 0, 0>>, <<0, 0, 1>>, <<0, 0, 254>>, <<0, 254, 0>>, <<1, 1, 254>>, <<1, 2, 0>>}

MCAreas ==
    { f \o t : f \in [1 .. 5 -> {0, 1, 3, 254}], t \in Tails }
    \cup { <<h, 255, 0, n, 7>> \o t : h \in {1, 3, 7}, n \in 0 .. 3, t \in Tails }
    \cup { <<7, n>> \o f \o t : n \in 0 .. 3, f \in [1 .. 3 -> {0, 1, 3, 7}], t \in Tails }

MCMessages == {<<3>>, <<0, 254>>, <<1, 3, 3>>}
===============================================================================
