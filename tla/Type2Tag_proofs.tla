--------------------------- MODULE Type2Tag_proofs ---------------------------
(***************************************************************************)
(* Facts about the layout of tags.py, for every table of capacities.       *)
(***************************************************************************)
EXTENDS Type2Tag, TLAPS

LEMMA ByteOrType ==
    ASSUME NEW a \in Bytes, NEW b \in Bytes
    PROVE  ByteOr(a, b) \in Bytes
BY DEF ByteOr, Bytes

(* A byte written over itself is itself.                                   *)
LEMMA ByteOrSelf ==
    ASSUME NEW a \in Bytes
    PROVE  ByteOr(a, a) = a
BY DEF ByteOr, Bytes

LEMMA CapacityType ==
    ASSUME NEW size \in Bytes
    PROVE  CapacityOf(size) \in Nat /\ CapacityOf(size) % 8 = 0
BY CapacityAssumption DEF CapacityOf, Bytes

LEMMA CcAfterType ==
    ASSUME NEW once, NEW old \in Containers, NEW new \in Containers
    PROVE  CcAfter(once, old, new) \in Containers
BY ByteOrType DEF CcAfter, Containers

LEMMA InfoOfType ==
    ASSUME NEW c \in Containers
    PROVE  InfoOf(c) \in Infos
BY CapacityType DEF InfoOf, NoInfo, Infos, Containers, Bytes
===============================================================================
