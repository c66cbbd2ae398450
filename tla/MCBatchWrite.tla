----------------------------- MODULE MCBatchWrite -----------------------------
(***************************************************************************)
(* Two tags, a batch of two or an endless one, and a payload with          *)
(* characters of more than one byte.                                       *)
(***************************************************************************)
EXTENDS BatchWrite

CONSTANTS a, b, u1, u2

MCUidOf   == [t \in {a, b} |-> IF t = a THEN u1 ELSE u2]
MCEntries == [of : Tags \cup {NoTag}, uid : Uids \cup {NoUid}, ok : BOOLEAN]
===============================================================================
