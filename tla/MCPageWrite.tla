----------------------------- MODULE MCPageWrite -----------------------------
(***************************************************************************)
(* write_page on a tag of six pages, the CC's among them, holding zeros or *)
(* not, one page of which may be locked and one may be write-only.         *)
(***************************************************************************)
EXTENDS PageWrite

MCCapacity   == [s \in {2} |-> 16]
MCLockLayout == {2}
MCChips      == [locked : {{}, {4}}, otp : {{}, {CcPage}}]

(* PWD and PACK: pages that read back as zeros.                            *)
MCWriteOnly  == {5}

MCReaders    == ReaderKinds
=============================================================================
