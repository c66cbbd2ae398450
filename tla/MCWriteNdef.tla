----------------------------- MODULE MCWriteNdef -----------------------------
(***************************************************************************)
(* write_ndef on a chip scaled down to four user pages (16 bytes): pages   *)
(* 4 and 5 with static lock bits, 6 and 7 with dynamic ones, and the lock  *)
(* page, the two configuration pages, PWD and PACK behind them as on an    *)
(* NTAG21x.  The CC size bytes are 2, the chip's own (16 bytes), and 1 (8  *)
(* bytes), the product blank_cc names, which has a known lock layout too;  *)
(* 5 is a product without one.                                             *)
(* The size byte that is OR-ed together from both is 3, of no known        *)
(* product, whose 24 bytes reach the first configuration page.             *)
(***************************************************************************)
EXTENDS WriteNdef

MCCapacity   == [s \in {1, 2, 5} |-> IF s = 2 THEN 16 ELSE 8]
MCLockLayout == {1, 2}
MCWriteOnly  == {11, 12}

MCChips ==
    { [locked |-> {}, otp |-> {CcPage}],  [locked |-> {}, otp |-> {}],
      [locked |-> {6}, otp |-> {CcPage}], [locked |-> 3..7, otp |-> {CcPage}] }

MCCcKinds ==
    {EmptyCc} \cup [formatted : {TRUE}, size : {1, 2}, writable : BOOLEAN]
              \cup [formatted : {TRUE}, size : {5}, writable : {FALSE}]

(* The NDEF TLV at the start, or after a five-byte lock-control TLV.       *)
MCOffsets == {0, 5}

(* From one page to more than any container holds.                         *)
MCLengths == {3, 12, 24}

(* Every reader: each form taken or not, the padding stored or discarded.  *)
MCReaders == { r \in ReaderKinds : r.all16 => r.padded }
=============================================================================
