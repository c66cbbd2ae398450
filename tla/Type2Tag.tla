------------------------------ MODULE Type2Tag ------------------------------
(***************************************************************************)
(* What tags.py knows of an NFC Forum Type 2 tag: the page layout, the     *)
(* capability container (CC) that tells how much of the tag is user        *)
(* memory, and the picture of the tag (TagInfo) that is made of it.        *)
(*                                                                         *)
(* A CC is a record: its magic number is right or not (formatted), its     *)
(* size byte, and whether the low nibble of its access byte is zero        *)
(* (writable).                                                             *)
(***************************************************************************)
EXTENDS Integers

CONSTANTS
    Capacity,    \* [known CC size byte -> NDEF bytes], _CC_SIZE_TO_PRODUCT
    LockLayout   \* the size bytes whose product has a DYNAMIC_LOCK entry

PageSize      == 4
FirstUserPage == 4
CcPage        == 3
Bytes         == 0..255

(***************************************************************************)
(* The capacities of the real table, 48, 144, 504 and 888, and those that  *)
(* parse_cc computes for an unknown size byte, are all multiples of 8.     *)
(***************************************************************************)
ASSUME CapacityAssumption ==
    /\ DOMAIN Capacity \subseteq Bytes
    /\ \A s \in DOMAIN Capacity : Capacity[s] \in Nat /\ Capacity[s] % 8 = 0

ASSUME LockLayoutAssumption == LockLayout \subseteq DOMAIN Capacity

(***************************************************************************)
(* One-time programmable bytes: the tag ORs what is written into what it   *)
(* holds.                                                                  *)
(***************************************************************************)
ByteOr(a, b) ==
    LET bit(k) == IF (a \div k) % 2 = 1 \/ (b \div k) % 2 = 1 THEN k ELSE 0
    IN  bit(1) + bit(2) + bit(4) + bit(8) + bit(16) + bit(32) + bit(64) + bit(128)

Containers == [formatted : BOOLEAN, size : Bytes, writable : BOOLEAN]

(* A factory-blank CC page: four zero bytes. *)
EmptyCc == [formatted |-> FALSE, size |-> 0, writable |-> TRUE]

(* blank_cc: the container written into an unformatted tag. *)
BlankCc(size) == [formatted |-> TRUE, size |-> size, writable |-> TRUE]

(* What page 3 holds once new has been written over old. *)
CcAfter(otp, old, new) ==
    IF otp
    THEN [formatted |-> old.formatted \/ new.formatted,
          size      |-> ByteOr(old.size, new.size),
          writable  |-> old.writable /\ new.writable]
    ELSE new

(* parse_cc: the NDEF bytes a size byte stands for. *)
CapacityOf(size) == IF size \in DOMAIN Capacity THEN Capacity[size] ELSE 8 * size

(* identify, when the CC could not be read or its magic number is wrong. *)
NoInfo == [formatted |-> FALSE, writable |-> TRUE, size |-> 0, capacity |-> 0]

(* identify, from a CC that was read. *)
InfoOf(cc) ==
    IF cc.formatted
    THEN [formatted |-> TRUE, writable |-> cc.writable, size |-> cc.size,
          capacity  |-> CapacityOf(cc.size)]
    ELSE NoInfo

Infos == [formatted : BOOLEAN, writable : BOOLEAN, size : Bytes, capacity : Nat]

(* read_pages of that many bytes from page 4 on, of a tag with the pages    *)
(* 0..last: each READ returns four pages and wraps around at the end of     *)
(* memory, and one that would start past the end is refused.                *)
AreaReadable(capacity, last) ==
    FirstUserPage + 4 * (((capacity + 15) \div 16) - 1) =< last

(* TagInfo.last_user_page: the highest page it is safe to write. *)
LastUserPage(capacity) == FirstUserPage + (capacity \div PageSize) - 1
=============================================================================
