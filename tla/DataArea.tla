------------------------------- MODULE DataArea -------------------------------
(***************************************************************************)
(* The bytes of a tag's data area: how ndef.py wraps a message in a TLV,   *)
(* finds the place for it among the TLVs that are there, and finds it      *)
(* again; and what write_ndef, erase and format make of those bytes, page  *)
(* by page, whichever page write is the last to land.                      *)
(*                                                                         *)
(* Offsets count from 0, as in the code.  Page writes that land but are    *)
(* not acknowledged, and the checks ahead of them, are in PageWrite and    *)
(* WriteNdef.                                                              *)
(***************************************************************************)
EXTENDS Naturals, Sequences

CONSTANTS
    Size,       \* the capacity in bytes, which the CC gives in units of 8
    Areas,      \* what a tag's data area can hold when it arrives
    Messages,   \* NDEF messages
    LongFrom    \* the length from which wrap_tlv takes the long form: 0xFF

PageSize == 4
Byte     == 0 .. 255

ASSUME AreaAssumption ==
    /\ Size \in 1 .. 8 * 255 /\ Size % PageSize = 0
    /\ Areas \subseteq [1 .. Size -> Byte]
    /\ Messages \subseteq Seq(Byte) \ {<< >>}
    /\ LongFrom \in 1 .. 255

VARIABLES
    area,       \* the user memory, Size bytes
    behind,     \* bits were set in the page behind it, the dynamic lock page
    stored      \* the message known to be stored: one, or none after a failure

vars == <<area, behind, stored>>

TypeOK ==
    /\ area \in [1 .. Size -> Byte]
    /\ behind \in BOOLEAN
    /\ \E m \in Messages \cup {<< >>} : stored \subseteq {m}

-----------------------------------------------------------------------------
NullTlv       == 0
NdefTlv       == 3
TerminatorTlv == 254
Skippable     == {1, 2, 253}    \* lock control, memory control, proprietary

At(a, o) == a[o + 1]

(* The field behind the tag byte at o: where its value starts and ends, or  *)
(* both 0 when the data stop before they are told.                          *)
NoField == [start |-> 0, end |-> 0]
Field(a, o) ==
    IF o + 1 >= Len(a) THEN NoField
    ELSE IF At(a, o + 1) # 255
    THEN [start |-> o + 2, end |-> o + 2 + At(a, o + 1)]
    ELSE IF o + 4 > Len(a) THEN NoField
    ELSE [start |-> o + 4, end |-> o + 4 + 256 * At(a, o + 2) + At(a, o + 3)]

(* Mutant: a NULL byte ends the walk.                                       *)
TlvOffsetAtNull(a) ==
    LET walk[o \in Nat] ==
            IF o >= Len(a) THEN 0
            ELSE IF At(a, o) \notin Skippable THEN o
            ELSE IF Field(a, o) = NoField THEN 0
            ELSE walk[Field(a, o).end]
    IN  walk[0]

(* Mutant: an NDEF TLV is walked past like the others.                      *)
TlvOffsetPastNdef(a) ==
    LET walk[o \in Nat] ==
            IF o >= Len(a) THEN 0
            ELSE IF At(a, o) = NullTlv THEN walk[o + 1]
            ELSE IF At(a, o) \notin Skippable \cup {NdefTlv} THEN o
            ELSE IF Field(a, o) = NoField THEN 0
            ELSE walk[Field(a, o).end]
    IN  walk[0]

(* ndef_tlv_offset: past NULLs and skippable TLVs; 0 when there is nothing  *)
(* else, or the data end inside a TLV.                                      *)
TlvOffset(a) ==
    LET walk[o \in Nat] ==
            IF o >= Len(a) THEN 0
            ELSE IF At(a, o) = NullTlv THEN walk[o + 1]
            ELSE IF At(a, o) \notin Skippable THEN o
            ELSE IF Field(a, o) = NoField THEN 0
            ELSE walk[Field(a, o).end]
    IN  walk[0]

(* unwrap_tlv: the value of the first NDEF TLV, walking past every other    *)
(* TLV up to a terminator; none when it raises.                             *)
Unwrap(a) ==
    LET walk[o \in Nat] ==
            IF o >= Len(a) THEN {}
            ELSE IF At(a, o) = NullTlv THEN walk[o + 1]
            ELSE IF At(a, o) = TerminatorTlv \/ Field(a, o) = NoField THEN {}
            ELSE IF At(a, o) # NdefTlv THEN walk[Field(a, o).end]
            ELSE IF Field(a, o).end > Len(a) THEN {}
            ELSE {SubSeq(a, Field(a, o).start + 1, Field(a, o).end)}
    IN  walk[0]

(* Mutant: the long form starts one byte too late.                          *)
WrapLongLate(m) ==
    (IF Len(m) =< LongFrom THEN <<NdefTlv, IF Len(m) = LongFrom THEN 255 ELSE Len(m)>>
     ELSE <<NdefTlv, 255, Len(m) \div 256, Len(m) % 256>>) \o m \o <<TerminatorTlv>>

Wrap(m) ==
    (IF Len(m) < LongFrom THEN <<NdefTlv, Len(m)>>
     ELSE <<NdefTlv, 255, Len(m) \div 256, Len(m) % 256>>) \o m \o <<TerminatorTlv>>

-----------------------------------------------------------------------------
(* The first byte of the page that the message begins in.                   *)
PageStart == TlvOffset(area) - (TlvOffset(area) % PageSize)

Zeros(n) == [j \in 1 .. n |-> 0]

(* Mutant: the bytes ahead of the message in its page are not carried over. *)
ImageOfZeros(bytes) ==
    LET head == Zeros(TlvOffset(area) % PageSize)
        len  == Len(head) + Len(bytes)
    IN  head \o bytes \o Zeros((PageSize - (len % PageSize)) % PageSize)

(* What is written from that page on: the bytes ahead of the message, the   *)
(* message, and zeros up to the end of its last page.                       *)
Image(bytes) ==
    LET head == SubSeq(area, PageStart + 1, TlvOffset(area))
        len  == Len(head) + Len(bytes)
    IN  head \o bytes \o Zeros((PageSize - (len % PageSize)) % PageSize)

(* Page writes go from front to back, and any of them may be the last.      *)
Land(image, m) ==
    \E n \in 0 .. Len(image) \div PageSize :
        LET sent  == SubSeq(image, 1, n * PageSize)
            cover == PageStart + 1 .. PageStart + Len(sent)
        IN  /\ area' = [j \in 1 .. Size |-> IF j \in cover THEN sent[j - PageStart] ELSE area[j]]
            /\ behind' = (behind \/ \E j \in cover : j > Size /\ sent[j - PageStart] # 0)
            /\ stored' = IF sent = image THEN {m} ELSE IF area' = area THEN stored ELSE {}

Init ==
    /\ area \in Areas
    /\ behind = FALSE
    /\ stored = {}

(* Mutant: only the message is compared with the capacity, not its place.   *)
WriteFromStart(m) ==
    /\ Len(Wrap(m)) =< Size
    /\ Land(Image(Wrap(m)), m)

(* write_ndef with a message that fits.                                     *)
Write(m) ==
    /\ TlvOffset(area) + Len(Wrap(m)) =< Size
    /\ Land(Image(Wrap(m)), m)

(* _write_empty_ndef: nothing is compared with the capacity.                *)
EmptyNdef == Image(<<NdefTlv, 0, TerminatorTlv>>)

Format == Land(EmptyNdef, << >>)

(* cmd_erase: then zeros, up to the last page of the capacity.              *)
Erase ==
    LET rest == Size - PageStart - Len(EmptyNdef)
    IN  Land(EmptyNdef \o Zeros(IF PageStart + Len(EmptyNdef) < Size THEN rest ELSE 0), << >>)

Next == Format \/ Erase \/ \E m \in Messages : Write(m)

Spec == Init /\ [][Next]_vars

-----------------------------------------------------------------------------
(* A reference reading of a data area, from the NFC Forum's layout: its     *)
(* first o bytes are tiled by NULLs and whole skippable TLVs.               *)
Tiled(a) ==
    LET tiled[o \in 0 .. Len(a)] ==
            \/ o = 0
            \/ \E b \in 0 .. o - 1 :
                  /\ tiled[b]
                  /\ \/ At(a, b) = NullTlv /\ o = b + 1
                     \/ At(a, b) \in Skippable /\ Field(a, b) # NoField /\ Field(a, b).end = o
    IN  tiled

(* A place for the message behind them: a byte that is none of theirs.      *)
Places(a) == {o \in 0 .. Len(a) - 1 : Tiled(a)[o] /\ At(a, o) \notin Skippable \cup {NullTlv}}

(* There is never more than one such place, ndef_tlv_offset finds it, and   *)
(* with none it says 0 (ndef.py:273-307).                                   *)
OffsetIsThePlace ==
    IF Places(area) = {} THEN TlvOffset(area) = 0 ELSE Places(area) = {TlvOffset(area)}

(* What was stored is found again, whatever lay on the tag before, whatever *)
(* the message looks like, and after any operations that failed half-way:   *)
(* the writer's walk and the reader's, which stop and skip at different     *)
(* bytes, meet at the message (ndef.py:231-307, writer.py:137-159).  Only   *)
(* an empty message put into the last byte is cut.                          *)
StoredIsRead == stored # {} => Unwrap(area) = stored \/ Places(area) = {Size - 1}

(* The TLVs ahead of the message are never touched, by no operation and at  *)
(* no point of failure, provided there was anything behind them: on an area *)
(* of nothing but NULLs and such TLVs the place is 0, and they are lost     *)
(* (ndef.py:276-280, writer.py:123-127).                                    *)
AheadIsKept ==
    [][\A o \in Places(area) : SubSeq(area', 1, o) = SubSeq(area, 1, o)]_vars

(* The message has one place for good: whatever operation changes the area, *)
(* however far it gets, the next one finds the place that this one found    *)
(* (ndef.py:273-307, cli.py:113-128, writer.py:137-151).                    *)
PlaceIsSettled == [][area' # area => Places(area') = {TlvOffset(area)}]_vars

(* README.md:163-165: "writes are bounded by the capability container so    *)
(* the tool cannot run into the lock pages and brick a tag".                *)
LockPageUntouched == ~behind

(* Only an empty message put into the last two bytes gets there: no write   *)
(* does, and an erase or a format only from such a place (cli.py:113-128).  *)
BehindOnlyFromTheBrink ==
    [][behind' # behind => /\ \E o \in Places(area) : o >= Size - 2
                           /\ stored' \in {{}, {<< >>}}]_vars
===============================================================================
