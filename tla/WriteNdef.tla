------------------------------ MODULE WriteNdef ------------------------------
(***************************************************************************)
(* write_ndef of writer.py: one request to store an NDEF payload on the    *)
(* tag, from identify_tag, through the refusals, the page writes and the   *)
(* read-back, to the WriteResult.  The page writes are those of PageWrite, *)
(* APDU by APDU.                                                           *)
(*                                                                         *)
(* A page holds what it held before (Old), the page of the buffer that     *)
(* belongs there (New), or zeros that a padded write spilled (Zero).  The  *)
(* first page of the buffer carries the bytes of the TLVs ahead of the     *)
(* NDEF TLV, so New is as good as Old for them.                            *)
(***************************************************************************)
EXTENDS PageWrite

CONSTANTS
    Old, New,    \* what a page can hold, with Zero
    LastUser,    \* the last page of the chip's own user memory
    LastStatic,  \* the last page that has its lock bit among the static ones
    ChipSize,    \* the size byte of the chip's own product
    BlankSize,   \* the size byte of blank_cc(144)
    CcKinds,     \* the CCs a tag can arrive with
    Offsets,     \* the places a tag's NDEF TLV can be found at
    Lengths      \* the payload lengths

(* A container that does not claim more than the chip's user memory.        *)
Honest(cc) == cc.formatted => LastUserPage(CapacityOf(cc.size)) =< LastUser

ASSUME NdefAssumption ==
    /\ Data = {Old, New, Zero}
    /\ Old # New /\ Old # Zero /\ New # Zero
    /\ LastUser \in FirstUserPage .. LastPage
    /\ LastStatic \in Nat
    /\ ChipSize \in LockLayout /\ LastUserPage(CapacityOf(ChipSize)) = LastUser
    /\ BlankSize \in Bytes
    /\ CcKinds \subseteq Containers
    /\ \A cc \in CcKinds : Honest(cc)
    /\ Offsets \subseteq Nat
    /\ Lengths \subseteq Nat \ {0}

VARIABLES
    job,     \* the tag's CC and NDEF TLV offset, the payload length, force
    step,    \* where write_ndef is
    info,    \* what identify_tag made of the tag
    offset,  \* ndef_tlv_offset of the existing data
    i,       \* the pages of the buffer begun so far
    result   \* the outcome: "none" until write_ndef returns or raises

ndefVars == <<job, step, info, offset, i, result>>
vars == <<pageVars, ndefVars>>

Jobs == [cc : CcKinds, tlv : Offsets, len : Lengths, force : BOOLEAN]

NdefTypeOK ==
    /\ PageTypeOK
    /\ job \in Jobs
    /\ step \in {"identify", "check", "blank", "locks", "existing", "pages", "done"}
    /\ info \in Infos
    /\ offset \in Nat
    /\ i \in Nat
    /\ result \in {"none", "refused", "mismatch", "error", "ok"}

(* The container page 3 holds now.                                          *)
TagCc == IF mem[CcPage] = New
         THEN CcAfter(CcPage \in chip.otp, job.cc, BlankCc(BlankSize))
         ELSE job.cc

(* identify_tag: the CC as it is, or nothing when reading it is refused.    *)
Identified == {InfoOf(TagCc), NoInfo}

(* The lock bits that lock would set, those of page 2 and those of the      *)
(* chip's own lock page.                                                    *)
StaticLocked  == chip.locked \cap (CcPage .. LastStatic) # {}
DynamicLocked == chip.locked \cap (LastStatic + 1 .. LastUser) # {}

(* What hard_locked can answer, yes and no: an unknown lock layout counts   *)
(* as locked; the lock page of another product than the chip's is a page of *)
(* data here, which can look either way.                                    *)
HardLocked == ~StaticLocked /\ info.size = ChipSize => DynamicLocked

(* Mutant: only the static lock bits are looked at.                         *)
NotHardLockedStatic == ~StaticLocked /\ info.size \in LockLayout

NotHardLocked ==
    ~StaticLocked /\ info.size \in LockLayout /\ (info.size = ChipSize => ~DynamicLocked)

(* Mutant: -1 where no NDEF TLV is found.                                   *)
FoundOffsetsOrNone == IF job.tlv >= info.capacity THEN {-1} ELSE {job.tlv}

(* ndef_tlv_offset of the existing data: nothing to walk past when no data  *)
(* is read, 0 when every byte is skipped; when a padded CC write has        *)
(* spilled over the TLVs, wherever the walk over the zeros ends.            *)
FoundOffsets ==
    IF job.tlv >= info.capacity THEN {0}
    ELSE IF \A p \in FirstUserPage .. FirstUserPage + job.tlv \div PageSize :
                p \in Pages => mem[p] = Old
    THEN {job.tlv}
    ELSE 0 .. info.capacity - 1

(* The buffer: head and payload, padded to whole pages.                     *)
FirstOf(o)      == FirstUserPage + o \div PageSize
CountOf(o, len) == ((o % PageSize) + len + PageSize - 1) \div PageSize
LastOf(o, len)  == FirstOf(o) + CountOf(o, len) - 1

(* Mutant: the TLVs ahead of the message are not counted.                   *)
FitsFromStart(o) == job.len =< info.capacity

Fits(o) == /\ o + job.len =< info.capacity
           /\ LastOf(o, job.len) =< LastUserPage(info.capacity)

(* The pages the request is to write, once their place is known.            *)
Target == FirstOf(offset) .. LastOf(offset, job.len)

Init ==
    /\ mem = [p \in Pages |-> Old]
    /\ Idle
    /\ job \in Jobs
    /\ step = "identify"
    /\ info = NoInfo
    /\ offset = 0
    /\ i = 0
    /\ result = "none"

Finish(outcome) == step' = "done" /\ result' = outcome

-----------------------------------------------------------------------------
(* The caller's identify_tag; a UID or CC that is refused is not an error.  *)
Identify ==
    /\ step = "identify"
    /\ info' \in Identified
    /\ step' = "check"
    /\ UNCHANGED <<pageVars, job, offset, i, result>>

Formatted ==
    /\ step = "check"
    /\ info.formatted
    /\ step' = "locks"
    /\ UNCHANGED <<pageVars, job, info, offset, i, result>>

RefuseUnformatted ==
    /\ step = "check"
    /\ ~info.formatted
    /\ ~job.force
    /\ Finish("refused")
    /\ UNCHANGED <<pageVars, job, info, offset, i>>

(* Mutant: an unformatted tag is formatted without asking for force.        *)
WriteBlankCcUnasked ==
    /\ step = "check"
    /\ ~info.formatted
    /\ Begin(CcPage, New)
    /\ step' = "blank"
    /\ UNCHANGED <<job, info, offset, i, result>>

WriteBlankCc ==
    /\ step = "check"
    /\ ~info.formatted
    /\ job.force
    /\ Begin(CcPage, New)
    /\ step' = "blank"
    /\ UNCHANGED <<job, info, offset, i, result>>

(* The tag is identified again, and whatever comes of it is believed.       *)
ReIdentify ==
    /\ step = "blank"
    /\ pc = "idle"
    /\ ret = "ok"
    /\ info' \in Identified
    /\ step' = "locks"
    /\ UNCHANGED <<pageVars, job, offset, i, result>>

RefuseSoftLocked ==
    /\ step = "locks"
    /\ ~info.writable
    /\ ~job.force
    /\ Finish("refused")
    /\ UNCHANGED <<pageVars, job, info, offset, i>>

RefuseHardLocked ==
    /\ step = "locks"
    /\ ~info.writable
    /\ job.force
    /\ HardLocked
    /\ Finish("refused")
    /\ UNCHANGED <<pageVars, job, info, offset, i>>

PassLocks ==
    /\ step = "locks"
    /\ info.writable \/ (job.force /\ NotHardLocked)
    /\ step' = "existing"
    /\ UNCHANGED <<pageVars, job, info, offset, i, result>>

RefuseTooBig ==
    /\ step = "existing"
    /\ AreaReadable(info.capacity, LastPage)
    /\ \E o \in FoundOffsets :
          /\ ~Fits(o)
          /\ offset' = o
    /\ Finish("refused")
    /\ UNCHANGED <<pageVars, job, info, i>>

StartPages ==
    /\ step = "existing"
    /\ AreaReadable(info.capacity, LastPage)
    /\ \E o \in FoundOffsets :
          /\ Fits(o)
          /\ offset' = o
    /\ step' = "pages"
    /\ UNCHANGED <<pageVars, job, info, i, result>>

WriteNextPage ==
    /\ step = "pages"
    /\ i < CountOf(offset, job.len)
    /\ ret \in {"none", "ok"}
    /\ Begin(FirstOf(offset) + i, New)
    /\ i' = i + 1
    /\ UNCHANGED <<job, step, info, offset, result>>

(* write_page raised, a ReaderError or a pyscard exception.                 *)
PageWriteFailed ==
    /\ step \in {"blank", "pages"}
    /\ pc = "idle"
    /\ ret \in {"error", "raised"}
    /\ Finish("error")
    /\ UNCHANGED <<pageVars, job, info, offset, i>>

PagesWritten == step = "pages" /\ pc = "idle" /\ ret = "ok" /\ i = CountOf(offset, job.len)
ReadsBack    == \A p \in Target : ReadsAs(p) = New

(* Mutant: the statuses are taken for the outcome, nothing is read back.    *)
VerifyTrusting ==
    /\ PagesWritten
    /\ Finish("ok")
    /\ UNCHANGED <<pageVars, job, info, offset, i>>

Verify ==
    /\ PagesWritten
    /\ Finish(IF ReadsBack THEN "ok" ELSE "mismatch")
    /\ UNCHANGED <<pageVars, job, info, offset, i>>

(* A read that write_ndef or identify_tag does not shield from errors.      *)
ReadFails ==
    /\ \/ step = "identify"
       \/ step = "blank" /\ pc = "idle" /\ ret = "ok"
       \/ step = "locks" /\ ~info.writable /\ job.force
       \/ step = "existing" /\ info.capacity > 0
       \/ PagesWritten
    /\ Finish("error")
    /\ UNCHANGED <<pageVars, job, info, offset, i>>

(* One APDU of the page write in progress.                                  *)
PageStep == Apdu /\ UNCHANGED ndefVars

Next == \/ Identify \/ Formatted \/ RefuseUnformatted \/ WriteBlankCc \/ ReIdentify
        \/ RefuseSoftLocked \/ RefuseHardLocked \/ PassLocks
        \/ RefuseTooBig \/ StartPages \/ WriteNextPage \/ PageWriteFailed
        \/ Verify \/ ReadFails \/ PageStep

(* Every call on the reader answers or raises, so the thread always goes on. *)
Spec == Init /\ [][Next]_vars /\ WF_vars(Next)

-----------------------------------------------------------------------------
(* "Verified." is said only when every page of the buffer is on the tag,    *)
(* whatever the reader, and whatever the statuses said (writer.py:153-161). *)
VerifiedMeansStored == result = "ok" => \A p \in Target : p \in Pages /\ mem[p] = New

(* What a request refused without force was refused for has cost the tag    *)
(* nothing, and nothing ahead of the NDEF TLV is ever lost by such a        *)
(* request, on any reader and whichever of its page writes failed           *)
(* (writer.py:97-143: the checks come before the writes, the TLVs are       *)
(* walked past).                                                            *)
UnforcedIsCareful ==
    ~job.force => /\ mem[CcPage] = Old
                  /\ result = "refused" => \A p \in Pages : mem[p] = Old
                  /\ \A p \in Pages : p < FirstOf(offset) => mem[p] = Old

(* On a reader that discards the padding, the only pages that ever change   *)
(* are those of the buffer, front to back, and the CC of a forced request;  *)
(* what lies behind the user memory stays as it is as long as the CC does   *)
(* not claim more than the chip has (writer.py:140-151).                    *)
WritesStayInside ==
    ~reader.all16 =>
        \A p \in Pages : mem[p] # Old =>
            \/ p = CcPage /\ job.force
            \/ p \in Target /\ p < FirstOf(offset) + i /\ (Honest(TagCc) => p =< LastUser)

(* A soft-locked tag is changed only by a forced request, and only when     *)
(* none of its static lock bits is set, the lock layout of the product its  *)
(* CC names is known, and, if that is the chip's own product, none of its   *)
(* dynamic ones is set either (writer.py:107-118).  Where the CC names      *)
(* another product the dynamic bits are not what hard_locked reads, and     *)
(* nothing is promised of them.                                             *)
SoftLockHolds ==
    ~TagCc.writable /\ i > 0 =>
        /\ job.force
        /\ ~StaticLocked
        /\ TagCc.size \in LockLayout
        /\ TagCc.size = ChipSize => ~DynamicLocked

-----------------------------------------------------------------------------
(* The promise of NdefStore: the pages of the buffer are the content, and   *)
(* on a reader that discards the padding so are the pages around them.      *)
Content ==
    IF \A p \in Pages \ {CcPage} : mem[p] = Old THEN "old"
    ELSE IF ReadsBack /\ (~reader.all16 => \A p \in Pages \ Target : p # CcPage => mem[p] = Old)
    THEN "new"
    ELSE "torn"

Store == INSTANCE NdefStore WITH content <- Content, outcome <- result, spills <- reader.all16

(* write_ndef keeps NdefStore's promise, and on a reader that discards the  *)
(* padding all of it: nothing but old, torn, new, and a refusal is free     *)
(* (writer.py:93-171).                                                      *)
StoreSpec == Store!Spec
=============================================================================
