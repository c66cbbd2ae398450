-------------------------- MODULE WriteNdef_proofs --------------------------
(***************************************************************************)
(* What is proved of write_ndef for every tag, reader, payload length and  *)
(* TLV offset.                                                             *)
(***************************************************************************)
EXTENDS WriteNdef, PageWrite_proofs, Type2Tag_proofs

-----------------------------------------------------------------------------
(* The tag's CC and what is made of it, and the arithmetic of the pages.   *)

LEMMA TagCcType ==
    ASSUME job \in Jobs
    PROVE  TagCc \in Containers
BY CcAfterType, NdefAssumption DEF TagCc, Jobs, BlankCc, Containers

LEMMA IdentifiedType ==
    ASSUME job \in Jobs
    PROVE  Identified \subseteq Infos
BY TagCcType, InfoOfType DEF Identified, NoInfo, Infos, Bytes

LEMMA CountType ==
    ASSUME NEW o \in Nat, NEW len \in Nat \ {0}
    PROVE  /\ CountOf(o, len) \in Nat /\ CountOf(o, len) > 0
           /\ FirstOf(o) \in Nat /\ FirstOf(o) >= FirstUserPage
           /\ LastOf(o, len) = FirstOf(o) + CountOf(o, len) - 1
BY DEF CountOf, FirstOf, LastOf, PageSize, FirstUserPage

(* The check against the last user page never decides: whatever the        *)
(* container says, a payload that passes the capacity check ends on a user *)
(* page of it (writer.py:129-148).                                         *)
THEOREM SecondBoundIsImplied ==
    ASSUME NEW size \in Bytes, NEW o \in Nat, NEW len \in Nat \ {0},
           o + len =< CapacityOf(size)
    PROVE  LastOf(o, len) =< LastUserPage(CapacityOf(size))
<1>1. CapacityOf(size) \in Nat /\ CapacityOf(size) % 8 = 0
    BY CapacityType
<1>2. QED
    BY <1>1 DEF LastOf, FirstOf, CountOf, LastUserPage, PageSize, FirstUserPage

-----------------------------------------------------------------------------
LEMMA FoundOffsetsType ==
    ASSUME NdefTypeOK, NEW o \in FoundOffsets
    PROVE  o \in Nat
BY NdefAssumption DEF FoundOffsets, NdefTypeOK, Jobs, Infos

(* write_page's variables keep their types in every step of write_ndef.    *)
LEMMA NdefTypeInductive ==
    ASSUME NdefTypeOK, [Next]_vars
    PROVE  NdefTypeOK'
<1> USE DEF NdefTypeOK
<1>1. PageTypeOK'
  <2>1. CASE WriteBlankCc
    BY <2>1, BeginType, NdefAssumption DEF WriteBlankCc, CcPage
  <2>2. CASE WriteNextPage
    <3>1. FirstOf(offset) + i \in Nat
      BY CountType DEF FirstOf, PageSize, FirstUserPage
    <3>2. QED
      BY <2>2, <3>1, BeginType, NdefAssumption DEF WriteNextPage
  <2>3. CASE PageStep
    BY <2>3, ApduType DEF PageStep
  <2>4. CASE UNCHANGED pageVars
    BY <2>4 DEF pageVars, PageTypeOK
  <2>5. QED
    BY <2>1, <2>2, <2>3, <2>4
       DEF Next, vars, Identify, Formatted, RefuseUnformatted, ReIdentify,
           RefuseSoftLocked, RefuseHardLocked, PassLocks, RefuseTooBig, StartPages,
           PageWriteFailed, Verify, ReadFails
<1>2. /\ job' \in Jobs
      /\ step' \in {"identify", "check", "blank", "locks", "existing", "pages", "done"}
      /\ result' \in {"none", "refused", "mismatch", "error", "ok"}
    BY DEF Next, vars, Identify, Formatted, RefuseUnformatted, WriteBlankCc, ReIdentify,
           RefuseSoftLocked, RefuseHardLocked, PassLocks, RefuseTooBig, StartPages,
           WriteNextPage, PageWriteFailed, Verify, ReadFails, PageStep, ndefVars, Finish
<1>3. info' \in Infos
    BY IdentifiedType
       DEF Next, vars, Identify, Formatted, RefuseUnformatted, WriteBlankCc, ReIdentify,
           RefuseSoftLocked, RefuseHardLocked, PassLocks, RefuseTooBig, StartPages,
           WriteNextPage, PageWriteFailed, Verify, ReadFails, PageStep, ndefVars
<1>4. offset' \in Nat /\ i' \in Nat
    BY FoundOffsetsType
       DEF Next, vars, Identify, Formatted, RefuseUnformatted, WriteBlankCc, ReIdentify,
           RefuseSoftLocked, RefuseHardLocked, PassLocks, RefuseTooBig, StartPages,
           WriteNextPage, PageWriteFailed, Verify, ReadFails, PageStep, ndefVars
<1>5. QED
    BY <1>1, <1>2, <1>3, <1>4

LEMMA InitType == Init => NdefTypeOK
<1>1. NoContext \in Contexts
    BY PageAssumption DEF NoContext, Contexts
<1>2. NoInfo \in Infos
    BY DEF NoInfo, Infos, Bytes
<1>3. QED
    BY <1>1, <1>2, PageAssumption, NdefAssumption
       DEF Init, Idle, NdefTypeOK, PageTypeOK, Modes

(* Every variable of write_ndef keeps its type.                            *)
THEOREM NdefTypeCorrect == Spec => []NdefTypeOK
<1>1. NdefTypeOK /\ [Next]_vars => NdefTypeOK'
    BY NdefTypeInductive
<1>2. QED
    BY <1>1, InitType, PTL DEF Spec

-----------------------------------------------------------------------------
(* The inductive invariant.  Where write_page is tells where write_ndef is *)
(* and which page it is at.                                                *)
Control ==
    /\ pc # "idle" =>
          /\ data = New
          /\ \/ step = "blank" /\ page = CcPage
             \/ step = "pages" /\ i > 0 /\ page = FirstOf(offset) + i - 1
    /\ step = "blank" => job.force /\ info = NoInfo
    /\ step = "identify" => info = NoInfo
    /\ i > 0 => step \in {"pages", "done"} /\ i =< CountOf(offset, job.len)
    /\ step = "pages" \/ i > 0 => Fits(offset)
    /\ result # "none" => step = "done"
    /\ result = "refused" => i = 0

(* What identify_tag made of the tag is true of it, or it is nothing.      *)
InfoInv == info \in Identified

(* Past the lock checks, the tag is writable or the request may force it.  *)
LocksPassed ==
    step \in {"existing", "pages"} \/ i > 0 =>
        info.writable \/ (job.force /\ NotHardLocked)

(* Before the first page of the buffer, and for ever when write_ndef       *)
(* refuses, only a forced request has written.                             *)
UnforcedInv ==
    /\ ~job.force /\ i = 0 => \A p \in Pages : mem[p] = Old
    /\ UnforcedIsCareful

NdefInv ==
    /\ NdefTypeOK
    /\ Control
    /\ InfoInv
    /\ LocksPassed
    /\ VerifiedMeansStored

LEMMA InitInv == Init => NdefInv /\ UnforcedInv /\ WritesStayInside
<1> SUFFICES ASSUME Init PROVE NdefInv /\ UnforcedInv /\ WritesStayInside
    OBVIOUS
<1>1. NdefTypeOK
    BY InitType
<1>2. Control /\ InfoInv /\ LocksPassed /\ VerifiedMeansStored
    BY DEF Init, Idle, Control, InfoInv, Identified, LocksPassed, VerifiedMeansStored
<1>3. \A p \in Pages : mem[p] = Old
    BY DEF Init
<1>4. UnforcedInv /\ WritesStayInside
    BY <1>3, PageAssumption, NdefAssumption
       DEF UnforcedInv, UnforcedIsCareful, WritesStayInside, Pages, CcPage, FirstUserPage
<1>5. QED
    BY <1>1, <1>2, <1>4 DEF NdefInv

(* The steps of write_ndef that leave the tag and write_page alone.        *)
Quiet ==
    \/ Identify \/ Formatted \/ RefuseUnformatted \/ ReIdentify
    \/ RefuseSoftLocked \/ RefuseHardLocked \/ PassLocks
    \/ RefuseTooBig \/ StartPages \/ PageWriteFailed
    \/ Verify \/ ReadFails

LEMMA NextSplits == Next <=> Quiet \/ WriteBlankCc \/ WriteNextPage \/ PageStep
BY DEF Next, Quiet

LEMMA QuietIsQuiet ==
    ASSUME Quiet
    PROVE  UNCHANGED <<mem, chip, reader, mode, pc, page, data, ctx, ret, job>>
BY DEF Quiet, Identify, Formatted, RefuseUnformatted, ReIdentify,
       RefuseSoftLocked, RefuseHardLocked, PassLocks, RefuseTooBig, StartPages,
       PageWriteFailed, Verify, ReadFails, pageVars

(* An APDU leaves the request alone and changes no page before the one     *)
(* that is being written.                                                  *)
LEMMA ApduEffect ==
    ASSUME PageTypeOK, Apdu
    PROVE  /\ UNCHANGED <<chip, reader, page, data>>
           /\ pc # "idle"
           /\ \E n \in 0..4 : mem' = Landed(n)
           /\ ~reader.all16 => \E n \in 0..1 : mem' = Landed(n)
<1>1. /\ PlainLands \subseteq 0..1
      /\ PaddedLands \subseteq 0..4
      /\ ~reader.all16 => PaddedLands \subseteq 0..1
    BY LandsBounded, PageAssumption DEF PageTypeOK
<1>2. mem = Landed(0)
    BY DEF PageTypeOK, Landed
<1>3. CASE PlainOk \/ PlainFails \/ PlainRefused
    BY <1>1, <1>3 DEF PlainOk, PlainFails, PlainRefused
<1>4. CASE ReadContext \/ LoseContext
    BY <1>2, <1>4 DEF ReadContext, LoseContext
<1>5. CASE PaddedOk \/ PaddedFails
    BY <1>1, <1>5 DEF PaddedOk, PaddedFails
<1>6. CASE Raise
  <2>1. \/ \E n \in PlainLands : mem' = Landed(n)
        \/ \E n \in PaddedLands : mem' = Landed(n)
        \/ mem' = Landed(0)
    BY <1>6 DEF Raise
  <2>2. QED
    BY <1>1, <1>6, <2>1 DEF Raise
<1>7. QED
    BY <1>3, <1>4, <1>5, <1>6 DEF Apdu

LEMMA LandedEffect ==
    ASSUME PageTypeOK, NEW n \in 0..4, NEW q \in Pages, Landed(n)[q] # mem[q]
    PROVE  /\ q >= page
           /\ n \in 0..1 => q = page /\ Landed(n)[q] = data
<1>1. /\ q \in Nat /\ page \in Nat
      /\ q - page \in 0..(n - 1)
      /\ Landed(n)[q] = Block(q - page)
    BY PageAssumption DEF Landed, PageTypeOK, Pages
<1>2. QED
    BY <1>1 DEF Block

LEMMA CcPageIsAPage == CcPage \in Pages /\ CcPage < FirstUserPage
BY PageAssumption, NdefAssumption DEF Pages, CcPage, FirstUserPage

(* While the buffer is written the container on the tag is left alone.     *)
LEMMA TagCcKept ==
    ASSUME NdefTypeOK, Control, PageStep, step = "pages"
    PROVE  TagCc' = TagCc
<1>1. /\ UNCHANGED <<job, chip>>
      /\ pc # "idle"
      /\ PageTypeOK
    BY ApduEffect DEF PageStep, ndefVars, NdefTypeOK
<1>2. page >= FirstUserPage
    BY <1>1, CountType, NdefAssumption DEF Control, NdefTypeOK, Jobs, FirstUserPage
<1>3. mem'[CcPage] = mem[CcPage]
    BY <1>1, <1>2, ApduEffect, LandedEffect, CcPageIsAPage
       DEF PageStep, PageTypeOK, CcPage, FirstUserPage
<1>4. QED
    BY <1>1, <1>3 DEF TagCc

LEMMA Numbers ==
    ASSUME NdefTypeOK
    PROVE  /\ i \in Nat /\ offset \in Nat /\ job.len \in Nat \ {0}
           /\ info.capacity \in Nat
           /\ CountOf(offset, job.len) \in Nat
           /\ FirstOf(offset) \in Nat /\ FirstOf(offset) >= FirstUserPage
           /\ LastOf(offset, job.len) = FirstOf(offset) + CountOf(offset, job.len) - 1
<1>1. /\ i \in Nat /\ offset \in Nat /\ job.len \in Nat \ {0}
      /\ info.capacity \in Nat
    BY NdefAssumption DEF NdefTypeOK, Jobs, Infos
<1>2. QED
    BY <1>1, CountType

LEMMA ControlInductive ==
    ASSUME NdefTypeOK, Control, InfoInv, [Next]_vars
    PROVE  Control'
<1>0. i \in Nat
    BY DEF NdefTypeOK
<1>1. CASE Quiet
  <2>1. CASE StartPages
    BY <1>0, <1>1, <2>1, QuietIsQuiet DEF StartPages, Control, Fits, Finish
  <2>2. CASE RefuseTooBig
    BY <1>0, <1>1, <2>2, QuietIsQuiet DEF RefuseTooBig, Control, Fits, Finish
  <2>3. CASE \/ Identify \/ Formatted \/ RefuseUnformatted \/ ReIdentify
             \/ RefuseSoftLocked \/ RefuseHardLocked \/ PassLocks
    BY <1>0, <1>1, <2>3, QuietIsQuiet
       DEF Identify, Formatted, RefuseUnformatted, ReIdentify, RefuseSoftLocked,
           RefuseHardLocked, PassLocks, Control, Fits, Finish
  <2>4. CASE PageWriteFailed \/ Verify \/ ReadFails
    BY <1>0, <1>1, <2>4, QuietIsQuiet
       DEF PageWriteFailed, Verify, ReadFails, PagesWritten, Control, Fits, Finish
  <2>5. QED
    BY <1>1, <2>1, <2>2, <2>3, <2>4 DEF Quiet
<1>2. CASE WriteBlankCc
    BY <1>0, <1>2 DEF WriteBlankCc, Begin, Control, Fits, InfoInv, Identified, InfoOf, NoInfo
<1>3. CASE WriteNextPage
  <2>1. /\ FirstOf(offset) + i = FirstOf(offset) + (i + 1) - 1
        /\ i + 1 > 0 /\ i + 1 =< CountOf(offset, job.len)
    BY <1>3, Numbers DEF WriteNextPage
  <2>2. QED
    BY <1>3, <2>1 DEF WriteNextPage, Begin, Control, Fits
<1>4. CASE PageStep
    BY <1>4, ApduEffect DEF PageStep, ndefVars, Control, Fits, NdefTypeOK
<1>5. CASE UNCHANGED vars
    BY <1>5 DEF vars, pageVars, ndefVars, Control, Fits
<1>6. QED
    BY <1>1, <1>2, <1>3, <1>4, <1>5, NextSplits

LEMMA InfoInductive ==
    ASSUME NdefTypeOK, Control, InfoInv, [Next]_vars
    PROVE  InfoInv'
<1> USE DEF InfoInv, Identified
<1>1. CASE Quiet
  <2>1. TagCc' = TagCc
    BY <1>1, QuietIsQuiet DEF TagCc
  <2>2. CASE Identify \/ ReIdentify
    BY <2>1, <2>2 DEF Identify, ReIdentify
  <2>3. CASE ~(Identify \/ ReIdentify)
    BY <1>1, <2>1, <2>3
       DEF Quiet, Formatted, RefuseUnformatted, RefuseSoftLocked, RefuseHardLocked,
           PassLocks, RefuseTooBig, StartPages, PageWriteFailed, Verify, ReadFails
  <2>4. QED
    BY <2>2, <2>3
<1>2. CASE WriteBlankCc \/ WriteNextPage
    BY <1>2 DEF WriteBlankCc, WriteNextPage, Begin, TagCc
<1>3. CASE PageStep
  <2>1. CASE step = "pages"
    BY <1>3, <2>1, TagCcKept DEF PageStep, ndefVars
  <2>2. CASE step # "pages"
    BY <1>3, <2>2, ApduEffect DEF PageStep, ndefVars, Control, NdefTypeOK
  <2>3. QED
    BY <2>1, <2>2
<1>4. CASE UNCHANGED vars
    BY <1>4 DEF vars, pageVars, ndefVars, TagCc
<1>5. QED
    BY <1>1, <1>2, <1>3, <1>4, NextSplits

LEMMA LocksInductive ==
    ASSUME NdefTypeOK, Control, LocksPassed, [Next]_vars
    PROVE  LocksPassed'
<1>1. CASE Quiet
    BY <1>1, QuietIsQuiet
       DEF Quiet, Identify, Formatted, RefuseUnformatted, ReIdentify, RefuseSoftLocked,
           RefuseHardLocked, PassLocks, RefuseTooBig, StartPages, PageWriteFailed,
           Verify, ReadFails, Control, LocksPassed, NotHardLocked, StaticLocked,
           DynamicLocked, Finish
<1>2. CASE WriteBlankCc \/ WriteNextPage
    BY <1>2 DEF WriteBlankCc, WriteNextPage, Begin, Control, LocksPassed,
                NotHardLocked, StaticLocked, DynamicLocked
<1>3. CASE PageStep
    BY <1>3, ApduEffect DEF PageStep, ndefVars, LocksPassed, NotHardLocked, StaticLocked,
                            DynamicLocked, NdefTypeOK
<1>4. CASE UNCHANGED vars
    BY <1>4 DEF vars, pageVars, ndefVars, LocksPassed, NotHardLocked, StaticLocked,
                DynamicLocked
<1>5. QED
    BY <1>1, <1>2, <1>3, <1>4, NextSplits

LEMMA VerifiedInductive ==
    ASSUME NdefTypeOK, Control, VerifiedMeansStored, [Next]_vars
    PROVE  VerifiedMeansStored'
<1>1. CASE Verify
  <2>1. UNCHANGED <<mem, job, offset>>
    BY <1>1, QuietIsQuiet DEF Verify, Quiet
  <2>2. result' = "ok" => ReadsBack
    BY <1>1 DEF Verify, Finish
  <2>3. ReadsBack => \A p \in Target : p \in Pages /\ mem[p] = New
    BY NdefAssumption DEF ReadsBack, ReadsAs
  <2>4. QED
    BY <2>1, <2>2, <2>3 DEF VerifiedMeansStored, Target
<1>2. CASE Quiet /\ ~Verify
    BY <1>2, QuietIsQuiet
       DEF Quiet, Identify, Formatted, RefuseUnformatted, ReIdentify, RefuseSoftLocked,
           RefuseHardLocked, PassLocks, RefuseTooBig, StartPages, PageWriteFailed,
           ReadFails, Control, VerifiedMeansStored, Finish, Target
<1>3. CASE WriteBlankCc \/ WriteNextPage \/ PageStep
  <2>1. result' # "ok"
    BY <1>3, ApduEffect
       DEF WriteBlankCc, WriteNextPage, PageStep, ndefVars, Control, NdefTypeOK
  <2>2. QED
    BY <2>1 DEF VerifiedMeansStored
<1>4. CASE UNCHANGED vars
    BY <1>4 DEF vars, pageVars, ndefVars, VerifiedMeansStored, Target
<1>5. QED
    BY <1>1, <1>2, <1>3, <1>4, NextSplits

LEMMA NdefInvInductive ==
    ASSUME NdefInv, [Next]_vars
    PROVE  NdefInv'
BY NdefTypeInductive, ControlInductive, InfoInductive, LocksInductive, VerifiedInductive
   DEF NdefInv

LEMMA NdefInvariance == Spec => []NdefInv
<1>1. NdefInv /\ [Next]_vars => NdefInv'
    BY NdefInvInductive
<1>2. Init => NdefInv
    BY InitInv
<1>3. QED
    BY <1>1, <1>2, PTL DEF Spec

(* "Verified." is true of the tag.                                         *)
THEOREM VerifiedCorrect == Spec => []VerifiedMeansStored
<1>1. NdefInv => VerifiedMeansStored
    BY DEF NdefInv
<1>2. QED
    BY <1>1, NdefInvariance, PTL

(* A soft lock is overridden only by a forced request, and only on a tag   *)
(* none of whose lock bits that hard_locked reads is set: the static ones, *)
(* and the dynamic ones where the CC names the chip's own product.         *)
THEOREM SoftLockCorrect == Spec => []SoftLockHolds
<1>1. NdefInv => SoftLockHolds
  <2> SUFFICES ASSUME NdefInv, ~TagCc.writable, i > 0
               PROVE  /\ job.force /\ ~StaticLocked /\ TagCc.size \in LockLayout
                      /\ TagCc.size = ChipSize => ~DynamicLocked
    BY DEF SoftLockHolds
  <2>1. info.capacity > 0
    BY Numbers DEF NdefInv, Control, Fits
  <2>2. info = InfoOf(TagCc) /\ TagCc.formatted
    BY <2>1 DEF NdefInv, InfoInv, Identified, NoInfo, InfoOf
  <2>3. ~info.writable /\ info.size = TagCc.size
    BY <2>2 DEF InfoOf
  <2>4. job.force /\ NotHardLocked
    BY <2>3 DEF NdefInv, LocksPassed
  <2>5. QED
    BY <2>3, <2>4 DEF NotHardLocked
<1>2. QED
    BY <1>1, NdefInvariance, PTL

-----------------------------------------------------------------------------
(* Where an APDU of write_page can reach: the CC while it is being         *)
(* written, and after that nothing before the page of the buffer in turn.  *)
LEMMA Reach ==
    ASSUME NdefInv, PageStep
    PROVE  /\ UNCHANGED <<ndefVars, chip, reader>>
           /\ \/ step = "blank" /\ page = CcPage /\ job.force
              \/ /\ step = "pages" /\ i > 0 /\ i =< CountOf(offset, job.len)
                 /\ Fits(offset)
                 /\ page = FirstOf(offset) + i - 1
                 /\ TagCc' = TagCc
           /\ \A q \in Pages : mem'[q] # mem[q] => q >= page
           /\ ~reader.all16 =>
                 \A q \in Pages : mem'[q] # mem[q] => q = page /\ mem'[q] = New
<1>1. PageTypeOK /\ Apdu /\ UNCHANGED ndefVars
    BY DEF NdefInv, NdefTypeOK, PageStep
<1>2. pc # "idle" /\ data = New /\ UNCHANGED <<chip, reader>>
    BY <1>1, ApduEffect DEF NdefInv, Control
<1>3. /\ \A q \in Pages : mem'[q] # mem[q] => q >= page
      /\ ~reader.all16 =>
            \A q \in Pages : mem'[q] # mem[q] => q = page /\ mem'[q] = New
    BY <1>1, <1>2, ApduEffect, LandedEffect
<1>4. CASE step = "pages"
    BY <1>1, <1>2, <1>3, <1>4, TagCcKept DEF NdefInv, Control
<1>5. CASE step # "pages"
    BY <1>1, <1>2, <1>3, <1>5 DEF NdefInv, Control
<1>6. QED
    BY <1>4, <1>5

LEMMA UnforcedInductive ==
    ASSUME NdefInv, UnforcedInv, [Next]_vars
    PROVE  UnforcedInv'
<1>0. /\ i \in Nat /\ FirstOf(offset) >= FirstUserPage /\ FirstOf(offset) \in Nat
      /\ CcPage \in Pages /\ CcPage < FirstUserPage
    BY Numbers, CcPageIsAPage DEF NdefInv
<1> SUFFICES ASSUME ~job'.force
             PROVE  /\ i' = 0 => \A p \in Pages : mem'[p] = Old
                    /\ mem'[CcPage] = Old
                    /\ result' = "refused" => \A p \in Pages : mem'[p] = Old
                    /\ \A p \in Pages : p < FirstOf(offset') => mem'[p] = Old
    BY DEF UnforcedInv, UnforcedIsCareful, FirstOf
<1>1. CASE Quiet
  <2>1. mem' = mem /\ job' = job
    BY <1>1, QuietIsQuiet
  <2>2. i' = i
    BY <1>1 DEF Quiet, Identify, Formatted, RefuseUnformatted, ReIdentify,
                RefuseSoftLocked, RefuseHardLocked, PassLocks, RefuseTooBig, StartPages,
                PageWriteFailed, Verify, ReadFails
  <2>3. result' = "refused" => i = 0
    BY <1>0, <1>1, <2>2, ControlInductive DEF NdefInv, Control, Next, Quiet
  <2>4. i # 0 => offset' = offset
    BY <1>1 DEF Quiet, Identify, Formatted, RefuseUnformatted, ReIdentify,
                RefuseSoftLocked, RefuseHardLocked, PassLocks, RefuseTooBig, StartPages,
                PageWriteFailed, Verify, ReadFails, NdefInv, NdefTypeOK, Control
  <2>5. CASE i = 0
    BY <1>0, <2>1, <2>2, <2>5 DEF UnforcedInv
  <2>6. CASE i # 0
    BY <2>1, <2>2, <2>3, <2>4, <2>6 DEF UnforcedInv, UnforcedIsCareful
  <2>7. QED
    BY <2>5, <2>6
<1>2. CASE WriteBlankCc
    BY <1>2 DEF WriteBlankCc
<1>3. CASE WriteNextPage
  <2>1. i' # 0 /\ result' # "refused" /\ mem' = mem /\ job' = job /\ offset' = offset
    BY <1>0, <1>3 DEF WriteNextPage, Begin, NdefInv, Control
  <2>2. QED
    BY <2>1 DEF UnforcedInv, UnforcedIsCareful
<1>4. CASE PageStep
  <2>1. /\ job' = job /\ i' = i /\ offset' = offset /\ result' = result
        /\ step = "pages" /\ i > 0 /\ page = FirstOf(offset) + i - 1
    BY <1>4, Reach DEF ndefVars
  <2>2. result # "refused"
    BY <2>1 DEF NdefInv, Control
  <2>3. page \in Nat /\ page >= FirstOf(offset)
    BY <1>0, <2>1
  <2>4. \A q \in Pages : q < FirstOf(offset) => mem'[q] = mem[q]
    BY <1>0, <1>4, <2>3, Reach, PageAssumption DEF Pages
  <2>5. QED
    BY <1>0, <2>1, <2>2, <2>4 DEF UnforcedInv, UnforcedIsCareful, CcPage, FirstUserPage
<1>5. CASE UNCHANGED vars
    BY <1>5 DEF vars, pageVars, ndefVars, UnforcedInv, UnforcedIsCareful
<1>6. QED
    BY <1>1, <1>2, <1>3, <1>4, <1>5, NextSplits

(* A request that is not forced keeps the CC and the TLVs ahead of the     *)
(* message, and a refusal keeps everything, on every reader.               *)
THEOREM UnforcedCorrect == Spec => []UnforcedIsCareful
<1>1. NdefInv /\ UnforcedInv /\ [Next]_vars => UnforcedInv'
    BY UnforcedInductive
<1>2. Init => UnforcedInv
    BY InitInv
<1>3. UnforcedInv => UnforcedIsCareful
    BY DEF UnforcedInv
<1>4. QED
    BY <1>1, <1>2, <1>3, NdefInvariance, PTL DEF Spec

-----------------------------------------------------------------------------
(* The pages of the buffer lie inside the chip when its CC is honest.      *)
LEMMA TargetInside ==
    ASSUME NdefInv, Fits(offset), Honest(TagCc)
    PROVE  LastOf(offset, job.len) =< LastUser
<1>1. info # NoInfo
    BY Numbers DEF NdefInv, Fits, NoInfo
<1>2. TagCc.formatted /\ info.capacity = CapacityOf(TagCc.size)
    BY <1>1 DEF NdefInv, InfoInv, Identified, InfoOf
<1>3. LastUserPage(info.capacity) =< LastUser
    BY <1>2 DEF Honest
<1>4. /\ LastOf(offset, job.len) \in Int /\ LastUser \in Int
      /\ LastUserPage(info.capacity) \in Int
    BY Numbers, NdefAssumption, PageAssumption
       DEF NdefInv, LastUserPage, FirstUserPage, PageSize
<1>5. QED
    BY <1>3, <1>4 DEF Fits

LEMMA StayInsideInductive ==
    ASSUME NdefInv, WritesStayInside, [Next]_vars
    PROVE  WritesStayInside'
<1>0. /\ i \in Nat /\ FirstOf(offset) \in Nat
      /\ CountOf(offset, job.len) \in Nat
      /\ LastOf(offset, job.len) = FirstOf(offset) + CountOf(offset, job.len) - 1
    BY Numbers DEF NdefInv
<1>1. CASE Quiet
  <2>1. mem' = mem /\ job' = job /\ reader' = reader /\ TagCc' = TagCc
    BY <1>1, QuietIsQuiet DEF TagCc
  <2>2. i' = i /\ (i # 0 => offset' = offset)
    BY <1>1 DEF Quiet, Identify, Formatted, RefuseUnformatted, ReIdentify,
                RefuseSoftLocked, RefuseHardLocked, PassLocks, RefuseTooBig, StartPages,
                PageWriteFailed, Verify, ReadFails, NdefInv, NdefTypeOK, Control
  <2>3. CASE i = 0
    BY <1>0, <2>1, <2>2, <2>3, PageAssumption DEF WritesStayInside, Target, Pages
  <2>4. CASE i # 0
    BY <2>1, <2>2, <2>4 DEF WritesStayInside, Target, Honest
  <2>5. QED
    BY <2>3, <2>4
<1>2. CASE WriteBlankCc
    BY <1>2 DEF WriteBlankCc, Begin, WritesStayInside, Target, TagCc, Honest
<1>3. CASE WriteNextPage
  <2>1. /\ mem' = mem /\ job' = job /\ reader' = reader /\ TagCc' = TagCc
        /\ offset' = offset /\ i' = i + 1
    BY <1>3 DEF WriteNextPage, Begin, TagCc
  <2>2. \A p \in Pages : p < FirstOf(offset) + i => p < FirstOf(offset) + (i + 1)
    BY <1>0, PageAssumption DEF Pages
  <2>3. QED
    BY <2>1, <2>2 DEF WritesStayInside, Target, Honest
<1>4. CASE PageStep
  <2> SUFFICES ASSUME ~reader.all16, NEW p \in Pages, mem'[p] # Old
               PROVE  \/ p = CcPage /\ job.force
                      \/ /\ p \in Target /\ p < FirstOf(offset) + i
                         /\ Honest(TagCc)' => p =< LastUser
    BY <1>4, Reach DEF ndefVars, WritesStayInside, Target, Honest
  <2>1. CASE step = "blank"
    <3>1. page = CcPage /\ job.force /\ i = 0
      BY <1>0, <1>4, <2>1, Reach DEF NdefInv, Control
    <3>2. ~(p \in Target /\ p < FirstOf(offset) + i)
      BY <1>0, <3>1, PageAssumption DEF Target, Pages
    <3>3. QED
      BY <1>4, <3>1, <3>2, Reach DEF WritesStayInside
  <2>2. CASE step = "pages"
    <3>1. /\ i > 0 /\ i =< CountOf(offset, job.len) /\ Fits(offset)
          /\ page = FirstOf(offset) + i - 1
          /\ TagCc' = TagCc
      BY <1>4, <2>2, Reach
    <3>2. CASE p = page
      BY <1>0, <3>1, <3>2, TargetInside, NdefAssumption, PageAssumption
         DEF Target, Pages, Honest
    <3>3. CASE p # page
      BY <1>4, <3>1, <3>3, Reach DEF WritesStayInside, Honest
    <3>4. QED
      BY <3>2, <3>3
  <2>3. QED
    BY <1>4, <2>1, <2>2, Reach
<1>5. CASE UNCHANGED vars
    BY <1>5 DEF vars, pageVars, ndefVars, WritesStayInside, Target, TagCc, Honest
<1>6. QED
    BY <1>1, <1>2, <1>3, <1>4, <1>5, NextSplits

(* On a reader that discards the padding, write_ndef writes the CC when    *)
(* forced and the pages of its buffer, and no page behind user memory.     *)
THEOREM StayInsideCorrect == Spec => []WritesStayInside
<1>1. NdefInv /\ WritesStayInside /\ [Next]_vars => WritesStayInside'
    BY StayInsideInductive
<1>2. Init => WritesStayInside
    BY InitInv
<1>3. QED
    BY <1>1, <1>2, NdefInvariance, PTL DEF Spec

-----------------------------------------------------------------------------
(* NdefStore's promise, step by step.  No page but the CC holds the new    *)
(* message before its turn; and write_page's own invariant tells what a    *)
(* spill can do to the pages around.                                       *)
NewBehind ==
    \A p \in Pages \ {CcPage} :
        mem[p] = New => i > 0 /\ p \in FirstOf(offset) .. FirstOf(offset) + i - 1

StoreInv == NdefInv /\ PageInv /\ WritesStayInside /\ NewBehind

LEMMA PageInvStep ==
    ASSUME NdefInv, PageInv, [Next]_vars
    PROVE  PageInv'
<1>1. ASSUME NEW p \in Nat, Begin(p, New)
      PROVE  PageInv'
  <2>1. PageTypeOK'
    BY <1>1, BeginType, NdefAssumption DEF PageInv
  <2>2. QED
    BY <1>1, <2>1 DEF PageInv, Begin, ModeIsHonest, ContextInv
<1>2. CASE WriteBlankCc
    BY <1>1, <1>2 DEF WriteBlankCc, CcPage
<1>3. CASE WriteNextPage
  <2>1. FirstOf(offset) + i \in Nat
    BY Numbers DEF NdefInv
  <2>2. QED
    BY <1>1, <1>3, <2>1 DEF WriteNextPage
<1>4. CASE PageStep
    BY <1>4, PageInvInductive DEF PageStep, PageNext
<1>5. CASE UNCHANGED pageVars
    BY <1>5, PageInvInductive
<1>6. CASE Quiet
    BY <1>5, <1>6, QuietIsQuiet DEF pageVars
<1>7. QED
    BY <1>2, <1>3, <1>4, <1>5, <1>6, NextSplits DEF vars

(* A page changes to the new message in its turn, and to zeros when a      *)
(* reader that stores all 16 bytes spills over it.                         *)
LEMMA PageChanges ==
    ASSUME NdefInv, PageInv, PageStep, NEW q \in Pages, mem'[q] # mem[q]
    PROVE  /\ q = page => mem'[q] = New
           /\ q # page => reader.all16 /\ q > page /\ mem'[q] = Zero
<1>1. PageTypeOK /\ Apdu /\ data = New
    BY ApduEffect DEF NdefInv, NdefTypeOK, Control, PageStep
<1>2. page \in Nat /\ q \in Nat
    BY <1>1, PageAssumption DEF PageTypeOK, Pages
<1>3. CASE q = page
  <2>1. PICK n \in 0..4 : mem' = Landed(n)
    BY <1>1, ApduEffect
  <2>2. Landed(n)[q] = Block(q - page)
    BY <2>1 DEF Landed
  <2>3. QED
    BY <1>1, <1>2, <1>3, <2>1, <2>2 DEF Block
<1>4. CASE q # page
    BY <1>1, <1>2, <1>4, ApduDamage
<1>5. QED
    BY <1>3, <1>4

LEMMA NewBehindStep ==
    ASSUME NdefInv, PageInv, NewBehind, [Next]_vars
    PROVE  NewBehind'
<1>0. i \in Nat /\ FirstOf(offset) \in Nat
    BY Numbers DEF NdefInv
<1>1. CASE Quiet
  <2>1. mem' = mem
    BY <1>1, QuietIsQuiet
  <2>2. i' = i /\ (i # 0 => offset' = offset)
    BY <1>1 DEF Quiet, Identify, Formatted, RefuseUnformatted, ReIdentify,
                RefuseSoftLocked, RefuseHardLocked, PassLocks, RefuseTooBig, StartPages,
                PageWriteFailed, Verify, ReadFails, NdefInv, NdefTypeOK, Control
  <2>3. CASE i = 0
    BY <2>1, <2>3 DEF NewBehind
  <2>4. CASE i # 0
    BY <2>1, <2>2, <2>4 DEF NewBehind
  <2>5. QED
    BY <2>3, <2>4
<1>2. CASE WriteBlankCc
    BY <1>2 DEF WriteBlankCc, Begin, NewBehind
<1>3. CASE WriteNextPage
  <2>1. mem' = mem /\ offset' = offset /\ i' = i + 1
    BY <1>3 DEF WriteNextPage, Begin
  <2>2. FirstOf(offset) .. FirstOf(offset) + i - 1
          \subseteq FirstOf(offset) .. FirstOf(offset) + (i + 1) - 1
    BY <1>0
  <2>3. QED
    BY <1>0, <2>1, <2>2 DEF NewBehind
<1>4. CASE PageStep
  <2> SUFFICES ASSUME NEW p \in Pages \ {CcPage}, mem'[p] = New
               PROVE  i > 0 /\ p \in FirstOf(offset) .. FirstOf(offset) + i - 1
    BY <1>4, Reach DEF NewBehind, ndefVars
  <2>1. CASE mem[p] = New
    BY <2>1 DEF NewBehind
  <2>2. CASE mem[p] # New
    <3>1. p = page
      BY <1>4, <2>2, PageChanges, NdefAssumption
    <3>2. page = FirstOf(offset) + i - 1 /\ i > 0
      BY <1>4, <3>1, Reach
    <3>3. QED
      BY <1>0, <3>1, <3>2
  <2>3. QED
    BY <2>1, <2>2
<1>5. CASE UNCHANGED vars
    BY <1>5 DEF vars, pageVars, ndefVars, NewBehind
<1>6. QED
    BY <1>1, <1>2, <1>3, <1>4, <1>5, NextSplits

LEMMA StoreInvariance == Spec => []StoreInv
<1>1. Init => PageInv /\ NewBehind
  <2>1. Init => PageTypeOK
    BY InitType DEF NdefTypeOK
  <2>2. QED
    BY <2>1, NdefAssumption
       DEF Init, Idle, PageInv, ModeIsHonest, ContextInv, NewBehind
<1>2. Init => StoreInv
    BY <1>1, InitInv DEF StoreInv
<1>3. StoreInv /\ [Next]_vars => StoreInv'
    BY NdefInvInductive, PageInvStep, StayInsideInductive, NewBehindStep DEF StoreInv
<1>4. QED
    BY <1>2, <1>3, PTL DEF Spec

(* The buffer has pages, and none of them is the CC.                       *)
LEMMA BufferPages ==
    ASSUME NdefTypeOK
    PROVE  /\ FirstOf(offset) \in Target /\ LastOf(offset, job.len) \in Target
           /\ \A p \in Target : p \in Nat /\ p # CcPage
           /\ \A p \in Target : p >= FirstOf(offset) /\ p =< LastOf(offset, job.len)
<1>1. PICK first \in Nat, count \in Nat :
          /\ first = FirstOf(offset) /\ count = CountOf(offset, job.len)
          /\ first >= FirstUserPage /\ count > 0
          /\ LastOf(offset, job.len) = first + count - 1
    BY Numbers, CountType
<1>2. Target = first .. first + count - 1
    BY <1>1 DEF Target
<1>3. QED
    BY <1>1, <1>2 DEF CcPage, FirstUserPage

LEMMA AllNew ==
    ASSUME NdefTypeOK, ReadsBack
    PROVE  \A p \in Target : p \in Pages \ WriteOnly /\ mem[p] = New
BY NdefAssumption DEF ReadsBack, ReadsAs

(* Nothing of the message reads back from a tag that holds nothing of it.  *)
LEMMA NoneNew ==
    ASSUME NEW o \in Nat, NEW len \in Nat \ {0}, NEW m,
           \A p \in Pages \ {CcPage} : m[p] # New
    PROVE  ~ \A p \in FirstOf(o) .. LastOf(o, len) :
                (IF p \in Pages \ WriteOnly THEN m[p] ELSE Zero) = New
<1>1. FirstOf(o) \in FirstOf(o) .. LastOf(o, len) /\ FirstOf(o) # CcPage
    BY CountType DEF CcPage, FirstUserPage
<1>2. (IF FirstOf(o) \in Pages \ WriteOnly THEN m[FirstOf(o)] ELSE Zero) # New
    BY <1>1, NdefAssumption
<1>3. QED
    BY <1>1, <1>2

LEMMA ContentStates == Content \in {"old", "torn", "new"}
BY DEF Content

(* The steps of write_ndef itself leave the content as it is, also the one *)
(* that learns where the buffer belongs.                                   *)
LEMMA QuietContent ==
    ASSUME StoreInv, NdefTypeOK', Quiet
    PROVE  Content' = Content
<1>1. mem' = mem /\ reader' = reader /\ job' = job
    BY QuietIsQuiet
<1>2. i # 0 => offset' = offset
    BY DEF Quiet, Identify, Formatted, RefuseUnformatted, ReIdentify, RefuseSoftLocked,
           RefuseHardLocked, PassLocks, RefuseTooBig, StartPages, PageWriteFailed, Verify,
           ReadFails, StoreInv, NdefInv, NdefTypeOK, Control
<1>3. CASE offset' = offset
    BY <1>1, <1>3 DEF Content, ReadsBack, Target, ReadsAs
<1>4. CASE i = 0
  <2>1. \A p \in Pages \ {CcPage} : mem[p] # New
    BY <1>4 DEF StoreInv, NewBehind
  <2>2. offset \in Nat /\ offset' \in Nat /\ job.len \in Nat \ {0}
    BY Numbers DEF StoreInv, NdefInv, NdefTypeOK
  <2>3. ~ReadsBack
    BY <2>1, <2>2, NoneNew DEF ReadsBack, Target, ReadsAs
  <2>4. ~ReadsBack'
    BY <1>1, <2>1, <2>2, NoneNew DEF ReadsBack, Target, ReadsAs
  <2>5. QED
    BY <1>1, <2>3, <2>4 DEF Content
<1>5. QED
    BY <1>2, <1>3, <1>4

(* An APDU never brings the old message back, and never loses the new one. *)
LEMMA ApduContent ==
    ASSUME StoreInv, PageStep
    PROVE  /\ Content = "new" => Content' = "new"
           /\ Content = "torn" => Content' # "old"
<1>0. /\ NdefInv /\ PageInv /\ NdefTypeOK /\ NewBehind
      /\ UNCHANGED <<ndefVars, chip, reader>>
    BY Reach DEF StoreInv, NdefInv
<1>1. Target' = Target /\ offset' = offset /\ job' = job /\ reader' = reader
    BY <1>0 DEF ndefVars, Target
<1>2. ASSUME Content = "torn"
      PROVE  Content' # "old"
  <2>1. PICK p \in Pages \ {CcPage} : mem[p] # Old
    BY <1>2 DEF Content
  <2>2. mem'[p] # Old
    BY <1>0, <2>1, PageChanges, NdefAssumption
  <2>3. QED
    BY <2>2 DEF Content
<1>3. ASSUME Content = "new"
      PROVE  Content' = "new"
  <2>1. /\ ReadsBack
        /\ ~reader.all16 => \A p \in Pages \ Target : p # CcPage => mem[p] = Old
    BY <1>3 DEF Content
  <2>2. \A p \in Target : p \in Pages \ WriteOnly /\ mem[p] = New
    BY <1>0, <2>1, AllNew
  <2>3. /\ i \in Nat /\ FirstOf(offset) \in Nat
        /\ LastOf(offset, job.len) \in Target /\ FirstOf(offset) \in Target
        /\ \A p \in Target : p \in Nat /\ p # CcPage /\ p =< LastOf(offset, job.len)
    BY <1>0, Numbers, BufferPages
  <2>4. LastOf(offset, job.len) =< FirstOf(offset) + i - 1 /\ i > 0
    BY <1>0, <2>2, <2>3 DEF NewBehind
  <2>5. page = FirstOf(offset) + i - 1 /\ i =< CountOf(offset, job.len)
    BY <1>0, <2>3, <2>4, Reach DEF NdefInv, Control
  <2>6. page = LastOf(offset, job.len)
    BY <1>0, <2>3, <2>4, <2>5, Numbers
  <2>7. \A p \in Target : mem'[p] = New
    <3> SUFFICES ASSUME NEW p \in Target, mem'[p] # New
                 PROVE  FALSE
        OBVIOUS
    <3>1. p # page /\ p > page
        BY <1>0, <2>2, PageChanges
    <3>2. QED
        BY <2>3, <2>6, <3>1
  <2>8. ReadsBack'
    BY <1>1, <2>2, <2>7 DEF ReadsBack, ReadsAs
  <2>9. ~reader.all16 => \A p \in Pages \ Target : p # CcPage => mem'[p] = Old
    BY <1>0, <2>1, <2>3, <2>6, PageChanges
  <2>10. mem'[FirstOf(offset)] # Old /\ FirstOf(offset) \in Pages \ {CcPage}
    BY <2>2, <2>3, <2>7, NdefAssumption
  <2>11. QED
    BY <1>1, <2>8, <2>9, <2>10 DEF Content
<1>4. QED
    BY <1>2, <1>3

(* A refusal comes before anything is written, on a reader that discards   *)
(* the padding.                                                            *)
LEMMA RefusedIsOld ==
    ASSUME StoreInv, i = 0, ~reader.all16
    PROVE  Content = "old"
<1>1. \A p \in Pages : mem[p] # Old => p = CcPage \/ (p \in Target /\ p < FirstOf(offset) + i)
    BY DEF StoreInv, WritesStayInside
<1>2. \A p \in Target : p \in Nat /\ p >= FirstOf(offset)
    BY BufferPages DEF StoreInv, NdefInv
<1>3. FirstOf(offset) \in Nat
    BY Numbers DEF StoreInv, NdefInv
<1>4. \A p \in Pages \ {CcPage} : mem[p] = Old
    BY <1>1, <1>2, <1>3
<1>5. QED
    BY <1>4 DEF Content

(* What is confirmed is new, and what is not is not.                       *)
LEMMA VerdictIsTrue ==
    ASSUME StoreInv
    PROVE  ReadsBack <=> Content = "new"
<1>1. Content = "new" => ReadsBack
    BY DEF Content
<1>2. ASSUME ReadsBack
      PROVE  Content = "new"
  <2>1. FirstOf(offset) \in Pages \ {CcPage} /\ mem[FirstOf(offset)] # Old
    BY <1>2, AllNew, BufferPages, NdefAssumption DEF StoreInv, NdefInv
  <2>2. ~reader.all16 => \A p \in Pages \ Target : p # CcPage => mem[p] = Old
    BY DEF StoreInv, WritesStayInside
  <2>3. QED
    BY <1>2, <2>1, <2>2 DEF Content
<1>3. QED
    BY <1>1, <1>2

(* Every step of write_ndef is one of NdefStore or changes nothing of it.  *)
LEMMA StoreStep ==
    ASSUME StoreInv, NdefTypeOK', Next
    PROVE  Store!Next \/ UNCHANGED <<Content, result, reader.all16>>
<1>1. ASSUME Quiet, NEW o, Finish(o)
      PROVE  /\ Content' = Content /\ reader' = reader
             /\ step # "done" => result = "none" /\ Store!Report(o)
  <2>1. Content' = Content /\ reader' = reader
    BY <1>1, QuietContent, QuietIsQuiet
  <2>2. step # "done" => result = "none"
    BY DEF StoreInv, NdefInv, Control
  <2>3. QED
    BY <1>1, <2>1, <2>2 DEF Finish, Store!Report
<1>2. CASE Quiet /\ UNCHANGED result
    BY <1>2, QuietContent, QuietIsQuiet
<1>3. CASE RefuseUnformatted \/ RefuseSoftLocked \/ RefuseHardLocked \/ RefuseTooBig
  <2>1. Quiet /\ step \in {"check", "locks", "existing"} /\ Finish("refused")
    BY <1>3 DEF Quiet, RefuseUnformatted, RefuseSoftLocked, RefuseHardLocked, RefuseTooBig
  <2>2. i = 0
    BY <2>1 DEF StoreInv, NdefInv, NdefTypeOK, Control
  <2>3. QED
    BY <1>1, <2>1, <2>2, RefusedIsOld DEF Store!Next, Store!Refuse
<1>4. CASE PageWriteFailed \/ ReadFails
  <2>1. Quiet /\ step # "done" /\ Finish("error")
    BY <1>4 DEF Quiet, PageWriteFailed, ReadFails, PagesWritten
  <2>2. QED
    BY <1>1, <2>1 DEF Store!Next, Store!Fail
<1>5. CASE Verify
  <2>1. Quiet /\ step # "done"
    BY <1>5 DEF Quiet, Verify, PagesWritten
  <2>2. CASE ReadsBack
    BY <1>1, <1>5, <2>1, <2>2, VerdictIsTrue DEF Verify, Store!Next, Store!Confirm
  <2>3. CASE ~ReadsBack
    BY <1>1, <1>5, <2>1, <2>3, VerdictIsTrue DEF Verify, Store!Next, Store!Mismatch
  <2>4. QED
    BY <2>2, <2>3
<1>6. CASE WriteBlankCc \/ WriteNextPage
  <2>1. UNCHANGED <<mem, reader, job, offset, result>>
    BY <1>6 DEF WriteBlankCc, WriteNextPage, Begin
  <2>2. QED
    BY <2>1 DEF Content, ReadsBack, Target, ReadsAs
<1>7. CASE PageStep
  <2>1. reader' = reader /\ result' = result /\ result = "none"
    BY <1>7, Reach DEF ndefVars, StoreInv, NdefInv, Control
  <2>2. Content' = Content \/ (Content # "new" /\ Content' \in {"torn", "new"})
    <3>1. Content \in {"old", "torn", "new"} /\ Content' \in {"old", "torn", "new"}
      BY DEF Content
    <3>2. QED
      BY <1>7, <3>1, ApduContent
  <2>3. QED
    BY <2>1, <2>2 DEF Store!Next, Store!Change
<1>8. CASE Identify \/ Formatted \/ ReIdentify \/ PassLocks \/ StartPages
  <2>1. Quiet /\ UNCHANGED result
    BY <1>8 DEF Quiet, Identify, Formatted, ReIdentify, PassLocks, StartPages
  <2>2. QED
    BY <1>2, <2>1
<1>9. QED
    BY <1>3, <1>4, <1>5, <1>6, <1>7, <1>8 DEF Next

(* write_ndef keeps NdefStore's promise: from the old message at most to   *)
(* the new one, nothing lost of it once it is stored, and every report     *)
(* true of the tag (writer.py:93-171).                                     *)
THEOREM StoreCorrect == Spec => Store!Safe
<1>1. Init => Store!Init
  <2> SUFFICES ASSUME Init
               PROVE  Store!Init
    OBVIOUS
  <2>1. Content = "old"
    BY DEF Init, Content
  <2>2. reader.all16 \in BOOLEAN
    BY PageAssumption DEF Init, Idle, ReaderKinds
  <2>3. QED
    BY <2>1, <2>2 DEF Init, Store!Init
<1>2. StoreInv /\ NdefTypeOK' /\ [Next]_vars
        => [Store!Next]_<<Content, result, reader.all16>>
  <2>1. UNCHANGED vars => UNCHANGED <<Content, result, reader.all16>>
    BY DEF vars, pageVars, ndefVars, Content, ReadsBack, Target, ReadsAs
  <2>2. QED
    BY <2>1, StoreStep
<1>3. StoreInv => NdefTypeOK
    BY DEF StoreInv, NdefInv
<1>4. QED
    BY <1>1, <1>2, <1>3, StoreInvariance, PTL DEF Spec, Store!Safe
=============================================================================
