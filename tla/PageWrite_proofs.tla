-------------------------- MODULE PageWrite_proofs --------------------------
(***************************************************************************)
(* What is proved of write_page for every tag, every reader and every      *)
(* sequence of calls.                                                      *)
(***************************************************************************)
EXTENDS PageWrite, TLAPS

(* The numbers of pages that an APDU of this reader can store are bounded. *)
LEMMA LandsBounded ==
    ASSUME reader \in ReaderKinds
    PROVE  /\ PlainLands \subseteq 0..1
           /\ PaddedLands \subseteq 0..4
           /\ ~reader.all16 => PaddedLands \subseteq 0..1
BY DEF PlainLands, PaddedLands, ReaderKinds

LEMMA BlockType ==
    ASSUME data \in Data, ctx \in Contexts, NEW k \in 0..3
    PROVE  Block(k) \in Data
BY DEF Block, Contexts

(* Whatever lands, the tag still holds data.                               *)
LEMMA LandedType ==
    ASSUME mem \in [Pages -> Data], data \in Data, ctx \in Contexts,
           page \in Nat, NEW n \in 0..4
    PROVE  Landed(n) \in [Pages -> Data]
<1> SUFFICES ASSUME NEW q \in Pages, q - page \in 0..(n - 1)
             PROVE  Block(q - page) \in Data
    BY DEF Landed
<1>1. q - page \in 0..3
    OBVIOUS
<1>2. QED
    BY <1>1, BlockType

LEMMA ReadsAsType ==
    ASSUME mem \in [Pages -> Data], NEW q
    PROVE  ReadsAs(q) \in Data
BY PageAssumption DEF ReadsAs

(* A step of a call in progress keeps every variable in its type.          *)
LEMMA ApduType ==
    ASSUME PageTypeOK, Apdu
    PROVE  PageTypeOK'
<1> USE DEF PageTypeOK
<1>1. /\ PlainLands \subseteq 0..4
      /\ PaddedLands \subseteq 0..4
    BY LandsBounded, PageAssumption
<1>2. \A n \in 0..4 : Landed(n) \in [Pages -> Data]
    BY LandedType
<1>3. NoContext \in Contexts
    BY PageAssumption DEF NoContext, Contexts
<1>4. CASE PlainOk
    BY <1>1, <1>2, <1>4 DEF PlainOk, Modes
<1>5. CASE PlainFails
    BY <1>1, <1>2, <1>5 DEF PlainFails
<1>6. CASE PlainRefused
    BY <1>1, <1>2, <1>6 DEF PlainRefused
<1>7. CASE ReadContext
  <2>1. ctx' \in Contexts
    BY <1>7, ReadsAsType DEF ReadContext, Contexts
  <2>2. QED
    BY <1>7, <2>1 DEF ReadContext
<1>8. CASE LoseContext
    BY <1>3, <1>8 DEF LoseContext
<1>9. CASE PaddedOk
    BY <1>1, <1>2, <1>9 DEF PaddedOk, Modes
<1>10. CASE PaddedFails
    BY <1>1, <1>2, <1>10 DEF PaddedFails
<1>11. CASE Raise
  <2>1. mem' \in [Pages -> Data]
    BY <1>1, <1>2, <1>11 DEF Raise
  <2>2. QED
    BY <1>11, <2>1 DEF Raise
<1>12. QED
    BY <1>4, <1>5, <1>6, <1>7, <1>8, <1>9, <1>10, <1>11 DEF Apdu

LEMMA BeginType ==
    ASSUME PageTypeOK, NEW p \in Nat, NEW d \in Data, Begin(p, d)
    PROVE  PageTypeOK'
<1>1. NoContext \in Contexts
    BY PageAssumption DEF NoContext, Contexts
<1>2. QED
    BY <1>1 DEF PageTypeOK, Begin

LEMMA PageTypeInductive ==
    ASSUME PageTypeOK, [PageNext]_pageVars
    PROVE  PageTypeOK'
<1>1. CASE \E p \in Pages, d \in Data : Begin(p, d)
    BY <1>1, BeginType, PageAssumption DEF Pages
<1>2. CASE Apdu
    BY <1>2, ApduType
<1>3. CASE Reopen
    BY <1>3 DEF Reopen, PageTypeOK, Modes
<1>4. CASE UNCHANGED pageVars
    BY <1>4 DEF pageVars, PageTypeOK
<1>5. QED
    BY <1>1, <1>2, <1>3, <1>4 DEF PageNext

(* Every variable of write_page keeps its type.                            *)
THEOREM PageTypeCorrect == PageSpec => []PageTypeOK
<1>1. PageInit => PageTypeOK
  <2>1. NoContext \in Contexts
    BY PageAssumption DEF NoContext, Contexts
  <2>2. QED
    BY <2>1, PageAssumption DEF PageInit, Idle, PageTypeOK, Modes
<1>2. PageTypeOK /\ [PageNext]_pageVars => PageTypeOK'
    BY PageTypeInductive
<1>3. QED
    BY <1>1, <1>2, PTL DEF PageSpec

-----------------------------------------------------------------------------
(* A call that has reached the padded form holds, in its context, what the *)
(* neighbours read as, or zeros.                                           *)
ContextInv ==
    pc = "padded" =>
        IF ctx.ok THEN \A k \in 1..3 : ctx.next[k] = ReadsAs(page + k)
                  ELSE ctx = NoContext

PageInv == PageTypeOK /\ ModeIsHonest /\ ContextInv

LEMMA PageInvInductive ==
    ASSUME PageInv, [PageNext]_pageVars
    PROVE  PageInv'
<1> USE DEF PageInv
<1>1. PageTypeOK'
    BY PageTypeInductive
<1>2. ModeIsHonest'
  <2>1. CASE \E p \in Pages, d \in Data : Begin(p, d)
    BY <2>1 DEF Begin, ModeIsHonest
  <2>2. CASE Apdu
    BY <2>2 DEF Apdu, PlainOk, PlainFails, PlainRefused, ReadContext, LoseContext,
                PaddedOk, PaddedFails, Raise, ModeIsHonest
  <2>3. CASE Reopen
    BY <2>3 DEF Reopen, ModeIsHonest
  <2>4. CASE UNCHANGED pageVars
    BY <2>4 DEF pageVars, ModeIsHonest
  <2>5. QED
    BY <2>1, <2>2, <2>3, <2>4 DEF PageNext
<1>3. ContextInv'
  <2>1. CASE \E p \in Pages, d \in Data : Begin(p, d)
    BY <2>1 DEF Begin, ContextInv
  <2>2. CASE ReadContext
    BY <2>2 DEF ReadContext, ContextInv, ReadsAs
  <2>3. CASE LoseContext
    BY <2>3 DEF LoseContext, ContextInv, NoContext
  <2>4. CASE PlainOk \/ PlainFails \/ PlainRefused \/ PaddedOk \/ PaddedFails \/ Raise
    BY <2>4 DEF PlainOk, PlainFails, PlainRefused, PaddedOk, PaddedFails, Raise, ContextInv
  <2>5. CASE Reopen
    BY <2>5 DEF Reopen, ContextInv
  <2>6. CASE UNCHANGED pageVars
    BY <2>6 DEF pageVars, ContextInv, ReadsAs
  <2>7. QED
    BY <2>1, <2>2, <2>3, <2>4, <2>5, <2>6 DEF PageNext, Apdu
<1>4. QED
    BY <1>1, <1>2, <1>3

LEMMA PageInvariance == PageSpec => []PageInv
<1>1. PageInit => PageInv
  <2>1. NoContext \in Contexts
    BY PageAssumption DEF NoContext, Contexts
  <2>2. QED
    BY <2>1, PageAssumption
       DEF PageInit, Idle, PageInv, PageTypeOK, ModeIsHonest, ContextInv, Modes
<1>2. PageInv /\ [PageNext]_pageVars => PageInv'
    BY PageInvInductive
<1>3. QED
    BY <1>1, <1>2, PTL DEF PageSpec

(* Once the plain form has worked, the padded form is never tried.         *)
THEOREM ModeCorrect == PageSpec => []ModeIsHonest
<1>1. PageInv => ModeIsHonest
    BY DEF PageInv
<1>2. QED
    BY <1>1, PageInvariance, PTL

-----------------------------------------------------------------------------
(* What the first n pages of a padded block change beyond the first one.   *)
LEMMA SpillOfPadded ==
    ASSUME PageInv, pc = "padded", NEW n \in PaddedLands,
           NEW q \in Pages \ {page}, Landed(n)[q] # mem[q]
    PROVE  /\ reader.all16
           /\ q \in page + 1 .. page + 3
           /\ Landed(n)[q] = Zero
           /\ ~ctx.ok \/ q \in WriteOnly
<1>1. /\ reader \in ReaderKinds
      /\ page \in Nat
      /\ n \in 0..4
      /\ q \in Nat
    BY PageAssumption, LandsBounded DEF PageInv, PageTypeOK, Pages
<1>2. /\ q - page \in 0..(n - 1)
      /\ Landed(n)[q] = Block(q - page)
    BY DEF Landed
<1>3. /\ q - page \in 1..3
      /\ q \in page + 1 .. page + 3
      /\ n > 1
    BY <1>1, <1>2
<1>4. reader.all16
    BY <1>1, <1>3, LandsBounded
<1>5. /\ Landed(n)[q] = ctx.next[q - page]
      /\ page + (q - page) = q
    BY <1>1, <1>2, <1>3 DEF Block
<1>6. CASE ctx.ok
  <2>1. Landed(n)[q] = ReadsAs(q)
    BY <1>3, <1>5, <1>6 DEF PageInv, ContextInv
  <2>2. QED
    BY <1>3, <1>4, <2>1 DEF ReadsAs
<1>7. CASE ~ctx.ok
    BY <1>3, <1>4, <1>5, <1>7 DEF PageInv, ContextInv, NoContext
<1>8. QED
    BY <1>6, <1>7

(* A step that stores at most one page leaves the others alone.            *)
LEMMA NoSpill ==
    ASSUME PageTypeOK, NEW n \in 0..1, NEW q \in Pages \ {page}
    PROVE  Landed(n)[q] = mem[q]
BY PageAssumption DEF Landed, PageTypeOK, Pages

(* What an APDU can do to the pages it was not asked to write.             *)
LEMMA ApduDamage ==
    ASSUME PageInv, Apdu, NEW q \in Pages \ {page}, mem'[q] # mem[q]
    PROVE  /\ reader.all16
           /\ q \in page + 1 .. page + 3
           /\ mem'[q] = Zero
           /\ ~ctx.ok \/ q \in WriteOnly
<1>1. PlainLands \subseteq 0..1
    BY LandsBounded, PageAssumption DEF PageInv, PageTypeOK
<1>2. CASE \E n \in PlainLands : mem' = Landed(n)
    BY <1>1, <1>2, NoSpill DEF PageInv
<1>3. CASE pc = "padded" /\ \E n \in PaddedLands : mem' = Landed(n)
    BY <1>3, SpillOfPadded
<1>4. CASE PlainOk \/ PlainFails \/ PlainRefused
    BY <1>2, <1>4 DEF PlainOk, PlainFails, PlainRefused
<1>5. CASE ReadContext \/ LoseContext
    BY <1>5 DEF ReadContext, LoseContext
<1>6. CASE PaddedOk \/ PaddedFails
    BY <1>3, <1>6 DEF PaddedOk, PaddedFails
<1>7. CASE Raise /\ pc \in {"plain", "padded"}
    BY <1>2, <1>3, <1>7 DEF Raise
<1>8. CASE Raise /\ pc = "context"
  <2>1. mem' = Landed(0)
    BY <1>8 DEF Raise
  <2>2. QED
    BY <2>1, NoSpill DEF PageInv
<1>9. QED
    BY <1>4, <1>5, <1>6, <1>7, <1>8 DEF Apdu, Raise, PageInv, PageTypeOK

(* The one way a call can change a page it was not asked to write: a       *)
(* reader that stores all 16 bytes, and padding made of zeros.             *)
THEOREM NeighbourDamageCorrect == PageSpec => NeighbourDamage
<1> DEFINE Damage ==
        \A q \in Pages \ {page} :
            mem'[q] # mem[q] =>
                /\ reader.all16
                /\ q \in page + 1 .. page + 3
                /\ mem'[q] = Zero
                /\ ~ctx.ok \/ q \in WriteOnly
<1>1. PageInv /\ [PageNext]_pageVars => [Damage]_pageVars
  <2> SUFFICES ASSUME PageInv, PageNext PROVE Damage
    OBVIOUS
  <2>1. CASE Apdu
    BY <2>1, ApduDamage
  <2>2. CASE Reopen \/ \E p \in Pages, d \in Data : Begin(p, d)
    BY <2>2 DEF Reopen, Begin
  <2>3. QED
    BY <2>1, <2>2 DEF PageNext
<1>2. QED
    BY <1>1, PageInvariance, PTL DEF PageSpec, NeighbourDamage
=============================================================================
