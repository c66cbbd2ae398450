------------------------------ MODULE PageWrite ------------------------------
(***************************************************************************)
(* NfcReader.write_page of reader.py: writing one 4-byte page through a    *)
(* PC/SC reader that may accept the plain form of the write, the padded    *)
(* 16-byte form, or neither, with the form that worked remembered in       *)
(* write_mode.                                                             *)
(*                                                                         *)
(* Every APDU is one step.  Its outcome is the environment's: the reader   *)
(* answers 90 00 or an error status, pyscard raises, and in each case the  *)
(* data may or may not have reached the tag (a tag pulled out of the field *)
(* can acknowledge what never landed, and can take what it never           *)
(* acknowledged).                                                          *)
(***************************************************************************)
EXTENDS Type2Tag

CONSTANTS
    LastPage,    \* the tag's last page: it has the pages 0..LastPage
    Data,        \* what a page can hold
    Zero,        \* four zero bytes, one of Data
    WriteOnly,   \* pages that read back as zeros whatever they hold (PWD, PACK)
    Readers,     \* the readers: which forms each accepts, and whether a padded
                 \* write stores all 16 bytes or discards the last 12
    ChipKinds    \* the tags: which pages are locked, which OR what is written

Pages       == 0..LastPage
ReaderKinds == [plain : BOOLEAN, padded : BOOLEAN, all16 : BOOLEAN]
Chips       == [locked : SUBSET Pages, otp : SUBSET Pages]

ASSUME PageAssumption ==
    /\ LastPage \in Nat
    /\ Zero \in Data
    /\ WriteOnly \subseteq Pages
    /\ Readers \subseteq ReaderKinds
    /\ ChipKinds \subseteq Chips

VARIABLES
    mem,     \* the tag: what each page holds
    chip,    \* the tag: pages that refuse writes, pages that OR them
    reader,  \* the reader in use
    mode,    \* NfcReader.write_mode
    pc,      \* where write_page is: "idle" when no call is in progress
    page,    \* write_page's argument page
    data,    \* write_page's argument data
    ctx,     \* write_page's local context, and whether the read of it worked
    ret      \* how the last call ended: "none" while there was no end

pageVars == <<mem, chip, reader, mode, pc, page, data, ctx, ret>>

Modes      == {"none", "plain", "padded"}
Contexts   == [ok : BOOLEAN, next : [1..3 -> Data]]
NoContext  == [ok |-> FALSE, next |-> [k \in 1..3 |-> Zero]]

PageTypeOK ==
    /\ mem \in [Pages -> Data]
    /\ chip \in ChipKinds
    /\ reader \in Readers
    /\ mode \in Modes
    /\ pc \in {"idle", "plain", "context", "padded"}
    /\ page \in Nat
    /\ data \in Data
    /\ ctx \in Contexts
    /\ ret \in {"none", "ok", "error", "raised"}

(* A read of page q; a read past the last page returns what no write can    *)
(* put back, so its value does not matter.                                  *)
ReadsAs(q) == IF q \in Pages \ WriteOnly THEN mem[q] ELSE Zero

(* A locked page refuses a write; OR-ing zeros into a page changes nothing. *)
Accepts(q, d) == q \notin chip.locked /\ ~(q \in chip.otp /\ d = Zero)

(* Mutant: the padding is always zeros.                                     *)
BlockOfZeros(k) == IF k = 0 THEN data ELSE Zero

(* update_binary_padded: the page, spliced over the start of the context.   *)
Block(k) == IF k = 0 THEN data ELSE ctx.next[k]

(* The tag once the first n pages of the block have landed.                 *)
Landed(n) ==
    [q \in Pages |->
        IF q - page \in 0..(n - 1) /\ Accepts(q, Block(q - page))
        THEN Block(q - page) ELSE mem[q]]

PlainLands  == IF reader.plain THEN 0..1 ELSE {0}
PaddedLands == IF reader.padded THEN IF reader.all16 THEN 0..4 ELSE 0..1 ELSE {0}

Idle ==
    /\ reader \in Readers
    /\ chip \in ChipKinds
    /\ mode = "none"
    /\ pc = "idle"
    /\ page = 0
    /\ data = Zero
    /\ ctx = NoContext
    /\ ret = "none"

-----------------------------------------------------------------------------
(* Mutant: the page before the one asked for.                               *)
BeginOneOff(p, d) ==
    /\ pc = "idle"
    /\ pc' = "plain"
    /\ page' = p - 1
    /\ data' = d
    /\ ctx' = NoContext
    /\ ret' = "none"
    /\ UNCHANGED <<mem, chip, reader, mode>>

(* The call: a reader known to need the padded form skips the plain one.    *)
Begin(p, d) ==
    /\ pc = "idle"
    /\ pc' = IF mode = "padded" THEN "context" ELSE "plain"
    /\ page' = p
    /\ data' = d
    /\ ctx' = NoContext
    /\ ret' = "none"
    /\ UNCHANGED <<mem, chip, reader, mode>>

(* The plain form is answered 90 00.                                        *)
PlainOk ==
    /\ pc = "plain"
    /\ reader.plain
    /\ \E n \in PlainLands : mem' = Landed(n)
    /\ mode' = "plain"
    /\ pc' = "idle"
    /\ ret' = "ok"
    /\ UNCHANGED <<chip, reader, page, data, ctx>>

(* The plain form is refused, and has worked on this connection before: the *)
(* failure is real.                                                         *)
PlainFails ==
    /\ pc = "plain"
    /\ mode = "plain"
    /\ \E n \in PlainLands : mem' = Landed(n)
    /\ pc' = "idle"
    /\ ret' = "error"
    /\ UNCHANGED <<chip, reader, mode, page, data, ctx>>

(* Mutant: every refusal of the plain form makes the padded one be tried.   *)
PlainRefusedAgain ==
    /\ pc = "plain"
    /\ \E n \in PlainLands : mem' = Landed(n)
    /\ pc' = "context"
    /\ UNCHANGED <<chip, reader, mode, page, data, ctx, ret>>

(* The plain form is refused and may be a form this reader does not know.   *)
PlainRefused ==
    /\ pc = "plain"
    /\ mode # "plain"
    /\ \E n \in PlainLands : mem' = Landed(n)
    /\ pc' = "context"
    /\ UNCHANGED <<chip, reader, mode, page, data, ctx, ret>>

(* The four pages from page on are read, to pad the write with.             *)
ReadContext ==
    /\ pc = "context"
    /\ ctx' = [ok |-> TRUE, next |-> [k \in 1..3 |-> ReadsAs(page + k)]]
    /\ pc' = "padded"
    /\ UNCHANGED <<mem, chip, reader, mode, page, data, ret>>

(* That read is refused: the write goes ahead, padded with zeros.           *)
LoseContext ==
    /\ pc = "context"
    /\ ctx' = NoContext
    /\ pc' = "padded"
    /\ UNCHANGED <<mem, chip, reader, mode, page, data, ret>>

PaddedOk ==
    /\ pc = "padded"
    /\ reader.padded
    /\ \E n \in PaddedLands : mem' = Landed(n)
    /\ mode' = "padded"
    /\ pc' = "idle"
    /\ ret' = "ok"
    /\ UNCHANGED <<chip, reader, page, data, ctx>>

PaddedFails ==
    /\ pc = "padded"
    /\ \E n \in PaddedLands : mem' = Landed(n)
    /\ pc' = "idle"
    /\ ret' = "error"
    /\ UNCHANGED <<chip, reader, mode, page, data, ctx>>

(* pyscard raises instead of answering, most often because the tag left.    *)
(* write_page catches ReaderError only, so the call ends here.              *)
Raise ==
    /\ pc # "idle"
    /\ \E n \in CASE pc = "plain"  -> PlainLands
                  [] pc = "padded" -> PaddedLands
                  [] OTHER         -> {0} : mem' = Landed(n)
    /\ pc' = "idle"
    /\ ret' = "raised"
    /\ UNCHANGED <<chip, reader, mode, page, data, ctx>>

(* One APDU of the call in progress and its answer.                         *)
Apdu == \/ PlainOk  \/ PlainFails \/ PlainRefused
        \/ ReadContext \/ LoseContext
        \/ PaddedOk \/ PaddedFails \/ Raise

(* A new NfcReader on the same reader, as every web request makes: the form *)
(* that worked is forgotten.                                                *)
Reopen ==
    /\ pc = "idle"
    /\ mode # "none"
    /\ mode' = "none"
    /\ UNCHANGED <<mem, chip, reader, pc, page, data, ctx, ret>>

-----------------------------------------------------------------------------
(* write_page on its own: any sequence of calls.                            *)
PageInit == mem \in [Pages -> Data] /\ Idle

PageNext == \/ \E p \in Pages, d \in Data : Begin(p, d)
            \/ Apdu
            \/ Reopen

PageSpec == PageInit /\ [][PageNext]_pageVars

-----------------------------------------------------------------------------
(* The form that worked is one the reader takes, and once the plain form    *)
(* has worked no failure makes write_page try the form that can spill over  *)
(* the next three pages (reader.py:197-206, "the failure is real").         *)
ModeIsHonest ==
    /\ mode = "plain"  => reader.plain /\ pc \notin {"context", "padded"}
    /\ mode = "padded" => reader.padded /\ pc # "plain"

(* What a step of write_page can do to a page it was not asked to write:    *)
(* nothing, unless the reader stores all 16 bytes; then one of the three    *)
(* pages that follow can become zeros, when the read that was to fill the   *)
(* padding was refused or the page does not read back as what it holds      *)
(* (apdu.py:47-60, reader.py:208-216; apdu.py:26-28 has it that such a      *)
(* reader "rewrites the neighbours with what they already hold").           *)
NeighbourDamage ==
    [][\A q \in Pages \ {page} :
          mem'[q] # mem[q] =>
              /\ reader.all16
              /\ q \in page + 1 .. page + 3
              /\ mem'[q] = Zero
              /\ ~ctx.ok \/ q \in WriteOnly]_pageVars
=============================================================================
