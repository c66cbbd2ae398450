--------------------------- MODULE DataArea_proofs ---------------------------
(***************************************************************************)
(* What is proved of ndef.py's walks over a data area and of the bytes     *)
(* that write_ndef, format and erase leave there, for every capacity that  *)
(* a CC can tell, everything that a data area can hold, and all messages.  *)
(*                                                                         *)
(* The recursive functions of DataArea are reached by two lemmas:          *)
(* WalkExists says that a function which steps on until it stops exists,   *)
(* LeastNumber that what fails somewhere fails somewhere first.  The rest  *)
(* is about the prefix of TLVs that both walks skip (Tiled), and about the *)
(* pages that have landed when an operation ends (Operation).              *)
(***************************************************************************)
EXTENDS DataArea, Integers, FiniteSetTheorems, SequenceTheorems, TLAPS

(* A set of numbers has a least element: a property that fails somewhere    *)
(* fails at a first place. This is the induction of all that follows.       *)
LEMMA LeastNumber ==
    ASSUME NEW T, T \subseteq Nat, T # {}
    PROVE  \E n \in T : \A m \in T : n =< m
<1> DEFINE S == {1 .. n : n \in T}
<1>1. S \subseteq FiniteSubsetsOf(Nat)
  <2> SUFFICES ASSUME NEW n \in T PROVE 1 .. n \in FiniteSubsetsOf(Nat)
      OBVIOUS
  <2>1. IsFiniteSet(1 .. n)
      BY FS_Interval
  <2> QED BY <2>1 DEF FiniteSubsetsOf
<1>2. IsWellFoundedOn(StrictSubsetOrdering(Nat), FiniteSubsetsOf(Nat))
    BY FS_StrictSubsetOrderingWellFounded
<1>3. \E x \in S : \A y \in S : ~(<<y, x>> \in StrictSubsetOrdering(Nat))
  <2>1. S # {}
      OBVIOUS
  <2> HIDE DEF S
  <2> QED BY <1>1, <1>2, <2>1, WFMin
<1>4. PICK n \in T : \A y \in S : ~(<<y, 1 .. n>> \in StrictSubsetOrdering(Nat))
    BY <1>3
<1>5. ASSUME NEW m \in T, m < n PROVE FALSE
  <2>1. n \in 1 .. n /\ n \notin 1 .. m
      BY <1>5
  <2>2. <<1 .. m, 1 .. n>> \in StrictSubsetOrdering(Nat)
      BY <2>1, <1>5 DEF StrictSubsetOrdering
  <2> QED BY <2>2, <1>4
<1> QED BY <1>5

(* A function of the natural numbers.                                       *)
OnNat(f) == f = [o \in Nat |-> f[o]]

(* A walk along next that ends in S with a value: what the recursive        *)
(* functions of DataArea are.                                               *)
HasWalk(S, val, next) ==
    \E f : /\ OnNat(f)
           /\ \A o \in Nat : f[o] = IF o \in S THEN val[o] ELSE f[next[o]]

(* There always is one: its value at o is that of a stop which every set    *)
(* that holds o and goes on along next has to hold.                         *)
LEMMA WalkExists ==
    ASSUME NEW S, NEW val, NEW next \in [Nat -> Nat]
    PROVE  HasWalk(S, val, next)
<1> DEFINE Closed(C) == \A q \in C : q \notin S => next[q] \in C
           Reach(o) == {p \in Nat : \A C \in SUBSET Nat : o \in C /\ Closed(C) => p \in C}
           Ends(o) == {p \in Reach(o) : p \in S}
           F == [o \in Nat |-> CHOOSE y : \E p \in Ends(o) : y = val[p]]
<1>1. ASSUME NEW o \in Nat, o \in S PROVE F[o] = val[o]
  <2>1. Closed({o})
      BY <1>1
  <2>2. \A p \in Ends(o) : p = o
      BY <2>1
  <2>3. o \in Ends(o)
      BY <1>1
  <2> HIDE DEF Ends
  <2>4. \A y : (\E p \in Ends(o) : y = val[p]) <=> y = val[o]
      BY <2>2, <2>3
  <2>5. F[o] = CHOOSE y : \E p \in Ends(o) : y = val[p]
      OBVIOUS
  <2> QED BY <2>4, <2>5
<1>2. ASSUME NEW o \in Nat, o \notin S PROVE F[o] = F[next[o]]
  <2>1. next[o] \in Nat
      OBVIOUS
  <2>2. Ends(o) \subseteq Ends(next[o])
    <3> SUFFICES ASSUME NEW p \in Ends(o), NEW C \in SUBSET Nat, next[o] \in C, Closed(C)
                 PROVE  p \in C
        OBVIOUS
    <3>1. Closed(C \cup {o})
        OBVIOUS
    <3>2. p \in C \cup {o}
      <4>1. C \cup {o} \in SUBSET Nat
        OBVIOUS
      <4> QED BY <3>1, <4>1
    <3> QED BY <3>2, <1>2
  <2>3. Ends(next[o]) \subseteq Ends(o)
    <3> SUFFICES ASSUME NEW p \in Ends(next[o]), NEW C \in SUBSET Nat, o \in C, Closed(C)
                 PROVE  p \in C
        OBVIOUS
    <3>1. next[o] \in C
        BY <1>2
    <3> QED BY <3>1
  <2> HIDE DEF Ends
  <2> QED BY <2>1, <2>2, <2>3
<1>3. OnNat(F)
  <2> HIDE DEF Ends
  <2> QED BY DEF OnNat
<1> HIDE DEF F
<1> QED BY <1>1, <1>2, <1>3 DEF HasWalk

(* One step of ndef_tlv_offset at o, which goes on with f.                  *)
OffsetStep(a, o, f) ==
    IF o >= Len(a) THEN 0
    ELSE IF At(a, o) = NullTlv THEN f[o + 1]
    ELSE IF At(a, o) \notin Skippable THEN o
    ELSE IF Field(a, o) = NoField THEN 0
    ELSE f[Field(a, o).end]

-----------------------------------------------------------------------------
(* Inside the data a byte is one.                                           *)
LEMMA AtIsByte ==
    ASSUME NEW a \in Seq(Byte), NEW i \in Nat, i < Len(a)
    PROVE  At(a, i) \in 0 .. 255
<1>1. i + 1 \in 1 .. Len(a)
    OBVIOUS
<1>2. a[i + 1] \in Byte
      BY <1>1
<1> QED BY <1>2 DEF At, Byte

(* A field that is told ends behind its two first bytes.                    *)
LEMMA FieldType ==
    ASSUME NEW a \in Seq(Byte), NEW o \in Nat
    PROVE  /\ Field(a, o).end \in Nat /\ Field(a, o).start \in Nat
           /\ Field(a, o) # NoField => Field(a, o).end > o + 1
<1>1. CASE Field(a, o) = NoField
    BY <1>1 DEF NoField
<1>2. CASE Field(a, o) # NoField /\ At(a, o + 1) # 255
  <2>1. Field(a, o) = [start |-> o + 2, end |-> o + 2 + At(a, o + 1)] /\ o + 1 < Len(a)
      BY <1>2 DEF Field
  <2>2. o + 1 \in Nat /\ o + 1 < Len(a)
      BY <2>1
  <2>3. PICK x \in 0 .. 255 : x = At(a, o + 1)
      BY <2>2, AtIsByte
  <2>4. Field(a, o) = [start |-> o + 2, end |-> o + 2 + x]
      BY <2>1, <2>3
  <2> QED BY <2>4
<1>3. CASE Field(a, o) # NoField /\ At(a, o + 1) = 255
  <2>1. /\ Field(a, o) = [start |-> o + 4, end |-> o + 4 + 256 * At(a, o + 2) + At(a, o + 3)]
        /\ o + 4 =< Len(a)
      BY <1>3 DEF Field
  <2>2. o + 2 \in Nat /\ o + 2 < Len(a) /\ o + 3 \in Nat /\ o + 3 < Len(a)
      BY <2>1
  <2>3. PICK x \in 0 .. 255 : x = At(a, o + 2)
      BY <2>2, AtIsByte
  <2>4. PICK y \in 0 .. 255 : y = At(a, o + 3)
      BY <2>2, AtIsByte
  <2>5. Field(a, o) = [start |-> o + 4, end |-> o + 4 + 256 * x + y]
      BY <2>1, <2>3, <2>4
  <2> QED BY <2>5
<1> QED BY <1>1, <1>2, <1>3

(* ndef_tlv_offset is the value at 0 of a function that takes these steps.  *)
LEMMA OffsetWalk ==
    ASSUME NEW a \in Seq(Byte)
    PROVE  \E f : /\ TlvOffset(a) = f[0]
                  /\ \A o \in Nat : f[o] = OffsetStep(a, o, f)
<1> DEFINE S == {o \in Nat : o >= Len(a) \/ (At(a, o) # NullTlv /\ (At(a, o) \notin Skippable \/ Field(a, o) = NoField))}
           next == [o \in Nat |-> IF At(a, o) = NullTlv THEN o + 1 ELSE Field(a, o).end]
           val == [o \in Nat |-> IF o >= Len(a) THEN 0 ELSE IF At(a, o) \notin Skippable THEN o ELSE 0]
           G == CHOOSE f : f = [o \in Nat |-> OffsetStep(a, o, f)]
<1>1. next \in [Nat -> Nat]
    BY FieldType
<1>2. PICK f : /\ OnNat(f)
               /\ \A o \in Nat : f[o] = IF o \in S THEN val[o] ELSE f[next[o]]
  <2> HIDE DEF S, next, val
  <2>1. HasWalk(S, val, next)
      BY <1>1, WalkExists
  <2> QED BY <2>1 DEF HasWalk
<1>3. ASSUME NEW o \in Nat
      PROVE (IF o \in S THEN val[o] ELSE f[next[o]]) = OffsetStep(a, o, f)
    BY DEF OffsetStep
<1>4. f = [o \in Nat |-> OffsetStep(a, o, f)]
  <2> HIDE DEF S, next, val
  <2>1. [o \in Nat |-> f[o]] = [o \in Nat |-> OffsetStep(a, o, f)]
      BY <1>2, <1>3
  <2> QED BY <1>2, <2>1 DEF OnNat
<1>5. G = [o \in Nat |-> OffsetStep(a, o, G)]
  BY <1>4
<1>6. TlvOffset(a) = G[0]
  BY DEF TlvOffset, OffsetStep
<1> HIDE DEF G
<1>7. \A o \in Nat : G[o] = OffsetStep(a, o, G)
  BY <1>5
<1> QED BY <1>6, <1>7

(* One step of unwrap_tlv at o, which goes on with f.                       *)
UnwrapStep(a, o, f) ==
    IF o >= Len(a) THEN {}
    ELSE IF At(a, o) = NullTlv THEN f[o + 1]
    ELSE IF At(a, o) = TerminatorTlv \/ Field(a, o) = NoField THEN {}
    ELSE IF At(a, o) # NdefTlv THEN f[Field(a, o).end]
    ELSE IF Field(a, o).end > Len(a) THEN {}
    ELSE {SubSeq(a, Field(a, o).start + 1, Field(a, o).end)}

(* unwrap_tlv is the value at 0 of a function that takes these steps.       *)
LEMMA UnwrapWalk ==
    ASSUME NEW a \in Seq(Byte)
    PROVE  \E f : /\ Unwrap(a) = f[0]
                  /\ \A o \in Nat : f[o] = UnwrapStep(a, o, f)
<1> DEFINE S == {o \in Nat : \/ o >= Len(a)
                             \/ /\ At(a, o) # NullTlv
                                /\ \/ At(a, o) = TerminatorTlv \/ Field(a, o) = NoField
                                   \/ At(a, o) = NdefTlv}
           next == [o \in Nat |-> IF At(a, o) = NullTlv THEN o + 1 ELSE Field(a, o).end]
           val == [o \in Nat |-> IF \/ o >= Len(a)
                                    \/ At(a, o) = TerminatorTlv \/ Field(a, o) = NoField
                                    \/ Field(a, o).end > Len(a)
                                 THEN {}
                                 ELSE {SubSeq(a, Field(a, o).start + 1, Field(a, o).end)}]
           G == CHOOSE f : f = [o \in Nat |-> UnwrapStep(a, o, f)]
<1>1. next \in [Nat -> Nat]
    BY FieldType
<1>2. PICK f : /\ OnNat(f)
               /\ \A o \in Nat : f[o] = IF o \in S THEN val[o] ELSE f[next[o]]
  <2> HIDE DEF S, next, val
  <2>1. HasWalk(S, val, next)
      BY <1>1, WalkExists
  <2> QED BY <2>1 DEF HasWalk
<1>3. ASSUME NEW o \in Nat
      PROVE (IF o \in S THEN val[o] ELSE f[next[o]]) = UnwrapStep(a, o, f)
    BY DEF UnwrapStep
<1>4. f = [o \in Nat |-> UnwrapStep(a, o, f)]
  <2> HIDE DEF S, next, val
  <2>1. [o \in Nat |-> f[o]] = [o \in Nat |-> UnwrapStep(a, o, f)]
      BY <1>2, <1>3
  <2> QED BY <1>2, <2>1 DEF OnNat
<1>5. G = [o \in Nat |-> UnwrapStep(a, o, G)]
  BY <1>4
<1>6. Unwrap(a) = G[0]
  BY DEF Unwrap, UnwrapStep
<1> HIDE DEF G
<1>7. \A o \in Nat : G[o] = UnwrapStep(a, o, G)
  BY <1>5
<1> QED BY <1>6, <1>7

(* The bytes from b up to o are a NULL or a whole skippable TLV.            *)
Tile(a, b, o) ==
    \/ At(a, b) = NullTlv /\ o = b + 1
    \/ At(a, b) \in Skippable /\ Field(a, b) # NoField /\ Field(a, b).end = o

(* The first o bytes are tiled, when t says it of the lengths below.        *)
TiledStep(a, o, t) == o = 0 \/ \E b \in 0 .. o - 1 : t[b] /\ Tile(a, b, o)

(* What Tiled means: nothing is tiled, and so is what a tile extends.       *)
LEMMA TiledWalk ==
    ASSUME NEW a \in Seq(Byte), NEW o \in 0 .. Len(a)
    PROVE  Tiled(a)[o] <=> o = 0 \/ \E b \in 0 .. o - 1 : Tiled(a)[b] /\ Tile(a, b, o)
<1> DEFINE N == 0 .. Len(a)
           Closed(C) == 0 \in C /\ \A b \in C, p \in N : p > b /\ Tile(a, b, p) => p \in C
           R == {p \in N : \A C \in SUBSET N : Closed(C) => p \in C}
           t == [p \in N |-> p \in R]
           G == CHOOSE f : f = [p \in N |-> TiledStep(a, p, f)]
<1>1. ASSUME NEW p \in N
      PROVE  p \in R <=> (p = 0 \/ \E b \in 0 .. p - 1 : b \in R /\ Tile(a, b, p))
  <2>1. CASE p = 0
      BY <2>1
  <2>2. ASSUME NEW b \in 0 .. p - 1, b \in R, Tile(a, b, p) PROVE p \in R
      BY <2>2
  <2>3. ASSUME p # 0, p \in R, ~ \E b \in 0 .. p - 1 : b \in R /\ Tile(a, b, p) PROVE FALSE
    <3>1. R \ {p} \in SUBSET N
        OBVIOUS
    <3>2. 0 \in R \ {p}
        BY <2>3
    <3>3. ASSUME NEW b \in R \ {p}, NEW q \in N, q > b, Tile(a, b, q) PROVE q \in R \ {p}
      <4>1. q \in R
          BY <3>3
      <4>2. q # p
        <5>1. b \in 0 .. q - 1
            BY <3>3
        <5> HIDE DEF R
        <5> QED BY <2>3, <3>3, <5>1
      <4> QED BY <4>1, <4>2
    <3> QED BY <3>1, <3>2, <3>3, <2>3
  <2> HIDE DEF R
  <2> QED BY <2>1, <2>2, <2>3
<1>2. \A p \in N : t[p] = TiledStep(a, p, t)
  <2> SUFFICES ASSUME NEW p \in N PROVE t[p] = TiledStep(a, p, t)
      OBVIOUS
  <2>1. \A b \in 0 .. p - 1 : t[b] <=> b \in R
    <3> HIDE DEF R
    <3> QED OBVIOUS
  <2>2. t[p] = (p \in R)
    <3> HIDE DEF R
    <3> QED OBVIOUS
  <2> HIDE DEF R, t
  <2>3. p \in R <=> TiledStep(a, p, t)
      BY <1>1, <2>1 DEF TiledStep
  <2>4. TiledStep(a, p, t) \in BOOLEAN
      BY DEF TiledStep
  <2> QED BY <2>2, <2>3, <2>4
<1>3. t = [p \in N |-> TiledStep(a, p, t)]
  <2> HIDE DEF R
  <2>1. t = [p \in N |-> t[p]]
      OBVIOUS
  <2> HIDE DEF t
  <2>2. [p \in N |-> t[p]] = [p \in N |-> TiledStep(a, p, t)]
      BY <1>2
  <2> QED BY <2>1, <2>2
<1>4. G = [p \in N |-> TiledStep(a, p, G)]
  <2> HIDE DEF R, t
  <2> QED BY <1>3
<1>5. Tiled(a) = G
    BY DEF Tiled, TiledStep, Tile
<1> HIDE DEF G
<1>6. G[o] = TiledStep(a, o, G)
    BY <1>4
<1> QED BY <1>5, <1>6 DEF TiledStep

(* The writer's walk passes through every tiled place.                      *)
LEMMA OffsetFromTiled ==
    ASSUME NEW a \in Seq(Byte), NEW f, \A o \in Nat : f[o] = OffsetStep(a, o, f),
           NEW o \in 0 .. Len(a), Tiled(a)[o]
    PROVE  f[0] = f[o]
<1> DEFINE T == {p \in 0 .. Len(a) : Tiled(a)[p] /\ f[0] # f[p]}
<1> SUFFICES ASSUME T # {} PROVE FALSE
    OBVIOUS
<1>1. PICK p \in T : \A q \in T : p =< q
  <2>1. T \subseteq Nat
      OBVIOUS
  <2> HIDE DEF T
  <2> QED BY <2>1, LeastNumber
<1>2. PICK b \in 0 .. p - 1 : Tiled(a)[b] /\ Tile(a, b, p)
    BY <1>1, TiledWalk
<1>3. f[0] = f[b]
    BY <1>1, <1>2
<1>4. f[b] = f[p]
  <2>1. f[b] = OffsetStep(a, b, f) /\ b < Len(a)
      OBVIOUS
  <2> QED BY <1>2, <2>1 DEF OffsetStep, Tile, Skippable, NullTlv
<1> QED BY <1>1, <1>3, <1>4

(* So does the reader's: it skips whatever the writer skips.                *)
LEMMA UnwrapFromTiled ==
    ASSUME NEW a \in Seq(Byte), NEW f, \A o \in Nat : f[o] = UnwrapStep(a, o, f),
           NEW o \in 0 .. Len(a), Tiled(a)[o]
    PROVE  f[0] = f[o]
<1> DEFINE T == {p \in 0 .. Len(a) : Tiled(a)[p] /\ f[0] # f[p]}
<1> SUFFICES ASSUME T # {} PROVE FALSE
    OBVIOUS
<1>1. PICK p \in T : \A q \in T : p =< q
  <2>1. T \subseteq Nat
      OBVIOUS
  <2> HIDE DEF T
  <2> QED BY <2>1, LeastNumber
<1>2. PICK b \in 0 .. p - 1 : Tiled(a)[b] /\ Tile(a, b, p)
    BY <1>1, TiledWalk
<1>3. f[0] = f[b]
    BY <1>1, <1>2
<1>4. f[b] = f[p]
  <2>1. f[b] = UnwrapStep(a, b, f) /\ b < Len(a)
      OBVIOUS
  <2> QED BY <1>2, <2>1 DEF UnwrapStep, Tile, Skippable, NullTlv, TerminatorTlv, NdefTlv
<1> QED BY <1>1, <1>3, <1>4

(* A place for the message is what ndef_tlv_offset finds; there is one at   *)
(* most.                                                                    *)
LEMMA PlaceIsTheOffset ==
    ASSUME NEW a \in Seq(Byte), NEW o \in Places(a)
    PROVE  o = TlvOffset(a)
<1>1. PICK f : /\ TlvOffset(a) = f[0]
               /\ \A p \in Nat : f[p] = OffsetStep(a, p, f)
    BY OffsetWalk
<1>2. o \in 0 .. Len(a) /\ o < Len(a) /\ Tiled(a)[o] /\ At(a, o) \notin Skippable \cup {NullTlv}
    BY DEF Places
<1>3. f[0] = f[o]
    BY <1>1, <1>2, OffsetFromTiled
<1>4. f[o] = OffsetStep(a, o, f)
    BY <1>1, <1>2
<1>5. OffsetStep(a, o, f) = o
    BY <1>2 DEF OffsetStep
<1> QED BY <1>1, <1>3, <1>4, <1>5

(* With no place for it, the walk runs out of the data and says 0.          *)
LEMMA NoPlaceNoOffset ==
    ASSUME NEW a \in Seq(Byte), Places(a) = {}
    PROVE  TlvOffset(a) = 0
<1>1. PICK f : /\ TlvOffset(a) = f[0]
               /\ \A p \in Nat : f[p] = OffsetStep(a, p, f)
    BY OffsetWalk
<1> DEFINE T == {k \in 0 .. Len(a) : Tiled(a)[Len(a) - k] /\ f[Len(a) - k] # 0}
<1>2. T = {}
  <2> SUFFICES ASSUME T # {} PROVE FALSE
      OBVIOUS
  <2>1. PICK k \in T : \A q \in T : k =< q
    <3>1. T \subseteq Nat
        OBVIOUS
    <3> HIDE DEF T
    <3> QED BY <3>1, LeastNumber
  <2>2. PICK o \in 0 .. Len(a) : o = Len(a) - k /\ k \in 0 .. Len(a)
      OBVIOUS
  <2>3. Tiled(a)[o] /\ f[o] # 0
      BY <2>2
  <2>4. \A p \in 0 .. Len(a) : p > o /\ Tiled(a)[p] => f[p] = 0
    <3> SUFFICES ASSUME NEW p \in 0 .. Len(a), p > o, Tiled(a)[p], f[p] # 0
                 PROVE  FALSE
        OBVIOUS
    <3>1. Len(a) - p \in T
        OBVIOUS
    <3> HIDE DEF T
    <3> QED BY <2>1, <2>2, <3>1
  <2> HIDE DEF T
  <2>5. f[o] = OffsetStep(a, o, f)
      BY <1>1
  <2>6. o < Len(a)
      BY <2>3, <2>5 DEF OffsetStep
  <2>7. At(a, o) \in Skippable \cup {NullTlv}
      BY <2>3, <2>6 DEF Places
  <2>8. CASE At(a, o) = NullTlv
    <3>1. Tile(a, o, o + 1) /\ o + 1 \in 0 .. Len(a) /\ o \in 0 .. (o + 1) - 1
        BY <2>6, <2>8 DEF Tile
    <3>2. Tiled(a)[o + 1]
        BY <2>3, <3>1, TiledWalk
    <3>3. f[o + 1] = 0
        BY <2>4, <3>1, <3>2
    <3> QED BY <2>3, <2>5, <2>6, <2>8, <3>3 DEF OffsetStep
  <2>9. CASE At(a, o) # NullTlv
    <3>1. At(a, o) \in Skippable /\ Field(a, o) # NoField
        BY <2>3, <2>5, <2>6, <2>7, <2>9 DEF OffsetStep
    <3>2. PICK p \in Nat : p = Field(a, o).end /\ p > o + 1
        BY <3>1, FieldType
    <3>3. f[o] = f[p]
        BY <2>5, <2>6, <2>9, <3>1, <3>2 DEF OffsetStep
    <3>4. CASE p >= Len(a)
      <4>1. f[p] = OffsetStep(a, p, f)
          BY <1>1
      <4> QED BY <2>3, <3>3, <3>4, <4>1 DEF OffsetStep
    <3>5. CASE p < Len(a)
      <4>1. Tile(a, o, p) /\ o \in 0 .. p - 1 /\ p \in 0 .. Len(a) /\ p > o
          BY <3>1, <3>2, <3>5 DEF Tile
      <4>2. Tiled(a)[p]
          BY <2>3, <4>1, TiledWalk
      <4>3. f[p] = 0
          BY <2>4, <4>1, <4>2
      <4> QED BY <2>3, <3>3, <4>3
    <3> QED BY <3>2, <3>4, <3>5
  <2> QED BY <2>8, <2>9
<1>3. Tiled(a)[0]
    BY TiledWalk
<1>4. Len(a) \in 0 .. Len(a) /\ Len(a) - Len(a) = 0
    OBVIOUS
<1>5. f[0] = 0
    BY <1>2, <1>3, <1>4
<1> QED BY <1>1, <1>5

(* ndef_tlv_offset is right about all data: it finds the one place, or says *)
(* 0 when there is none (ndef.py:273-307).                                  *)
THEOREM OffsetCorrect ==
    ASSUME NEW a \in Seq(Byte)
    PROVE  IF Places(a) = {} THEN TlvOffset(a) = 0 ELSE Places(a) = {TlvOffset(a)}
BY PlaceIsTheOffset, NoPlaceNoOffset

-----------------------------------------------------------------------------
(* A field that ends within the first n bytes is told by them.              *)
LEMMA FieldPrefix ==
    ASSUME NEW a \in Seq(Byte), NEW c \in Seq(Byte), Len(a) = Len(c),
           NEW n \in 0 .. Len(a), \A i \in 0 .. n - 1 : At(a, i) = At(c, i),
           NEW b \in Nat, Field(a, b) # NoField, Field(a, b).end =< n
    PROVE  Field(c, b) = Field(a, b)
<1>1. b + 1 < n
    BY FieldType
<1>2. At(a, b + 1) = At(c, b + 1)
    BY <1>1
<1>3. CASE At(a, b + 1) # 255
    BY <1>1, <1>2, <1>3 DEF Field
<1>4. CASE At(a, b + 1) = 255
  <2>1. /\ Field(a, b) = [start |-> b + 4, end |-> b + 4 + 256 * At(a, b + 2) + At(a, b + 3)]
        /\ b + 4 =< Len(a)
      BY <1>1, <1>4 DEF Field
  <2>2. b + 2 \in Nat /\ b + 2 < Len(a) /\ b + 3 \in Nat /\ b + 3 < Len(a)
      BY <2>1
  <2>3. b + 4 =< n
    <3>1. PICK x \in 0 .. 255 : x = At(a, b + 2)
        BY <2>2, AtIsByte
    <3>2. PICK y \in 0 .. 255 : y = At(a, b + 3)
        BY <2>2, AtIsByte
    <3>3. Field(a, b).end = b + 4 + 256 * x + y
        BY <2>1, <3>1, <3>2
    <3> QED BY <3>3
  <2>4. At(a, b + 2) = At(c, b + 2) /\ At(a, b + 3) = At(c, b + 3)
      BY <2>3
  <2> QED BY <1>1, <1>2, <1>4, <2>1, <2>4 DEF Field
<1> QED BY <1>3, <1>4

(* Data with the same first n bytes are tiled up to there alike.            *)
LEMMA TiledPrefix ==
    ASSUME NEW a \in Seq(Byte), NEW c \in Seq(Byte), Len(a) = Len(c),
           NEW n \in 0 .. Len(a), \A i \in 0 .. n - 1 : At(a, i) = At(c, i),
           Tiled(a)[n]
    PROVE  Tiled(c)[n]
<1> DEFINE T == {p \in 0 .. n : Tiled(a)[p] /\ ~Tiled(c)[p]}
<1> SUFFICES ASSUME T # {} PROVE FALSE
    OBVIOUS
<1>1. PICK p \in T : \A q \in T : p =< q
  <2>1. T \subseteq Nat
      OBVIOUS
  <2> HIDE DEF T
  <2> QED BY <2>1, LeastNumber
<1>2. p \in 0 .. Len(a) /\ p \in 0 .. Len(c) /\ p =< n
    OBVIOUS
<1>3. p # 0
    BY <1>2, TiledWalk
<1>4. PICK b \in 0 .. p - 1 : Tiled(a)[b] /\ Tile(a, b, p)
    BY <1>2, <1>3, TiledWalk
<1>5. Tiled(c)[b]
    BY <1>1, <1>4
<1>6. At(a, b) = At(c, b)
    BY <1>2
<1>7. Tile(c, b, p)
  <2>1. CASE At(a, b) = NullTlv
      BY <1>4, <1>6, <2>1 DEF Tile, NullTlv, Skippable
  <2>2. CASE At(a, b) # NullTlv
    <3>1. Field(a, b) # NoField /\ Field(a, b).end = p
        BY <1>4, <2>2 DEF Tile
    <3>2. Field(c, b) = Field(a, b)
        BY <1>2, <3>1, FieldPrefix
    <3> QED BY <1>4, <1>6, <2>2, <3>1, <3>2 DEF Tile
  <2> QED BY <2>1, <2>2
<1>8. Tiled(c)[p]
    BY <1>2, <1>4, <1>5, <1>7, TiledWalk
<1> QED BY <1>8

(* An NDEF TLV at the place of the message that holds x whole is read as x. *)
LEMMA UnwrapsTo ==
    ASSUME NEW a \in Seq(Byte), NEW o \in Places(a), At(a, o) = NdefTlv,
           NEW x \in Seq(Byte), NEW s \in Nat, Field(a, o) = [start |-> s, end |-> s + Len(x)],
           s + Len(x) =< Len(a), s > 0, \A j \in 1 .. Len(x) : a[s + j] = x[j]
    PROVE  Unwrap(a) = {x}
<1>1. PICK f : /\ Unwrap(a) = f[0]
               /\ \A p \in Nat : f[p] = UnwrapStep(a, p, f)
    BY UnwrapWalk
<1>2. o \in 0 .. Len(a) /\ o < Len(a) /\ Tiled(a)[o]
    BY DEF Places
<1>3. f[0] = f[o]
    BY <1>1, <1>2, UnwrapFromTiled
<1>4. f[o] = UnwrapStep(a, o, f)
    BY <1>1, <1>2
<1>5. Field(a, o) # NoField /\ Field(a, o).start = s /\ Field(a, o).end = s + Len(x)
    BY DEF NoField
<1>6. UnwrapStep(a, o, f) = {SubSeq(a, s + 1, s + Len(x))}
    BY <1>2, <1>5 DEF UnwrapStep, NdefTlv, NullTlv, TerminatorTlv
<1>7. SubSeq(a, s + 1, s + Len(x)) = x
  <2> DEFINE c == SubSeq(a, s + 1, s + Len(x))
  <2>1. c \in Seq(Byte) /\ Len(c) = Len(x) /\ \A j \in 1 .. Len(x) : c[j] = x[j]
        OBVIOUS
  <2> HIDE DEF c
  <2>2. c = x
        BY <2>1, SeqEqual
  <2> QED BY <2>2 DEF c
<1> QED BY <1>1, <1>3, <1>4, <1>6, <1>7

(* The user memory is a sequence of Size bytes.                             *)
LEMMA AreaIsSeq ==
    ASSUME NEW a \in [1 .. Size -> Byte]
    PROVE  a \in Seq(Byte) /\ Len(a) = Size
<1> QED BY AreaAssumption

(* The message begins inside user memory, and its page at or before it.     *)
LEMMA Offset ==
    ASSUME TypeOK
    PROVE  /\ area \in Seq(Byte) /\ Len(area) = Size
           /\ Size \in Nat /\ Size % 4 = 0
           /\ TlvOffset(area) \in 0 .. Size - 1
           /\ PageStart \in Nat /\ PageStart % 4 = 0
           /\ PageStart =< TlvOffset(area) /\ TlvOffset(area) < PageStart + 4
<1>1. area \in Seq(Byte) /\ Len(area) = Size
    BY AreaIsSeq DEF TypeOK
<1>2. Size \in Nat /\ Size >= 1 /\ Size % 4 = 0
    BY AreaAssumption DEF PageSize
<1>3. PICK o \in 0 .. Size - 1 : o = TlvOffset(area)
  <2>1. CASE Places(area) = {}
      BY <1>1, <1>2, <2>1, NoPlaceNoOffset
  <2>2. CASE Places(area) # {}
    <3>1. PICK o \in Places(area) : o = TlvOffset(area)
        BY <1>1, <2>2, PlaceIsTheOffset
    <3> QED BY <1>1, <1>2, <3>1 DEF Places
  <2> QED BY <2>1, <2>2
<1>4. PageStart = o - (o % 4)
    BY <1>3 DEF PageStart, PageSize
<1> QED BY <1>1, <1>2, <1>3, <1>4

(* What is written from PageStart on: the bytes ahead of the message, then bytes. *)
Carries(image, bytes) ==
    /\ image \in Seq(Byte)
    /\ Len(image) % 4 = 0
    /\ TlvOffset(area) - PageStart + Len(bytes) =< Len(image)
    /\ \A j \in 1 .. TlvOffset(area) - PageStart : image[j] = area[PageStart + j]
    /\ \A j \in 1 .. Len(bytes) : image[TlvOffset(area) - PageStart + j] = bytes[j]

-----------------------------------------------------------------------------
(* A run of zeros.                                                          *)
LEMMA ZerosAreBytes ==
    ASSUME NEW n \in Nat
    PROVE  Zeros(n) \in Seq(Byte) /\ Len(Zeros(n)) = n /\ \A j \in 1 .. n : Zeros(n)[j] = 0
<1>1. Zeros(n) \in [1 .. n -> Byte]
    BY DEF Zeros, Byte
<1>2. Zeros(n) \in Seq(Byte) /\ Len(Zeros(n)) = n
    BY <1>1
<1> QED BY <1>2 DEF Zeros

(* The elements of two sequences joined.                                    *)
LEMMA Joined ==
    ASSUME NEW S, NEW s \in Seq(S), NEW t \in Seq(S)
    PROVE  /\ s \o t \in Seq(S) /\ Len(s \o t) = Len(s) + Len(t)
           /\ \A j \in 1 .. Len(s) : (s \o t)[j] = s[j]
           /\ \A j \in 1 .. Len(t) : (s \o t)[Len(s) + j] = t[j]
<1>1. /\ s \o t \in Seq(S) /\ Len(s \o t) = Len(s) + Len(t)
      /\ \A j \in 1 .. Len(s) + Len(t) :
             (s \o t)[j] = IF j <= Len(s) THEN s[j] ELSE t[j - Len(s)]
    BY ConcatProperties
<1>2. ASSUME NEW j \in 1 .. Len(t) PROVE (s \o t)[Len(s) + j] = t[j]
  <2>1. PICK k \in 1 .. Len(s) + Len(t) : k = Len(s) + j /\ ~(k <= Len(s)) /\ k - Len(s) = j
      OBVIOUS
  <2> QED BY <1>1, <2>1
<1> QED BY <1>1, <1>2

(* The same of bytes.                                                       *)
LEMMA JoinedBytes ==
    ASSUME NEW s \in Seq(Byte), NEW t \in Seq(Byte)
    PROVE  /\ s \o t \in Seq(Byte) /\ Len(s \o t) = Len(s) + Len(t)
           /\ \A j \in 1 .. Len(s) : (s \o t)[j] = s[j]
           /\ \A j \in 1 .. Len(t) : (s \o t)[Len(s) + j] = t[j]
BY Joined

(* What fills up the last page.                                             *)
LEMMA FillUp ==
    ASSUME NEW n \in Nat
    PROVE  /\ (4 - (n % 4)) % 4 \in 0 .. 3
           /\ (n + ((4 - (n % 4)) % 4)) % 4 = 0
OBVIOUS

(* The image of some bytes carries them in whole pages, and zeros behind.   *)
LEMMA ImageCarries ==
    ASSUME TypeOK, NEW bytes \in Seq(Byte)
    PROVE  /\ Carries(Image(bytes), bytes)
           /\ Len(Image(bytes)) < TlvOffset(area) - PageStart + Len(bytes) + 4
           /\ \A j \in TlvOffset(area) - PageStart + Len(bytes) + 1 .. Len(Image(bytes)) :
                  Image(bytes)[j] = 0
<1>1. PICK o \in Nat : o = TlvOffset(area) /\ o < Size
    BY Offset
<1>2. PICK ps \in Nat : ps = PageStart /\ ps =< o /\ ps % 4 = 0
    BY <1>1, Offset
<1>3. area \in Seq(Byte) /\ Len(area) = Size /\ Size \in Nat
    BY Offset
<1> DEFINE head == SubSeq(area, ps + 1, o)
           len == Len(head) + Len(bytes)
           fill == Zeros((4 - (len % 4)) % 4)
<1>4. /\ head \in Seq(Byte) /\ Len(head) = o - ps
      /\ \A j \in 1 .. o - ps : head[j] = area[ps + j]
    BY <1>1, <1>2, <1>3
<1>5. len \in Nat /\ len = o - ps + Len(bytes)
    BY <1>1, <1>2, <1>4
<1>6. Image(bytes) = head \o bytes \o fill
    BY <1>1, <1>2 DEF Image, PageSize
<1> HIDE DEF head, len
<1>7. PICK z \in 0 .. 3 : z = (4 - (len % 4)) % 4 /\ (len + z) % 4 = 0
    BY <1>5, FillUp
<1>8. fill \in Seq(Byte) /\ Len(fill) = z /\ \A j \in 1 .. z : fill[j] = 0
  <2>1. fill = Zeros(z)
      BY <1>7
  <2> HIDE DEF fill
  <2> QED BY <2>1, ZerosAreBytes
<1> HIDE DEF fill
<1>9. /\ head \o bytes \in Seq(Byte) /\ Len(head \o bytes) = Len(head) + Len(bytes)
      /\ \A j \in 1 .. Len(head) : (head \o bytes)[j] = head[j]
      /\ \A j \in 1 .. Len(bytes) : (head \o bytes)[Len(head) + j] = bytes[j]
    BY <1>4, JoinedBytes
<1>10. PICK hb \in Seq(Byte) :
          /\ hb = head \o bytes /\ Len(hb) = len
          /\ \A j \in 1 .. o - ps : hb[j] = area[ps + j]
          /\ \A j \in 1 .. Len(bytes) : hb[o - ps + j] = bytes[j]
    BY <1>4, <1>5, <1>9
<1>11. /\ hb \o fill \in Seq(Byte) /\ Len(hb \o fill) = Len(hb) + Len(fill)
       /\ \A j \in 1 .. Len(hb) : (hb \o fill)[j] = hb[j]
       /\ \A j \in 1 .. Len(fill) : (hb \o fill)[Len(hb) + j] = fill[j]
    BY <1>8, JoinedBytes
<1>12. PICK im \in Seq(Byte) :
          /\ im = Image(bytes) /\ Len(im) = len + z
          /\ \A j \in 1 .. len : im[j] = hb[j]
          /\ \A j \in 1 .. z : im[len + j] = 0
  <2>1. Image(bytes) = hb \o fill
      BY <1>6, <1>8, <1>10
  <2>2. \A j \in 1 .. len : (hb \o fill)[j] = hb[j]
      BY <1>10, <1>11
  <2>3. \A j \in 1 .. z : (hb \o fill)[len + j] = 0
      BY <1>8, <1>10, <1>11
  <2> QED BY <1>8, <1>10, <1>11, <2>1, <2>2, <2>3
<1>13. /\ Len(im) % 4 = 0 /\ o - ps + Len(bytes) =< Len(im)
       /\ Len(im) < o - ps + Len(bytes) + 4
  <2>1. PICK d \in Nat : d = o - ps
      BY <1>1, <1>2
  <2>2. PICK b \in Nat : b = Len(bytes)
      OBVIOUS
  <2>3. PICK l \in Nat : l = len /\ l = d + b
      BY <1>5, <2>1, <2>2
  <2>4. Len(im) = l + z /\ (l + z) % 4 = 0
      BY <1>7, <1>12, <2>3
  <2> QED BY <2>1, <2>2, <2>3, <2>4
<1>14. ASSUME NEW j \in 1 .. o - ps PROVE im[j] = area[ps + j]
  <2>1. j \in 1 .. len
      BY <1>1, <1>2, <1>5
  <2> QED BY <1>10, <1>12, <2>1
<1>15. ASSUME NEW j \in 1 .. Len(bytes) PROVE im[o - ps + j] = bytes[j]
  <2>1. PICK d \in Nat : d = o - ps
      BY <1>1, <1>2
  <2>2. PICK b \in Nat : b = Len(bytes)
      OBVIOUS
  <2>3. d + j \in 1 .. len
      BY <1>5, <2>1, <2>2
  <2> QED BY <1>10, <1>12, <2>1, <2>3
<1>16. \A j \in o - ps + Len(bytes) + 1 .. Len(im) : im[j] = 0
  <2> SUFFICES ASSUME NEW j \in o - ps + Len(bytes) + 1 .. Len(im) PROVE im[j] = 0
      OBVIOUS
  <2>1. j - len \in 1 .. z /\ j = len + (j - len)
      BY <1>1, <1>2, <1>5, <1>12
  <2> QED BY <1>12, <2>1
<1>17. Carries(im, bytes)
    BY <1>1, <1>2, <1>13, <1>14, <1>15 DEF Carries
<1> QED BY <1>1, <1>2, <1>12, <1>13, <1>16, <1>17

(* k bytes of image have landed.                                            *)
LandsUpTo(k, image, m) ==
    /\ area' \in [1 .. Size -> Byte]
    /\ \A j \in 1 .. Size :
           area'[j] = IF j > PageStart /\ j - PageStart =< k THEN image[j - PageStart] ELSE area[j]
    /\ behind' <=> behind \/ \E j \in 1 .. k : PageStart + j > Size /\ image[j] # 0
    /\ stored' = IF k = Len(image) THEN {m} ELSE IF area' = area THEN stored ELSE {}

(* Page writes cover a multiple of four bytes.                              *)
LEMMA Quarters ==
    ASSUME NEW len \in Nat, len % 4 = 0, NEW n \in 0 .. len \div 4
    PROVE  4 * n \in 0 .. len /\ (4 * n) % 4 = 0
OBVIOUS

(* Whatever page write is the last to land, some bytes of the image have.   *)
LEMMA LandsSome ==
    ASSUME TypeOK, NEW image \in Seq(Byte), Len(image) % 4 = 0, NEW m, Land(image, m)
    PROVE  \E k \in 0 .. Len(image) : k % 4 = 0 /\ LandsUpTo(k, image, m) /\ behind' \in BOOLEAN
<1>1. PICK ps \in Nat : ps = PageStart
    BY Offset
<1>2. area \in Seq(Byte) /\ Len(area) = Size /\ Size \in Nat
    BY Offset
<1>3. PICK n \in 0 .. Len(image) \div 4 :
        LET sent  == SubSeq(image, 1, n * 4)
            cover == ps + 1 .. ps + Len(sent)
        IN  /\ area' = [j \in 1 .. Size |-> IF j \in cover THEN sent[j - ps] ELSE area[j]]
            /\ behind' = (behind \/ \E j \in cover : j > Size /\ sent[j - ps] # 0)
            /\ stored' = IF sent = image THEN {m} ELSE IF area' = area THEN stored ELSE {}
    BY <1>1 DEF Land, PageSize
<1>4. PICK k \in 0 .. Len(image) : k = 4 * n /\ k % 4 = 0
    BY Quarters
<1> DEFINE sent == SubSeq(image, 1, k)
<1>5. /\ Len(sent) = k
      /\ \A j \in 1 .. k : sent[j] = image[j]
      /\ sent = image <=> k = Len(image)
  <2>1. sent \in Seq(Byte) /\ Len(sent) = k /\ \A j \in 1 .. k : sent[j] = image[j]
        BY <1>4
  <2>2. ASSUME k = Len(image) PROVE sent = image
    <3> HIDE DEF sent
    <3> QED BY <2>1, <2>2, SeqEqual
  <2> HIDE DEF sent
  <2> QED BY <2>1, <2>2
<1>6. /\ area' = [j \in 1 .. Size |-> IF j \in ps + 1 .. ps + k THEN sent[j - ps] ELSE area[j]]
      /\ behind' = (behind \/ \E j \in ps + 1 .. ps + k : j > Size /\ sent[j - ps] # 0)
      /\ stored' = IF sent = image THEN {m} ELSE IF area' = area THEN stored ELSE {}
  <2>1. n * 4 = k
      BY <1>4
  <2> QED BY <1>3, <1>5, <2>1
<1> HIDE DEF sent
<1>7. \A j \in 1 .. k : image[j] \in Byte
      OBVIOUS
<1>8. ASSUME NEW j \in 1 .. Size
      PROVE  /\ area'[j] = IF j > ps /\ j - ps =< k THEN image[j - ps] ELSE area[j]
             /\ area'[j] \in Byte
  <2>1. area[j] \in Byte
        BY <1>2
  <2>2. CASE j \in ps + 1 .. ps + k
    <3>1. PICK i \in 1 .. k : i = j - ps
        BY <1>1, <2>2
    <3>2. area'[j] = image[i]
        BY <1>5, <1>6, <2>2, <3>1
    <3> QED BY <1>1, <1>7, <2>2, <3>1, <3>2
  <2>3. CASE j \notin ps + 1 .. ps + k
    <3>1. ~(j > ps /\ j - ps =< k)
        BY <1>1, <2>3
    <3> QED BY <1>6, <2>1, <2>3, <3>1
  <2> QED BY <2>2, <2>3
<1>9. area' \in [1 .. Size -> Byte]
      BY <1>6, <1>8
<1>10. (\E j \in ps + 1 .. ps + k : j > Size /\ sent[j - ps] # 0)
            <=> \E j \in 1 .. k : ps + j > Size /\ image[j] # 0
  <2>1. ASSUME NEW j \in ps + 1 .. ps + k, j > Size, sent[j - ps] # 0
        PROVE  \E i \in 1 .. k : ps + i > Size /\ image[i] # 0
    <3>1. PICK i \in 1 .. k : i = j - ps /\ ps + i = j
        BY <1>1
    <3> QED BY <1>5, <2>1, <3>1
  <2>2. ASSUME NEW j \in 1 .. k, ps + j > Size, image[j] # 0
        PROVE  \E i \in ps + 1 .. ps + k : i > Size /\ sent[i - ps] # 0
    <3>1. PICK i \in ps + 1 .. ps + k : i = ps + j /\ i - ps = j
        BY <1>1
    <3> QED BY <1>5, <2>2, <3>1
  <2> QED BY <2>1, <2>2
<1>11. behind' \in BOOLEAN /\ (behind' <=> behind \/ \E j \in 1 .. k : ps + j > Size /\ image[j] # 0)
    BY <1>6, <1>10 DEF TypeOK
<1>12. stored' = IF k = Len(image) THEN {m} ELSE IF area' = area THEN stored ELSE {}
    BY <1>5, <1>6
<1> QED BY <1>1, <1>4, <1>8, <1>9, <1>11, <1>12 DEF LandsUpTo

(* What lies ahead of the message stays.                                    *)
LEMMA AheadKept ==
    ASSUME TypeOK, NEW bytes \in Seq(Byte), NEW image, Carries(image, bytes),
           NEW m, NEW k \in 0 .. Len(image), LandsUpTo(k, image, m),
           NEW i \in 0 .. TlvOffset(area) - 1
    PROVE  At(area', i) = At(area, i)
<1>1. PICK o \in 0 .. Size - 1 : o = TlvOffset(area)
    BY Offset
<1>2. PICK ps \in 0 .. o : ps = PageStart
    BY <1>1, Offset
<1>3. PICK j \in 1 .. Size : j = i + 1 /\ j =< o
    BY <1>1, Offset
<1>4. CASE j > ps /\ j - ps =< k
  <2>1. PICK d \in 1 .. o - ps : d = j - ps /\ ps + d = j
      BY <1>2, <1>3, <1>4
  <2>2. image[d] = area[j]
      BY <1>1, <1>2, <2>1 DEF Carries
  <2>3. area'[j] = image[d]
      BY <1>2, <1>4, <2>1 DEF LandsUpTo
  <2> QED BY <1>3, <2>2, <2>3 DEF At
<1>5. CASE ~(j > ps /\ j - ps =< k)
    BY <1>2, <1>3, <1>5 DEF LandsUpTo, At
<1> QED BY <1>4, <1>5

(* With no page landed the memory is as it was.                             *)
LEMMA NothingLanded ==
    ASSUME TypeOK, NEW image, NEW m, LandsUpTo(0, image, m)
    PROVE  area' = area
<1>1. PICK ps \in Nat : ps = PageStart
    BY Offset
<1>2. ASSUME NEW j \in 1 .. Size PROVE area'[j] = area[j]
  <2>1. ~(j > ps /\ j - ps =< 0)
      BY <1>1
  <2> QED BY <1>1, <2>1 DEF LandsUpTo
<1>3. area = [j \in 1 .. Size |-> area[j]] /\ area' = [j \in 1 .. Size |-> area'[j]]
  <2>1. area \in [1 .. Size -> Byte] /\ area' \in [1 .. Size -> Byte]
      BY DEF TypeOK, LandsUpTo
  <2> QED BY <2>1
<1>4. [j \in 1 .. Size |-> area'[j]] = [j \in 1 .. Size |-> area[j]]
    BY <1>2
<1> QED BY <1>3, <1>4

(* The bytes that have landed can be found behind the place.                *)
LEMMA LandedInFull ==
    ASSUME TypeOK, NEW bytes \in Seq(Byte), NEW image, Carries(image, bytes),
           NEW m, NEW k \in 0 .. Len(image), LandsUpTo(k, image, m),
           NEW i \in 0 .. Len(bytes) - 1, TlvOffset(area) + i < Size,
           TlvOffset(area) - PageStart + i < k
    PROVE  At(area', TlvOffset(area) + i) = bytes[i + 1]
<1>1. PICK o \in 0 .. Size - 1 : o = TlvOffset(area)
    BY Offset
<1>2. PICK ps \in 0 .. o : ps = PageStart
    BY <1>1, Offset
<1>3. PICK b \in Nat : b = Len(bytes)
    OBVIOUS
<1>4. i \in 0 .. b - 1 /\ Size \in Nat
    BY <1>3, Offset
<1>5. o + i < Size /\ o - ps + i < k
    BY <1>1, <1>2
<1>6. PICK j \in 1 .. Size : j = o + i + 1
    BY <1>1, <1>4, <1>5
<1>7. PICK d \in Nat : d = o - ps
    BY <1>2
<1>8. PICK e \in 1 .. b : e = i + 1
    BY <1>4
<1>9. d + i < k /\ k \in Int /\ i \in Int /\ o \in Int /\ j \in Int
    BY <1>4, <1>5, <1>7
<1>10. j > ps /\ j - ps =< k /\ j - ps = d + e
  <2>1. j - ps = d + i + 1 /\ e = i + 1 /\ i >= 0
      BY <1>4, <1>6, <1>7, <1>8, <1>9
  <2> QED BY <1>9, <2>1
<1>11. area'[j] = image[d + e]
    BY <1>2, <1>10 DEF LandsUpTo
<1>12. image[d + e] = bytes[e]
    BY <1>1, <1>2, <1>3, <1>7, <1>8 DEF Carries
<1>13. At(area', TlvOffset(area) + i) = area'[o + i + 1]
    BY <1>1 DEF At
<1> QED BY <1>6, <1>8, <1>11, <1>12, <1>13

(* As soon as a page has landed, the place is that of the message, and an   *)
(* NDEF TLV begins there.                                                   *)
LEMMA PlaceStays ==
    ASSUME TypeOK, NEW bytes \in Seq(Byte), Len(bytes) > 0, bytes[1] = NdefTlv,
           NEW image, Carries(image, bytes),
           NEW m, NEW k \in 0 .. Len(image), k % 4 = 0, k # 0, LandsUpTo(k, image, m)
    PROVE  /\ Places(area') = {TlvOffset(area)}
           /\ At(area', TlvOffset(area)) = NdefTlv
<1>1. PICK o \in 0 .. Size - 1 : o = TlvOffset(area)
    BY Offset
<1>2. PICK ps \in 0 .. o : ps = PageStart /\ o < ps + 4
    BY <1>1, Offset
<1>3. area \in Seq(Byte) /\ Len(area) = Size /\ Size \in Nat
    BY Offset
<1>4. area' \in Seq(Byte) /\ Len(area') = Size
    BY AreaIsSeq DEF LandsUpTo
<1>5. k >= 4
    OBVIOUS
<1>6. At(area', o) = NdefTlv
  <2>1. 0 \in 0 .. Len(bytes) - 1 /\ o + 0 = o /\ o + 0 < Size /\ o - ps + 0 < k
      BY <1>1, <1>2, <1>3, <1>5
  <2> QED BY <1>1, <1>2, <2>1, LandedInFull
<1>7. Tiled(area)[o]
  <2>1. CASE Places(area) = {}
      BY <1>1, <1>3, <2>1, NoPlaceNoOffset, TiledWalk
  <2>2. CASE Places(area) # {}
    <3>1. PICK p \in Places(area) : p = o
        BY <1>1, <1>3, <2>2, PlaceIsTheOffset
    <3> QED BY <3>1 DEF Places
  <2> QED BY <2>1, <2>2
<1>8. \A i \in 0 .. o - 1 : At(area, i) = At(area', i)
    BY <1>1, AheadKept
<1>9. Tiled(area')[o]
    BY <1>1, <1>3, <1>4, <1>7, <1>8, TiledPrefix
<1>10. o \in Places(area')
    BY <1>1, <1>4, <1>6, <1>9 DEF Places, NdefTlv, NullTlv, Skippable
<1>11. \A p \in Places(area') : p = o
    BY <1>4, <1>10, PlaceIsTheOffset
<1> QED BY <1>1, <1>6, <1>10, <1>11

-----------------------------------------------------------------------------
(* What a byte is.                                                          *)
LEMMA Bytes ==
    \A x : x \in Byte <=> x \in Nat /\ x =< 255
BY DEF Byte

(* The longest message the long form can tell: two bytes.                   *)
Longest == 65535

(* The two bytes of a length make that length.                              *)
LEMMA Quotients ==
    ASSUME NEW n \in Nat, n =< Longest
    PROVE  n \div 256 \in Byte /\ n % 256 \in Byte /\ 256 * (n \div 256) + (n % 256) = n
BY Bytes DEF Longest

(* The tag byte and the length ahead of a message.                          *)
WrapHead(m) ==
    IF Len(m) < LongFrom THEN <<NdefTlv, Len(m)>>
    ELSE <<NdefTlv, 255, Len(m) \div 256, Len(m) % 256>>

(* How long a wrapped message is.                                           *)
LEMMA WrapLength ==
    ASSUME NEW m \in Seq(Byte)
    PROVE  Len(Wrap(m)) = (IF Len(m) < LongFrom THEN 2 ELSE 4) + Len(m) + 1
<1>1. WrapHead(m) \in Seq(Nat) /\ Len(WrapHead(m)) = IF Len(m) < LongFrom THEN 2 ELSE 4
  <2>1. PICK n \in Nat : n = Len(m)
      OBVIOUS
  <2>2. n \div 256 \in Nat /\ n % 256 \in Nat
      OBVIOUS
  <2> QED BY <2>1, <2>2 DEF WrapHead, NdefTlv
<1>2. m \in Seq(Nat)
    BY Bytes
<1>3. <<TerminatorTlv>> \in Seq(Nat) /\ Len(<<TerminatorTlv>>) = 1
    BY DEF TerminatorTlv
<1>4. WrapHead(m) \o m \in Seq(Nat) /\ Len(WrapHead(m) \o m) = Len(WrapHead(m)) + Len(m)
    BY <1>1, <1>2, Joined
<1>5. Len((WrapHead(m) \o m) \o <<TerminatorTlv>>) = Len(WrapHead(m) \o m) + 1
    BY <1>3, <1>4, Joined
<1>6. Wrap(m) = (WrapHead(m) \o m) \o <<TerminatorTlv>>
    BY DEF Wrap, WrapHead
<1> QED BY <1>1, <1>4, <1>5, <1>6

(* A wrapped message: its length, short or long, and its bytes behind it.   *)
LEMMA WrapShape ==
    ASSUME NEW m \in Seq(Byte), Len(m) =< Longest
    PROVE  /\ Wrap(m) \in Seq(Byte)
           /\ Wrap(m)[1] = NdefTlv
           /\ \/ /\ Len(Wrap(m)) = 2 + Len(m) + 1
                 /\ Wrap(m)[2] = Len(m) /\ Len(m) < 255
                 /\ \A j \in 1 .. Len(m) : Wrap(m)[2 + j] = m[j]
              \/ /\ Len(Wrap(m)) = 4 + Len(m) + 1
                 /\ Wrap(m)[2] = 255
                 /\ 256 * Wrap(m)[3] + Wrap(m)[4] = Len(m)
                 /\ \A j \in 1 .. Len(m) : Wrap(m)[4 + j] = m[j]
<1>1. PICK n \in Nat : n = Len(m) /\ n =< Longest
    OBVIOUS
<1>2. n \div 256 \in Byte /\ n % 256 \in Byte /\ 256 * (n \div 256) + (n % 256) = n
    BY <1>1, Quotients
<1>3. LongFrom \in Nat /\ LongFrom =< 255
    BY AreaAssumption
<1>4. <<TerminatorTlv>> \in Seq(Byte)
    BY Bytes DEF TerminatorTlv
<1>5. Wrap(m) = (WrapHead(m) \o m) \o <<TerminatorTlv>>
    BY DEF Wrap, WrapHead
<1>6. ASSUME NEW l \in Nat, WrapHead(m) \in Seq(Byte), Len(WrapHead(m)) = l
      PROVE  /\ Wrap(m) \in Seq(Byte) /\ Len(Wrap(m)) = l + n + 1
             /\ \A j \in 1 .. l : Wrap(m)[j] = WrapHead(m)[j]
             /\ \A j \in 1 .. n : Wrap(m)[l + j] = m[j]
  <2> DEFINE c == WrapHead(m) \o m
             w == c \o <<TerminatorTlv>>
  <2>1. c \in Seq(Byte) /\ Len(c) = l + n
      BY <1>1, <1>6, JoinedBytes
  <2>2. /\ \A j \in 1 .. l : c[j] = WrapHead(m)[j]
        /\ \A j \in 1 .. n : c[l + j] = m[j]
      BY <1>1, <1>6, JoinedBytes
  <2> HIDE DEF c
  <2>3. w \in Seq(Byte) /\ Len(w) = l + n + 1 /\ \A j \in 1 .. l + n : w[j] = c[j]
      BY <1>1, <1>4, <2>1, JoinedBytes
  <2>4. w = Wrap(m)
      BY <1>5 DEF c
  <2> HIDE DEF w
  <2>5. \A j \in 1 .. l : w[j] = WrapHead(m)[j]
      BY <1>1, <2>2, <2>3
  <2>6. ASSUME NEW j \in 1 .. n PROVE w[l + j] = m[j]
    <3>1. l + j \in 1 .. l + n
        BY <1>1
    <3> QED BY <2>2, <2>3, <3>1
  <2> QED BY <2>3, <2>4, <2>5, <2>6
<1>7. CASE Len(m) < LongFrom
  <2> DEFINE hh == <<NdefTlv, n>>
  <2>1. hh \in Seq(Byte) /\ Len(hh) = 2 /\ hh[1] = NdefTlv /\ hh[2] = n
    <3>1. NdefTlv \in Byte /\ n \in Byte
        BY <1>1, <1>3, <1>7, Bytes DEF NdefTlv
    <3> QED BY <3>1
  <2>2. hh = WrapHead(m)
      BY <1>1, <1>7 DEF WrapHead
  <2> HIDE DEF hh
  <2>3. /\ Wrap(m) \in Seq(Byte) /\ Len(Wrap(m)) = 2 + n + 1
        /\ \A j \in 1 .. 2 : Wrap(m)[j] = hh[j]
        /\ \A j \in 1 .. n : Wrap(m)[2 + j] = m[j]
    <3>1. 2 \in Nat /\ WrapHead(m) \in Seq(Byte) /\ Len(WrapHead(m)) = 2
        BY <2>1, <2>2
    <3> QED BY <1>6, <2>2, <3>1
  <2>4. Wrap(m)[1] = NdefTlv /\ Wrap(m)[2] = n
      BY <2>1, <2>3
  <2>5. n < 255
      BY <1>1, <1>3, <1>7
  <2> QED BY <1>1, <2>3, <2>4, <2>5
<1>8. CASE ~(Len(m) < LongFrom)
  <2> DEFINE hh == <<NdefTlv, 255, n \div 256, n % 256>>
  <2>1. /\ hh \in Seq(Byte) /\ Len(hh) = 4
        /\ hh[1] = NdefTlv /\ hh[2] = 255 /\ hh[3] = n \div 256 /\ hh[4] = n % 256
    <3>1. NdefTlv \in Byte /\ 255 \in Byte
        BY Bytes DEF NdefTlv
    <3> QED BY <1>2, <3>1
  <2>2. hh = WrapHead(m)
      BY <1>1, <1>8 DEF WrapHead
  <2> HIDE DEF hh
  <2>3. /\ Wrap(m) \in Seq(Byte) /\ Len(Wrap(m)) = 4 + n + 1
        /\ \A j \in 1 .. 4 : Wrap(m)[j] = hh[j]
        /\ \A j \in 1 .. n : Wrap(m)[4 + j] = m[j]
    <3>1. 4 \in Nat /\ WrapHead(m) \in Seq(Byte) /\ Len(WrapHead(m)) = 4
        BY <2>1, <2>2
    <3> QED BY <1>6, <2>2, <3>1
  <2>4. /\ Wrap(m)[1] = NdefTlv /\ Wrap(m)[2] = 255
        /\ Wrap(m)[3] = n \div 256 /\ Wrap(m)[4] = n % 256
      BY <2>1, <2>3
  <2> QED BY <1>1, <1>2, <2>3, <2>4
<1> QED BY <1>7, <1>8

(* The empty message and its terminator, which format and erase write.      *)
Empty == <<NdefTlv, 0, TerminatorTlv>>

(* What an operation asks for, and how much of it lands.                    *)
Operation(image, bytes, m, k) ==
    /\ bytes \in Seq(Byte) /\ Len(bytes) > 0 /\ bytes[1] = NdefTlv
    /\ Carries(image, bytes)
    /\ k \in 0 .. Len(image) /\ k % 4 = 0
    /\ LandsUpTo(k, image, m) /\ behind' \in BOOLEAN
    /\ \/ /\ m \in Messages /\ bytes = Wrap(m)
          /\ TlvOffset(area) + Len(bytes) =< Size
          /\ PageStart + Len(image) =< Size
       \/ /\ m = << >> /\ bytes = Empty
          /\ \A j \in TlvOffset(area) - PageStart + 4 .. Len(image) : image[j] = 0
          /\ TlvOffset(area) + 2 >= Size => Len(image) < TlvOffset(area) - PageStart + 7

(* It is made of bytes.                                                     *)
LEMMA EmptyType == Empty \in Seq(Byte) /\ Len(Empty) = 3 /\ Empty[1] = NdefTlv /\ Empty[2] = 0
<1>1. NdefTlv \in Byte /\ 0 \in Byte /\ TerminatorTlv \in Byte
    BY Bytes DEF NdefTlv, TerminatorTlv
<1> QED BY <1>1 DEF Empty

(* So is every message.                                                     *)
LEMMA MessageType ==
    ASSUME NEW m \in Messages
    PROVE  m \in Seq(Byte)
BY AreaAssumption

(* Whole pages that hold what fits end inside user memory, whose end is     *)
(* that of a page.                                                          *)
LEMMA EndsInside ==
    ASSUME NEW size \in Nat, NEW ps \in Nat, NEW o \in Nat, NEW b \in Nat, NEW l \in Nat,
           size % 4 = 0, ps % 4 = 0, l % 4 = 0, ps =< o, o + b =< size, l < o - ps + b + 4
    PROVE  ps + l =< size
OBVIOUS

(* What erase has to add makes whole pages.                                 *)
LEMMA RestInPages ==
    ASSUME NEW size \in Nat, NEW ps \in Nat, NEW l \in Nat, NEW z \in Nat,
           size % 4 = 0, ps % 4 = 0, l % 4 = 0,
           z = 0 \/ ps + l + z = size
    PROVE  z % 4 = 0 /\ (l + z) % 4 = 0
OBVIOUS

-----------------------------------------------------------------------------
(* A write is an operation.                                                 *)
LEMMA WriteIs ==
    ASSUME TypeOK, NEW m \in Messages, Write(m)
    PROVE  \E image, k : Operation(image, Wrap(m), m, k)
<1>1. PICK o \in 0 .. Size - 1 : o = TlvOffset(area)
    BY Offset
<1>2. PICK ps \in 0 .. o : ps = PageStart /\ ps % 4 = 0
    BY <1>1, Offset
<1>3. Size \in Nat /\ Size =< 2040 /\ Size % 4 = 0
    BY AreaAssumption DEF PageSize
<1>4. m \in Seq(Byte)
    BY MessageType
<1>5. Len(m) =< Longest
  <2>1. PICK n \in Nat : n = Len(m)
      BY <1>4
  <2>2. Len(Wrap(m)) >= n
      BY <1>4, <2>1, WrapLength
  <2>3. Len(Wrap(m)) \in Int
      BY <1>4, <2>1, WrapLength
  <2>4. o + Len(Wrap(m)) =< Size
      BY <1>1 DEF Write
  <2> QED BY <1>1, <1>3, <2>1, <2>2, <2>3, <2>4 DEF Longest
<1>6. Wrap(m) \in Seq(Byte) /\ Wrap(m)[1] = NdefTlv
    BY <1>4, <1>5, WrapShape
<1>7. PICK b \in Nat : b = Len(Wrap(m)) /\ b > 0
    BY <1>4, <1>6, WrapLength
<1>8. o + b =< Size
    BY <1>1, <1>7 DEF Write
<1> DEFINE image == Image(Wrap(m))
<1>9. Carries(image, Wrap(m)) /\ Len(image) < o - ps + b + 4
    BY <1>1, <1>2, <1>6, <1>7, ImageCarries
<1>10. image \in Seq(Byte) /\ Len(image) % 4 = 0
    BY <1>9 DEF Carries
<1>11. Land(image, m)
    BY DEF Write
<1> HIDE DEF image
<1>12. PICK k \in 0 .. Len(image) : k % 4 = 0 /\ LandsUpTo(k, image, m) /\ behind' \in BOOLEAN
    BY <1>10, <1>11, LandsSome
<1>13. ps + Len(image) =< Size
  <2>1. PICK l \in Nat : l = Len(image) /\ l % 4 = 0 /\ l < o - ps + b + 4
      BY <1>9, <1>10
  <2>2. o \in Nat /\ ps \in Nat /\ ps =< o
      BY <1>1, <1>2, <1>3
  <2> QED BY <1>2, <1>3, <1>8, <2>1, <2>2, EndsInside
<1>14. Operation(image, Wrap(m), m, k)
    BY <1>1, <1>2, <1>6, <1>7, <1>8, <1>9, <1>12, <1>13 DEF Operation
<1> QED BY <1>14

(* What format writes carries the empty message.                            *)
LEMMA EmptyNdefCarries ==
    ASSUME TypeOK
    PROVE  /\ Carries(EmptyNdef, Empty)
           /\ Len(EmptyNdef) < TlvOffset(area) - PageStart + 7
           /\ \A j \in TlvOffset(area) - PageStart + 4 .. Len(EmptyNdef) : EmptyNdef[j] = 0
<1>1. EmptyNdef = Image(Empty)
    BY DEF EmptyNdef, Empty
<1>2. PICK d \in Nat : d = TlvOffset(area) - PageStart
    BY Offset
<1>3. /\ Carries(Image(Empty), Empty)
      /\ Len(Image(Empty)) < d + 3 + 4
      /\ \A j \in d + 3 + 1 .. Len(Image(Empty)) : Image(Empty)[j] = 0
    BY <1>2, EmptyType, ImageCarries
<1>4. d + 3 + 4 = d + 7 /\ d + 3 + 1 = d + 4
    OBVIOUS
<1> QED BY <1>1, <1>2, <1>3, <1>4

(* A format is an operation.                                                *)
LEMMA FormatIs ==
    ASSUME TypeOK, Format
    PROVE  \E image, k : Operation(image, Empty, << >>, k)
<1>1. EmptyNdef \in Seq(Byte) /\ Len(EmptyNdef) % 4 = 0
    BY EmptyNdefCarries DEF Carries
<1>2. PICK k \in 0 .. Len(EmptyNdef) :
          k % 4 = 0 /\ LandsUpTo(k, EmptyNdef, << >>) /\ behind' \in BOOLEAN
    BY <1>1, LandsSome DEF Format
<1>3. Operation(EmptyNdef, Empty, << >>, k)
    BY <1>2, EmptyType, EmptyNdefCarries DEF Operation
<1> QED BY <1>3

(* So is an erase, with the zeros it writes behind the empty message.       *)
LEMMA EraseIs ==
    ASSUME TypeOK, Erase
    PROVE  \E image, k : Operation(image, Empty, << >>, k)
<1>1. Size \in Nat /\ Size % 4 = 0
    BY Offset
<1>2. PICK o \in Nat : o = TlvOffset(area) /\ o < Size
    BY <1>1, Offset
<1>3. PICK ps \in Nat : ps = PageStart /\ ps % 4 = 0 /\ ps =< o
    BY <1>2, Offset
<1>4. PICK d \in Nat : d = o - ps
    BY <1>3
<1>5. PICK e \in Seq(Byte) : e = EmptyNdef
    BY EmptyNdefCarries DEF Carries
<1>6. PICK l \in Nat : l = Len(e)
    OBVIOUS
<1>7. /\ l % 4 = 0 /\ l < d + 7 /\ d + 3 =< l
      /\ \A j \in 1 .. d : e[j] = area[ps + j]
      /\ \A j \in 1 .. 3 : e[d + j] = Empty[j]
      /\ \A j \in d + 4 .. l : e[j] = 0
    BY <1>2, <1>3, <1>4, <1>5, <1>6, EmptyNdefCarries, EmptyType DEF Carries
<1>8. PICK z \in Nat : /\ z = IF ps + l < Size THEN Size - ps - l ELSE 0
                       /\ \/ ps + l < Size /\ ps + l + z = Size
                          \/ ~(ps + l < Size) /\ z = 0
  <2>1. CASE ps + l < Size
    <3>1. Size - ps - l \in Nat /\ ps + l + (Size - ps - l) = Size
        BY <1>1, <1>3, <1>6, <2>1
    <3> QED BY <2>1, <3>1
  <2>2. CASE ~(ps + l < Size)
      BY <2>2
  <2> QED BY <2>1, <2>2
<1>9. z % 4 = 0 /\ (l + z) % 4 = 0
  <2>1. l % 4 = 0
      BY <1>7
  <2>2. z = 0 \/ ps + l + z = Size
      BY <1>8
  <2> QED BY <1>1, <1>3, <2>1, <2>2, RestInPages
<1>10. o + 2 >= Size => z = 0
  <2> SUFFICES ASSUME o + 2 >= Size PROVE ~(ps + l < Size)
      BY <1>8
  <2>1. d + 3 =< l
      BY <1>7
  <2>2. ps + d = o
      BY <1>3, <1>4
  <2>3. ps + l >= o + 3
      BY <2>1, <2>2
  <2> QED BY <1>1, <2>3
<1> DEFINE image == e \o Zeros(z)
<1>11. Land(image, << >>)
    BY <1>3, <1>5, <1>6, <1>8 DEF Erase
<1>12. /\ image \in Seq(Byte) /\ Len(image) = l + z
       /\ \A j \in 1 .. l : image[j] = e[j]
       /\ \A j \in 1 .. z : image[l + j] = 0
  <2>1. Zeros(z) \in Seq(Byte) /\ Len(Zeros(z)) = z /\ \A j \in 1 .. z : Zeros(z)[j] = 0
      BY ZerosAreBytes
  <2>2. /\ e \o Zeros(z) \in Seq(Byte) /\ Len(e \o Zeros(z)) = Len(e) + Len(Zeros(z))
        /\ \A j \in 1 .. Len(e) : (e \o Zeros(z))[j] = e[j]
        /\ \A j \in 1 .. Len(Zeros(z)) : (e \o Zeros(z))[Len(e) + j] = Zeros(z)[j]
      BY <2>1, JoinedBytes
  <2> QED BY <1>6, <2>1, <2>2
<1> HIDE DEF image
<1>13. Len(image) % 4 = 0
    BY <1>9, <1>12
<1>14. Carries(image, Empty)
  <2>1. ASSUME NEW j \in 1 .. d PROVE image[j] = area[ps + j]
    <3>1. j \in 1 .. l
        BY <1>7
    <3> QED BY <1>7, <1>12, <3>1
  <2>2. ASSUME NEW j \in 1 .. 3 PROVE image[d + j] = Empty[j]
    <3>1. d + j \in 1 .. l
        BY <1>7
    <3> QED BY <1>7, <1>12, <3>1
  <2>3. d + 3 =< Len(image)
      BY <1>7, <1>12
  <2> QED BY <1>2, <1>3, <1>4, <1>12, <1>13, <2>1, <2>2, <2>3, EmptyType DEF Carries
<1>15. ASSUME NEW j \in d + 4 .. Len(image) PROVE image[j] = 0
  <2>1. CASE j =< l
    <3>1. j \in 1 .. l /\ j \in d + 4 .. l
        BY <2>1
    <3> QED BY <1>7, <1>12, <3>1
  <2>2. CASE j > l
    <3>1. PICK i \in 1 .. z : j = l + i
      <4>1. j - l \in 1 .. z /\ j = l + (j - l)
          BY <1>12, <2>2
      <4> QED BY <4>1
    <3> QED BY <1>12, <3>1
  <2>3. j \in Int
      OBVIOUS
  <2> QED BY <2>1, <2>2, <2>3
<1>16. o + 2 >= Size => Len(image) < d + 7
    BY <1>7, <1>10, <1>12
<1>17. PICK k \in 0 .. Len(image) : k % 4 = 0 /\ LandsUpTo(k, image, << >>) /\ behind' \in BOOLEAN
    BY <1>11, <1>12, <1>13, LandsSome
<1>18. Operation(image, Empty, << >>, k)
    BY <1>2, <1>3, <1>4, <1>14, <1>15, <1>16, <1>17, EmptyType DEF Operation
<1> QED BY <1>18

(* So is every step.                                                        *)
LEMMA NextIs ==
    ASSUME TypeOK, Next
    PROVE  \E image, bytes, m, k : Operation(image, bytes, m, k)
<1>1. CASE Format
    BY <1>1, FormatIs
<1>2. CASE Erase
    BY <1>2, EraseIs
<1>3. CASE \E m \in Messages : Write(m)
    BY <1>3, WriteIs
<1> QED BY <1>1, <1>2, <1>3 DEF Next

-----------------------------------------------------------------------------
(* An operation keeps the types.                                            *)
LEMMA OperationType ==
    ASSUME TypeOK, NEW image, NEW bytes, NEW m, NEW k, Operation(image, bytes, m, k)
    PROVE  TypeOK'
<1>1. area' \in [1 .. Size -> Byte] /\ behind' \in BOOLEAN
    BY DEF Operation, LandsUpTo
<1>2. m \in Messages \cup {<< >>}
    BY DEF Operation
<1>3. stored' \in {{m}, stored, {}}
    BY DEF Operation, LandsUpTo
<1>4. \E x \in Messages \cup {<< >>} : stored' \subseteq {x}
    BY <1>2, <1>3 DEF TypeOK
<1> QED BY <1>1, <1>4 DEF TypeOK

(* An operation keeps the TLVs ahead of the message.                        *)
LEMMA OperationKeepsAhead ==
    ASSUME TypeOK, NEW image, NEW bytes, NEW m, NEW k, Operation(image, bytes, m, k),
           NEW o \in Places(area)
    PROVE  SubSeq(area', 1, o) = SubSeq(area, 1, o)
<1>1. /\ area \in Seq(Byte) /\ Len(area) = Size /\ Size \in Nat
      /\ area' \in Seq(Byte) /\ Len(area') = Size
    BY Offset, AreaIsSeq DEF Operation, LandsUpTo
<1>2. o = TlvOffset(area)
    BY <1>1, PlaceIsTheOffset
<1>3. PICK n \in Nat : n = o /\ n < Size
    BY <1>1, <1>2, Offset
<1>4. ASSUME NEW j \in 1 .. n PROVE area'[j] = area[j]
  <2>1. PICK i \in 0 .. n - 1 : i + 1 = j
    <3>1. j - 1 \in 0 .. n - 1 /\ (j - 1) + 1 = j
        OBVIOUS
    <3> QED BY <3>1
  <2>2. At(area', i) = At(area, i)
      BY <1>2, <1>3, <2>1, AheadKept DEF Operation
  <2> QED BY <2>1, <2>2 DEF At
<1> DEFINE s == SubSeq(area', 1, n)
           t == SubSeq(area, 1, n)
<1>5. /\ s \in Seq(Byte) /\ Len(s) = n /\ \A j \in 1 .. n : s[j] = area'[j]
      /\ t \in Seq(Byte) /\ Len(t) = n /\ \A j \in 1 .. n : t[j] = area[j]
    BY <1>1, <1>3
<1> HIDE DEF s, t
<1>6. s = t
    BY <1>4, <1>5, SeqEqual
<1> QED BY <1>3, <1>6 DEF s, t

(* An operation that changes the memory leaves the message its place.       *)
LEMMA OperationSettles ==
    ASSUME TypeOK, NEW image, NEW bytes, NEW m, NEW k, Operation(image, bytes, m, k),
           area' # area
    PROVE  Places(area') = {TlvOffset(area)}
<1>1. k # 0
    BY NothingLanded DEF Operation
<1> QED BY <1>1, PlaceStays DEF Operation

(* An operation that gets behind user memory put the empty message into its *)
(* last two bytes: of whole pages, only the last byte or two of three can   *)
(* lie behind it.                                                           *)
LEMMA OperationBehind ==
    ASSUME TypeOK, NEW image, NEW bytes, NEW m, NEW k, Operation(image, bytes, m, k),
           behind' # behind
    PROVE  /\ \E o \in Places(area) : o >= Size - 2
           /\ stored' \in {{}, {<< >>}}
<1>1. Size \in Nat /\ Size >= 1 /\ Size % 4 = 0
    BY AreaAssumption DEF PageSize
<1>2. PICK o \in Nat : o = TlvOffset(area) /\ o < Size
    BY <1>1, Offset
<1>3. PICK ps \in Nat : ps = PageStart /\ ps % 4 = 0 /\ ps =< o
    BY <1>2, Offset
<1>4. PICK l \in Nat : l = Len(image) /\ l % 4 = 0
  <2>1. image \in Seq(Byte) /\ Len(image) % 4 = 0
      BY DEF Operation, Carries
  <2> QED BY <2>1
<1>5. k \in 0 .. l /\ k % 4 = 0
    BY <1>4 DEF Operation
<1>6. PICK j \in 1 .. k : ps + j > Size /\ image[j] # 0
    BY <1>3 DEF Operation, LandsUpTo, TypeOK
<1>7. ~(ps + l =< Size)
    BY <1>1, <1>5, <1>6
<1>8. /\ m = << >>
      /\ \A i \in o - ps + 4 .. l : image[i] = 0
      /\ o + 2 >= Size => l < o - ps + 7
    BY <1>2, <1>3, <1>4, <1>7 DEF Operation
<1>9. PICK d \in Nat : d = o - ps
    BY <1>3
<1>10. j =< d + 3
  <2>1. j \notin d + 4 .. l
      BY <1>6, <1>8, <1>9
  <2> QED BY <1>5, <2>1
<1>11. o + 2 >= Size
    BY <1>1, <1>2, <1>3, <1>6, <1>9, <1>10
<1>12. Places(area) # {}
  <2> SUFFICES ASSUME Places(area) = {} PROVE FALSE
      OBVIOUS
  <2>1. o = 0
      BY <1>2, Offset, NoPlaceNoOffset
  <2> QED BY <1>1, <1>11, <2>1
<1>13. \E p \in Places(area) : p >= Size - 2
  <2>1. PICK p \in Places(area) : p = o
      BY <1>2, <1>12, Offset, PlaceIsTheOffset
  <2> QED BY <1>1, <1>11, <2>1
<1>14. k = l
  <2>1. l < d + 7 /\ ps + k > Size /\ ps + d < Size
    <3>1. l < d + 7
        BY <1>8, <1>9, <1>11
    <3>2. ps + d = o
        BY <1>3, <1>9
    <3>3. j =< k /\ ps + j > Size /\ k \in Int
        BY <1>5, <1>6
    <3> QED BY <1>1, <1>2, <3>1, <3>2, <3>3
  <2> QED BY <1>1, <1>3, <1>4, <1>5, <2>1
<1>15. stored' = {<< >>}
    BY <1>4, <1>8, <1>14 DEF Operation, LandsUpTo
<1> QED BY <1>13, <1>15

(* What an operation has stored is read again. One that fell short says     *)
(* nothing about what is stored, unless it changed nothing.                 *)
LEMMA OperationReads ==
    ASSUME TypeOK, StoredIsRead,
           NEW image, NEW bytes, NEW m, NEW k, Operation(image, bytes, m, k)
    PROVE  StoredIsRead'
<1> SUFFICES ASSUME stored' # {}, Places(area') # {Size - 1}
             PROVE  Unwrap(area') = stored'
    BY DEF StoredIsRead
<1>1. CASE k # Len(image)
  <2>1. area' = area /\ stored' = stored
      BY <1>1 DEF Operation, LandsUpTo
  <2> QED BY <2>1 DEF StoredIsRead
<1>2. CASE k = Len(image)
  <2>1. Size \in Nat /\ area' \in Seq(Byte) /\ Len(area') = Size
      BY Offset, AreaIsSeq DEF Operation, LandsUpTo
  <2>2. PICK o \in Nat : o = TlvOffset(area) /\ o < Size
      BY Offset
  <2>3. PICK d \in Nat : d = o - PageStart
      BY <2>2, Offset
  <2>4. PICK b \in Nat : b = Len(bytes) /\ b > 0
      BY DEF Operation
  <2>5. PICK l \in Nat : l = Len(image) /\ l = k /\ d + b =< l /\ l # 0
    <3>0. image \in Seq(Byte) /\ TlvOffset(area) - PageStart + Len(bytes) =< Len(image)
        BY DEF Operation, Carries
    <3>1. Len(image) \in Nat /\ d + b =< Len(image)
        BY <2>2, <2>3, <2>4, <3>0
    <3> QED BY <1>2, <2>4, <3>1
  <2>6. Places(area') = {o} /\ At(area', o) = NdefTlv
      BY <2>2, <2>4, <2>5, PlaceStays DEF Operation
  <2>7. stored' = {m}
      BY <1>2 DEF Operation, LandsUpTo
  <2>8. ASSUME NEW i \in 0 .. b - 1, o + i < Size PROVE At(area', o + i) = bytes[i + 1]
    <3>1. d + i < k
        BY <2>5
    <3> QED BY <2>2, <2>3, <2>4, <2>5, <2>8, <3>1, LandedInFull DEF Operation
  <2>9. CASE m = << >> /\ bytes = Empty
    <3>1. o + 1 < Size
        BY <2>1, <2>2, <2>6
    <3>2. At(area', o + 1) = 0
        BY <2>4, <2>8, <2>9, <3>1, EmptyType
    <3>3. Field(area', o) = [start |-> o + 2, end |-> o + 2 + Len(<< >>)]
        BY <2>1, <3>1, <3>2 DEF Field
    <3> DEFINE x == << >>
    <3>4. x \in Seq(Byte) /\ Len(x) = 0
        BY EmptySeq
    <3> HIDE DEF x
    <3>5. PICK s \in Nat : s = o + 2 /\ s > 0 /\ s + Len(x) =< Len(area')
        BY <2>1, <3>1, <3>4
    <3>6. Field(area', o) = [start |-> s, end |-> s + Len(x)]
        BY <3>3, <3>4, <3>5
    <3>7. \A j \in 1 .. Len(x) : area'[s + j] = x[j]
        BY <3>4
    <3>8. Unwrap(area') = {x}
      <4>1. x \in Seq(Byte) /\ o \in Places(area')
          BY <2>6, <3>4
      <4>2. area' \in Seq(Byte) /\ At(area', o) = NdefTlv
          BY <2>1, <2>6
      <4>3. s + Len(x) =< Len(area') /\ s > 0
          BY <3>5
      <4> QED BY <3>6, <3>7, <4>1, <4>2, <4>3, UnwrapsTo
    <3> QED BY <2>7, <2>9, <3>8 DEF x
  <2>10. CASE m \in Messages /\ bytes = Wrap(m) /\ o + b =< Size
    <3>1. m \in Seq(Byte)
        BY <2>10, MessageType
    <3>2. PICK n \in Nat : n = Len(m)
        BY <3>1
    <3>3. b >= n
        BY <2>4, <2>10, <3>1, <3>2, WrapLength
    <3>4. n =< Longest
      <4>1. Size =< 2040
          BY AreaAssumption
      <4> QED BY <2>1, <2>10, <3>3, <4>1 DEF Longest
    <3>5. ASSUME NEW h \in Nat, h > 1, b = h + n + 1, Field(area', o) = [start |-> o + h, end |-> o + h + n],
                 \A j \in 1 .. n : bytes[h + j] = m[j]
          PROVE  Unwrap(area') = {m}
      <4>1. ASSUME NEW j \in 1 .. n PROVE area'[o + h + j] = m[j]
        <5>1. PICK i \in 0 .. b - 1 : i = h + j - 1 /\ i + 1 = h + j
          <6>1. h + j - 1 \in 0 .. b - 1 /\ (h + j - 1) + 1 = h + j
              BY <3>5
          <6> QED BY <6>1
        <5>2. o + i < Size
            BY <2>1, <2>10, <5>1
        <5>3. At(area', o + i) = m[j]
            BY <2>8, <3>5, <5>1, <5>2
        <5>4. o + i + 1 = o + h + j
            BY <5>1
        <5> QED BY <5>3, <5>4 DEF At
      <4>2. PICK s \in Nat : s = o + h
          OBVIOUS
      <4>3. s > 0 /\ s + n =< Len(area')
          BY <2>1, <2>10, <3>5, <4>2
      <4> QED BY <2>1, <2>6, <3>1, <3>2, <3>5, <4>1, <4>2, <4>3, UnwrapsTo
    <3>6. \/ /\ b = 2 + n + 1
             /\ bytes[2] = n /\ n < 255
             /\ \A j \in 1 .. n : bytes[2 + j] = m[j]
          \/ /\ b = 4 + n + 1
             /\ bytes[2] = 255
             /\ 256 * bytes[3] + bytes[4] = n
             /\ \A j \in 1 .. n : bytes[4 + j] = m[j]
      <4>1. \/ /\ Len(Wrap(m)) = 2 + Len(m) + 1
               /\ Wrap(m)[2] = Len(m) /\ Len(m) < 255
               /\ \A j \in 1 .. Len(m) : Wrap(m)[2 + j] = m[j]
            \/ /\ Len(Wrap(m)) = 4 + Len(m) + 1
               /\ Wrap(m)[2] = 255
               /\ 256 * Wrap(m)[3] + Wrap(m)[4] = Len(m)
               /\ \A j \in 1 .. Len(m) : Wrap(m)[4 + j] = m[j]
          BY <3>1, <3>2, <3>4, WrapShape
      <4>2. Wrap(m) = bytes /\ Len(Wrap(m)) = b /\ Len(m) = n
          BY <2>4, <2>10, <3>2
      <4> QED BY <4>1, <4>2
    <3>7. At(area', o + 1) = bytes[2]
      <4>1. 1 \in 0 .. b - 1 /\ o + 1 < Size
          BY <2>1, <2>10, <3>6
      <4> QED BY <2>8, <4>1
    <3>8. CASE b = 2 + n + 1 /\ bytes[2] = n /\ n < 255 /\ \A j \in 1 .. n : bytes[2 + j] = m[j]
      <4>1. Field(area', o) = [start |-> o + 2, end |-> o + 2 + n]
        <5>1. o + 1 < Size /\ n # 255
            BY <2>1, <2>10, <3>8
        <5> QED BY <2>1, <3>7, <3>8, <5>1 DEF Field
      <4>2. Unwrap(area') = {m}
          BY <3>5, <3>8, <4>1
      <4> QED BY <2>7, <4>2
    <3>9. CASE /\ b = 4 + n + 1 /\ bytes[2] = 255 /\ 256 * bytes[3] + bytes[4] = n
               /\ \A j \in 1 .. n : bytes[4 + j] = m[j]
      <4>1. /\ 2 \in 0 .. b - 1 /\ o + 2 < Size
            /\ 3 \in 0 .. b - 1 /\ o + 3 < Size
            /\ o + 1 < Size /\ o + 4 =< Size
          BY <2>1, <2>10, <3>9
      <4>2. At(area', o + 2) = bytes[3] /\ At(area', o + 3) = bytes[4]
          BY <2>8, <4>1
      <4>3. Field(area', o) = [start |-> o + 4, end |-> o + 4 + 256 * bytes[3] + bytes[4]]
          BY <2>1, <3>7, <3>9, <4>1, <4>2 DEF Field
      <4>4. bytes[3] \in Nat /\ bytes[4] \in Nat
        <5>1. bytes \in Seq(Byte) /\ 3 \in 1 .. Len(bytes) /\ 4 \in 1 .. Len(bytes)
            BY <2>4, <3>9 DEF Operation
        <5>2. bytes[3] \in Byte /\ bytes[4] \in Byte
            BY <5>1
        <5> QED BY <5>2, Bytes
      <4>5. o + 4 + 256 * bytes[3] + bytes[4] = o + 4 + n
          BY <3>9, <4>4
      <4>6. Unwrap(area') = {m}
          BY <3>5, <3>9, <4>3, <4>5
      <4> QED BY <2>7, <4>6
    <3> QED BY <3>6, <3>8, <3>9
  <2> QED BY <2>2, <2>4, <2>9, <2>10 DEF Operation
<1> QED BY <1>1, <1>2

-----------------------------------------------------------------------------
(* User memory stays made of bytes, and at most one message of those known  *)
(* is known to be stored, for every size a CC can tell.                     *)
THEOREM DataTypeCorrect == Spec => []TypeOK
<1>1. Init => TypeOK
    BY AreaAssumption DEF Init, TypeOK
<1>2. TypeOK /\ [Next]_vars => TypeOK'
  <2>1. CASE Next
      BY <2>1, NextIs, OperationType
  <2>2. CASE UNCHANGED vars
      BY <2>2 DEF vars, TypeOK
  <2> QED BY <2>1, <2>2
<1> QED BY <1>1, <1>2, PTL DEF Spec

(* OffsetIsThePlace: the place that ndef_tlv_offset finds is the one place  *)
(* for the message at all times.                                            *)
THEOREM OffsetIsThePlaceCorrect == Spec => []OffsetIsThePlace
<1>1. TypeOK => OffsetIsThePlace
    BY OffsetCorrect, Offset DEF OffsetIsThePlace
<1> QED BY <1>1, DataTypeCorrect, PTL

(* StoredIsRead: what was stored is read again, whatever lay on the tag and *)
(* whatever failed before, but for an empty message in the last byte.       *)
THEOREM StoredIsReadCorrect == Spec => []StoredIsRead
<1>1. Init => StoredIsRead
    BY DEF Init, StoredIsRead
<1>2. TypeOK /\ StoredIsRead /\ [Next]_vars => StoredIsRead'
  <2>1. CASE Next
      BY <2>1, NextIs, OperationReads
  <2>2. CASE UNCHANGED vars
      BY <2>2 DEF vars, StoredIsRead
  <2> QED BY <2>1, <2>2
<1> QED BY <1>1, <1>2, DataTypeCorrect, PTL DEF Spec

(* AheadIsKept: no operation touches the TLVs ahead of the message, at      *)
(* whichever page write it ends.                                            *)
THEOREM AheadIsKeptCorrect == Spec => AheadIsKept
<1>1. TypeOK /\ [Next]_vars =>
          [\A o \in Places(area) : SubSeq(area', 1, o) = SubSeq(area, 1, o)]_vars
    BY NextIs, OperationKeepsAhead
<1> QED BY <1>1, DataTypeCorrect, PTL DEF Spec, AheadIsKept

(* PlaceIsSettled: an operation that changed anything leaves the message    *)
(* the place it found for it.                                               *)
THEOREM PlaceIsSettledCorrect == Spec => PlaceIsSettled
<1>1. TypeOK /\ [Next]_vars =>
          [area' # area => Places(area') = {TlvOffset(area)}]_vars
    BY NextIs, OperationSettles
<1> QED BY <1>1, DataTypeCorrect, PTL DEF Spec, PlaceIsSettled

(* BehindOnlyFromTheBrink: only an empty message put into the last two      *)
(* bytes reaches the page behind user memory.                               *)
THEOREM BrinkCorrect == Spec => BehindOnlyFromTheBrink
<1>1. TypeOK /\ [Next]_vars =>
          [behind' # behind => /\ \E o \in Places(area) : o >= Size - 2
                               /\ stored' \in {{}, {<< >>}}]_vars
    BY NextIs, OperationBehind
<1> QED BY <1>1, DataTypeCorrect, PTL DEF Spec, BehindOnlyFromTheBrink
===============================================================================
