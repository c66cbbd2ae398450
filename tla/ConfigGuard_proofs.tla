------------------------- MODULE ConfigGuard_proofs -------------------------
(***************************************************************************)
(* What is proved of the configuration commands for every chip, every set  *)
(* of commands and every first configuration.                              *)
(***************************************************************************)
EXTENDS ConfigGuard, TLAPS

(* Whoever has passed the last guard was allowed to.                       *)
Cleared ==
    \/ want.auth0 > LastUser
    \/ call.accept
    \/ call.via = "cli" /\ reader
    \/ call.via = "web" /\ canAuth = "yes"

(* Where AUTH0 of want comes from.                                         *)
Origin ==
    IF call.cmd = "set"
    THEN want.auth0 = call.auth0 /\ (call.via = "cli" => call.auth0 < 256)
    ELSE want.auth0 \in {conf.auth0, Auth0Disabled}

(* The password and PACK that AUTH0 is going to put in force.              *)
Secrets ==
    call.cmd = "set" /\ ~lossy =>
      /\ pc \in {"pack", "guard", "mirror page"} => pwd = "asked"
      /\ pc \in {"guard", "mirror page"} => pack = "asked"

GuardInv ==
    /\ TypeOK
    /\ pc # "idle" => call \in Commands
    /\ pc \in {"first guard", "pwd", "pack"} => call.cmd = "set"
    /\ pc \in {"first guard", "pwd", "pack", "guard", "mirror page"} => Origin /\ Secrets
    /\ pc = "mirror page" => Cleared

-----------------------------------------------------------------------------
(* The fields of a command. *)
LEMMA CallFields ==
    ASSUME NEW c \in Calls
    PROVE  /\ c.via \in {"cli", "web"}
           /\ c.accept \in BOOLEAN
           /\ c.cmd \in {"set", "disable", "counter", "mirror"}
           /\ c.cmd = "set" => c.auth0 \in Int /\ c.on \in BOOLEAN
           /\ c.cmd = "counter" => c.on \in BOOLEAN
           /\ c.cmd = "mirror" => c.mode \in MirrorModes /\ c.page \in Int /\ c.byte \in Int
           /\ c.cmd = "mirror" /\ c.byte < 0 => c.via = "web"
<1> DEFINE from == {"cli", "web"}
<1>1. CASE c \in [via : from, accept : BOOLEAN, cmd : {"set"}, auth0 : Int, on : BOOLEAN]
    BY <1>1
<1>2. CASE c \in [via : from, accept : BOOLEAN, cmd : {"disable"}]
    BY <1>2
<1>3. CASE c \in [via : from, accept : BOOLEAN, cmd : {"counter"}, on : BOOLEAN]
    BY <1>3
<1>4. CASE c \in [via : {"cli"}, accept : BOOLEAN, cmd : {"mirror"}, mode : MirrorModes,
                  page : Int, byte : 0..3]
    BY <1>4
<1>5. CASE c \in [via : {"web"}, accept : BOOLEAN, cmd : {"mirror"}, mode : MirrorModes,
                  page : Int, byte : Int]
    BY <1>5
<1>6. QED
    BY <1>1, <1>2, <1>3, <1>4, <1>5 DEF Calls

LEMMA WidthIsNat ==
    ASSUME NEW m \in MirrorModes
    PROVE  MirrorWidth[m] \in Nat
BY DEF MirrorModes, MirrorWidth

LEMMA NoWantType == NoWant \in Wanted /\ NoWant \in Configs
BY DEF NoWant, Wanted, Configs, Bytes, MirrorModes, Auth0Disabled

LEMMA WantedAuth ==
    ASSUME NEW w \in Wanted, NEW a \in Int, NEW p \in BOOLEAN
    PROVE  [w EXCEPT !.auth0 = a, !.prot = p] \in Wanted
BY DEF Wanted

LEMMA ZeroIsInt == 0 \in Int
OBVIOUS

LEMMA PlaceOff ==
    ASSUME NEW M, NEW I, NEW m \in [mode : M, page : I, byte : I], NEW off \in M, NEW zero \in I
    PROVE  [m EXCEPT !.mode = off, !.page = zero] \in [mode : M, page : I, byte : I]
OBVIOUS

LEMMA EditedType ==
    ASSUME conf \in Configs, NEW c \in Calls
    PROVE  Edited(c) \in Wanted
<1>0. conf \in Wanted
    BY DEF Bytes, Configs, Wanted
<1>1. CASE c.cmd = "set"
  <2>1. Edited(c) = [conf EXCEPT !.auth0 = c.auth0, !.prot = c.on]
    BY <1>1 DEF Edited
  <2>2. c.auth0 \in Int /\ c.on \in BOOLEAN
    BY <1>1, CallFields
  <2>3. QED
    BY <1>0, <2>1, <2>2, WantedAuth
<1>2. CASE c.cmd = "disable"
  <2>1. PICK a \in Int : a = Auth0Disabled
    BY DEF Auth0Disabled
  <2>2. PICK p \in BOOLEAN : p = FALSE
    OBVIOUS
  <2>3. Edited(c) = [conf EXCEPT !.auth0 = a, !.prot = p]
    BY <1>2, <2>1, <2>2 DEF Edited
  <2>4. QED
    BY <1>0, <2>3, WantedAuth
<1>3. CASE c.cmd = "counter"
  <2>1. Edited(c) = [conf EXCEPT !.counter = c.on]
    BY <1>3 DEF Edited
  <2>2. c.on \in BOOLEAN
    BY <1>3, CallFields
  <2>3. QED
    BY <1>0, <2>1, <2>2 DEF Wanted
<1>4. CASE c.cmd = "mirror"
  <2>1. c.mode \in MirrorModes /\ c.page \in Int /\ c.byte \in Int
    BY <1>4, CallFields
  <2> DEFINE mirror == IF c.mode = "off" THEN [conf.mirror EXCEPT !.mode = "off", !.page = 0]
                       ELSE [mode |-> c.mode, page |-> c.page, byte |-> c.byte]
  <2>2. Edited(c) = [conf EXCEPT !.mirror = mirror]
    BY <1>4 DEF Edited
  <2>4. mirror \in [mode : MirrorModes, page : Int, byte : Int]
    <3>1. CASE c.mode = "off"
      <4>1. PICK off \in MirrorModes : off = "off"
          BY DEF MirrorModes
      <4>2. PICK m \in [mode : MirrorModes, page : Int, byte : Int] : m = conf.mirror
          BY <1>0 DEF Wanted
      <4>3. PICK zero \in Int : zero = 0
          BY ZeroIsInt
      <4>4. mirror = [m EXCEPT !.mode = off, !.page = zero]
          BY <3>1, <4>1, <4>2, <4>3
      <4>5. [m EXCEPT !.mode = off, !.page = zero] \in [mode : MirrorModes, page : Int, byte : Int]
          BY PlaceOff
      <4>6. QED
          BY <4>4, <4>5
    <3>2. CASE c.mode # "off"
        BY <2>1, <3>2
    <3>3. QED
        BY <3>1, <3>2
  <2> HIDE DEF mirror
  <2>5. QED
    BY <1>0, <2>2, <2>4 DEF Wanted
<1>5. QED
    BY <1>1, <1>2, <1>3, <1>4, CallFields

(* Both pages hold bytes, whatever was wanted. *)
LEMMA PagesType ==
    ASSUME NEW c \in Configs, NEW w \in Wanted
    PROVE  WithMirrorPage(c, w) \in Configs /\ WithAccessPage(c, w) \in Configs
<1>1. w.auth0 % 256 \in Bytes
    BY DEF Wanted, Bytes
<1>2. /\ w.mirror.mode \in MirrorModes /\ w.mirror.page % 256 \in Bytes
      /\ w.mirror.byte % 4 \in 0..3
    BY DEF Wanted, Bytes
<1>3. Cut(w.mirror) \in [mode : MirrorModes, page : Bytes, byte : 0..3]
    BY <1>2 DEF Cut
<1>4. WithMirrorPage(c, w) \in Configs
    BY <1>1, <1>3 DEF WithMirrorPage, Configs
<1>5. WithAccessPage(c, w) \in Configs
    BY DEF WithAccessPage, Configs, Wanted
<1>6. QED
    BY <1>4, <1>5

(* The pages as records. *)
LEMMA MirrorPageFields ==
    ASSUME NEW c \in Configs, NEW w
    PROVE  /\ WithMirrorPage(c, w).auth0 = w.auth0 % 256
           /\ WithMirrorPage(c, w).mirror = Cut(w.mirror)
           /\ WithMirrorPage(c, w).prot = c.prot
           /\ WithMirrorPage(c, w).cfglck = c.cfglck
           /\ WithMirrorPage(c, w).authlim = c.authlim
           /\ WithMirrorPage(c, w).counter = c.counter
BY DEF WithMirrorPage, Configs

LEMMA AccessPageFields ==
    ASSUME NEW c \in Configs, NEW w
    PROVE  /\ WithAccessPage(c, w).auth0 = c.auth0
           /\ WithAccessPage(c, w).mirror = c.mirror
           /\ WithAccessPage(c, w).prot = w.prot
           /\ WithAccessPage(c, w).cfglck = w.cfglck
           /\ WithAccessPage(c, w).authlim = w.authlim
           /\ WithAccessPage(c, w).counter = w.counter
BY DEF WithAccessPage, Configs

LEMMA EnforcedType ==
    ASSUME NEW c \in Configs
    PROVE  Enforced(c) \in [auth0 : Bytes, prot : BOOLEAN]
BY DEF Enforced, Configs

-----------------------------------------------------------------------------
LEMMA LastUserIsNat == LastUser \in Nat /\ LastUser < 255
BY ConfigAssumption DEF Bytes

LEMMA AuthTypes ==
    ASSUME TypeOK
    PROVE  conf.auth0 \in 0..255 /\ want.auth0 \in Int
<1>1. conf.auth0 \in Bytes
    BY DEF TypeOK, Configs
<1>2. want.auth0 \in Int
    BY DEF TypeOK, Wanted
<1>3. QED
    BY <1>1, <1>2 DEF Bytes

LEMMA BytesAreSmall == \A n \in Bytes : n < 256
BY DEF Bytes

LEMMA PagesAreNats ==
    /\ ConfigPage \in Nat /\ ConfigPage + 1 \in Nat /\ ConfigPage + 2 \in Nat
    /\ ConfigPage + 3 \in Nat
BY ConfigAssumption DEF Bytes

LEMMA ByteOfByte ==
    ASSUME NEW n \in 0..255
    PROVE  n % 256 = n
OBVIOUS

LEMMA NoByte ==
    ASSUME NEW n \in Int, NEW last \in Nat
    PROVE  n \in 0..255 \/ n > 255 \/ n <= last
OBVIOUS

(* An AUTH0 that protects is neither of those that do not. *)
LEMMA Protects ==
    ASSUME NEW n \in Int, NEW old \in 0..255, NEW last \in Nat,
           ~(old <= last), last < 255, n <= last \/ n > 255
    PROVE  n # old /\ n # 255
OBVIOUS

(* What a command does when it ends, goes on, or passes a guard.           *)

LEMMA EndKeeps ==
    ASSUME GuardInv, NEW report \in {"ok", "refused", "error"}, End(report),
           UNCHANGED <<setting, canAuth>>,
           conf' \in Configs, inForce' \in [auth0 : Bytes, prot : BOOLEAN],
           pwd' \in {"before", "asked", "zeros"}, pack' \in {"before", "asked", "zeros"}
    PROVE  GuardInv'
BY NoWantType DEF GuardInv, TypeOK, End, Points, setting

LEMMA GoesOn ==
    ASSUME TypeOK, UNCHANGED <<chip, setting, canAuth, call, mode, result>>,
           pc' \in Points, want' \in Wanted
    PROVE  TypeOK'
<1>1. UNCHANGED <<conf, pwd, pack, inForce, atOnce, lossy, stores, reader>>
    BY DEF chip, setting
<1>2. QED
    BY <1>1 DEF TypeOK

LEMMA PageWritten ==
    ASSUME TypeOK, UNCHANGED <<setting, canAuth, call, want, result>>,
           conf' \in Configs, inForce' \in [auth0 : Bytes, prot : BOOLEAN],
           pwd' \in {"before", "asked", "zeros"}, pack' \in {"before", "asked", "zeros"},
           mode' \in {"padded", "plain"}, pc' \in Points
    PROVE  TypeOK'
<1>1. UNCHANGED <<atOnce, lossy, stores, reader>>
    BY DEF setting
<1>2. QED
    BY <1>1 DEF TypeOK

(* Writing a page lets the command go on only if it is done; a page that   *)
(* is done has landed unless the reader loses writes, and what is behind   *)
(* it is reached only on a reader that stores the padding.                 *)
LEMMA OutcomesLand ==
    ASSUME NEW page \in Nat, NEW o \in Outcomes(page)
    PROVE  /\ o.done \in BOOLEAN /\ o.padded \in BOOLEAN /\ o.context \in BOOLEAN
           /\ o.done /\ ~lossy => Takes(page, o, page, inForce.auth0)
           /\ \A q \in Nat : q > page => \A a : Takes(q, o, page, a) => stores
<1>1. /\ o.done \in BOOLEAN /\ o.padded \in BOOLEAN /\ o.context \in BOOLEAN
      /\ o.pages \in 0..4 /\ (o.pages > 1 => stores)
      /\ o.done /\ ~lossy => o.pages > 0 /\ ~Refuses(inForce.auth0, page)
    BY DEF Outcomes
<1>2. \A q \in Nat : q > page /\ q < page + o.pages => o.pages > 1
    BY <1>1
<1>3. o.pages > 0 => page < page + o.pages
    BY <1>1
<1>4. QED
    BY <1>1, <1>2, <1>3 DEF Takes

(* What the write of the first configuration page does: the page, and on a *)
(* reader that stores the padding what is behind it.                       *)
LEMMA MirrorPageEffect ==
    ASSUME WriteMirrorPage
    PROVE  /\ pc = "mirror page" /\ UNCHANGED <<setting, canAuth>>
           /\ inForce' = IF atOnce THEN Enforced(conf') ELSE inForce
           /\ pwd' \in {pwd, "zeros"} /\ pack' \in {pack, "zeros"}
           /\ ~stores => pwd' = pwd /\ pack' = pack
           /\ \E first \in {conf, WithMirrorPage(conf, want)} :
                 /\ \/ conf' = first
                    \/ stores /\ ~conf.cfglck /\ conf' = WithAccessPage(first, NoWant)
                 /\ \/ End("error")
                    \/ /\ pc' = "access page" /\ mode' \in {"padded", "plain"}
                       /\ UNCHANGED <<call, want, result>>
                       /\ ~lossy => first = WithMirrorPage(conf, want)
<1> DEFINE Auth(f) == IF atOnce THEN f.auth0 ELSE inForce.auth0
<1>0. PICK o \in Outcomes(ConfigPage) : \E first :
         /\ first = IF Takes(ConfigPage, o, ConfigPage, inForce.auth0)
                    THEN WithMirrorPage(conf, want) ELSE conf
         /\ conf' = IF ~o.context /\ Takes(ConfigPage + 1, o, ConfigPage, Auth(first))
                    THEN WithAccessPage(first, NoWant) ELSE first
         /\ pwd'  = Padded(pwd, ConfigPage + 2, o, ConfigPage, Auth(first))
         /\ pack' = Padded(pack, ConfigPage + 3, o, ConfigPage, Auth(first))
         /\ Then(o, "access page")
    BY DEF WriteMirrorPage
<1>1. PICK first :
         /\ first = IF Takes(ConfigPage, o, ConfigPage, inForce.auth0)
                    THEN WithMirrorPage(conf, want) ELSE conf
         /\ conf' = IF ~o.context /\ Takes(ConfigPage + 1, o, ConfigPage, Auth(first))
                    THEN WithAccessPage(first, NoWant) ELSE first
         /\ pwd'  = Padded(pwd, ConfigPage + 2, o, ConfigPage, Auth(first))
         /\ pack' = Padded(pack, ConfigPage + 3, o, ConfigPage, Auth(first))
         /\ Then(o, "access page")
    BY <1>0
<1>2. /\ ConfigPage \in Nat /\ ConfigPage + 1 \in Nat /\ ConfigPage + 2 \in Nat
      /\ ConfigPage + 3 \in Nat /\ ConfigPage + 1 > ConfigPage
      /\ ConfigPage + 2 > ConfigPage /\ ConfigPage + 3 > ConfigPage
    BY ConfigAssumption DEF Bytes
<1>3. /\ pwd' \in {pwd, "zeros"} /\ pack' \in {pack, "zeros"}
      /\ ~stores => pwd' = pwd /\ pack' = pack
    BY <1>1, <1>2, OutcomesLand DEF Padded
<1>4. \/ conf' = first
      \/ stores /\ ~conf.cfglck /\ conf' = WithAccessPage(first, NoWant)
    BY <1>1, <1>2, OutcomesLand DEF Takes, Refuses
<1>5. \/ End("error")
      \/ /\ pc' = "access page" /\ mode' \in {"padded", "plain"}
         /\ UNCHANGED <<call, want, result>>
         /\ ~lossy => first = WithMirrorPage(conf, want)
    BY <1>1, <1>2, OutcomesLand DEF Then
<1>6. first \in {conf, WithMirrorPage(conf, want)}
    BY <1>1
<1>7. QED
    BY <1>3, <1>4, <1>5, <1>6 DEF WriteMirrorPage

LEMMA AccessPageEffect ==
    ASSUME WriteAccessPage
    PROVE  /\ pc = "access page" /\ UNCHANGED <<setting, canAuth>>
           /\ inForce' = IF atOnce THEN Enforced(conf') ELSE inForce
           /\ pwd' \in {pwd, "zeros"} /\ pack' \in {pack, "zeros"}
           /\ conf' \in {conf, WithAccessPage(conf, want)}
           /\ \/ End("error")
              \/ /\ pc' = "back" /\ mode' \in {"padded", "plain"}
                 /\ UNCHANGED <<call, want, result>>
                 /\ ~lossy => conf' = WithAccessPage(conf, want)
<1>1. PICK o \in Outcomes(ConfigPage + 1) :
         /\ conf' = IF Takes(ConfigPage + 1, o, ConfigPage + 1, inForce.auth0)
                    THEN WithAccessPage(conf, want) ELSE conf
         /\ pwd'  = Padded(pwd, ConfigPage + 2, o, ConfigPage + 1, inForce.auth0)
         /\ pack' = Padded(pack, ConfigPage + 3, o, ConfigPage + 1, inForce.auth0)
         /\ Then(o, "back")
    BY DEF WriteAccessPage
<1>2. QED
    BY <1>1, PagesAreNats, OutcomesLand DEF WriteAccessPage, Then, Padded

(* A guard that lets a command pass has found nothing, was told to, or was *)
(* given the word of a reader that authenticates.                          *)
LEMMA PassedGuard ==
    ASSUME TypeOK, call \in Commands, NEW believed \in Beliefs,
           ~(LocksOut(want, believed) /\ ~call.accept)
    PROVE  Cleared
<1>1. call.via \in {"cli", "web"} /\ call.accept \in BOOLEAN
    BY CallFields, ConfigAssumption
<1>2. CASE call.accept
    BY <1>2 DEF Cleared
<1>3. CASE ~call.accept
  <2>1. ~LocksOut(want, believed)
    BY <1>3
  <2>2. want.auth0 > LastUser \/ believed
    BY <2>1, AuthTypes, LastUserIsNat DEF LocksOut, ProtectionActive
  <2>3. believed => (call.via = "cli" /\ reader) \/ (call.via = "web" /\ canAuth = "yes")
    BY <1>1 DEF Beliefs, Answers
  <2>4. QED
    BY <2>2, <2>3 DEF Cleared
<1>4. QED
    BY <1>2, <1>3

-----------------------------------------------------------------------------
LEMMA GuardInit == Init => GuardInv
<1> SUFFICES ASSUME Init
             PROVE  GuardInv
    OBVIOUS
<1>1. conf \in Configs
    BY ConfigAssumption DEF Init
<1>2. TypeOK
    BY <1>1, NoWantType, EnforcedType DEF Init, TypeOK, Points
<1>3. QED
    BY <1>2 DEF Init, GuardInv

(* Every step keeps the invariant. *)
LEMMA GuardStep == GuardInv /\ [Next]_vars => GuardInv'
<1> SUFFICES ASSUME GuardInv, [Next]_vars
             PROVE  GuardInv'
    OBVIOUS
<1> USE DEF GuardInv
<1>1. CASE Call
  <2>1. Enforced(conf) \in [auth0 : Bytes, prot : BOOLEAN]
    BY EnforcedType DEF TypeOK
  <2>2. QED
    BY <1>1, <2>1 DEF Call, TypeOK, Points, setting
<1>2. CASE SwapReader
    BY <1>2 DEF SwapReader, TypeOK, chip
<1>3. CASE Probe
    BY <1>3 DEF Probe, TypeOK, chip, setting
<1>4. CASE RestartServer
    BY <1>4 DEF RestartServer, TypeOK, chip, setting
<1>5. CASE ReadConfig
  <2>1. CASE End("error") \/ End("refused")
    BY <1>5, <2>1, EndKeeps DEF ReadConfig, chip, TypeOK
  <2>2. CASE ~Improper(call) /\ want' = Edited(call)
             /\ Reach(IF call.cmd = "set" THEN "first guard" ELSE "guard")
    <3>1. call \in Commands /\ call \in Calls /\ UNCHANGED <<conf, call, chip, setting, canAuth>>
      BY <1>5, <2>2, ConfigAssumption DEF ReadConfig, Reach, chip
    <3>2. want' \in Wanted
      BY <2>2, <3>1, EditedType DEF TypeOK
    <3>3. TypeOK'
      BY <2>2, <3>1, <3>2, GoesOn DEF Reach, Points
    <3>4. Origin'
      <4>1. CASE call.cmd = "set"
        <5>1. want'.auth0 = call.auth0
          BY <2>2, <4>1, <3>1 DEF Edited, TypeOK, Configs
        <5>2. call.via = "cli" => call.auth0 < 256
          <6>1. call.via = "cli" => call.auth0 \in Bytes
            BY <2>2, <4>1 DEF Improper
          <6>2. QED
            BY <6>1, BytesAreSmall
        <5>3. QED
          BY <3>1, <4>1, <5>1, <5>2 DEF Origin
      <4>2. CASE call.cmd # "set"
        <5>1. want'.auth0 \in {conf.auth0, Auth0Disabled}
          BY <2>2, <3>1, <4>2, CallFields DEF Edited, TypeOK, Configs
        <5>2. QED
          BY <3>1, <4>2, <5>1 DEF Origin
      <4>3. QED
        BY <4>1, <4>2
    <3>5. Secrets'
      <4>1. call.cmd = "set" => pc' = "first guard"
        BY <2>2 DEF Reach
      <4>2. QED
        BY <3>1, <4>1 DEF Secrets
    <3>6. QED
      BY <2>2, <3>1, <3>3, <3>4, <3>5 DEF Reach
  <2>3. QED
    BY <1>5, <2>1, <2>2 DEF ReadConfig
<1>6. CASE FirstGuard
  <2>1. CASE End("refused")
    BY <1>6, <2>1, EndKeeps DEF FirstGuard, Guard, chip, TypeOK
  <2>2. CASE Reach("pwd") /\ UNCHANGED want
    <3>1. /\ UNCHANGED <<chip, setting, canAuth, call, mode, result, want>> /\ pc' = "pwd"
          /\ pc = "first guard" /\ call \in Commands /\ call.cmd = "set" /\ Origin
      BY <1>6, <2>2 DEF FirstGuard, Guard, Reach
    <3>2. TypeOK'
      BY <3>1, GoesOn DEF TypeOK, Points
    <3>3. Origin' /\ Secrets'
      BY <3>1 DEF Origin, Secrets, chip
    <3>4. QED
      BY <3>1, <3>2, <3>3
  <2>3. QED
    BY <1>6, <2>1, <2>2 DEF FirstGuard, Guard
<1>7. CASE WritePwd
  <2> PICK o \in Outcomes(ConfigPage + 2) :
         /\ pwd' = IF Takes(ConfigPage + 2, o, ConfigPage + 2, inForce.auth0) THEN "asked" ELSE pwd
         /\ pack' = Padded(pack, ConfigPage + 3, o, ConfigPage + 2, inForce.auth0)
         /\ Then(o, "pack")
    BY <1>7 DEF WritePwd
  <2>0. /\ pwd' \in {"before", "asked", "zeros"} /\ pack' \in {"before", "asked", "zeros"}
        /\ o.done /\ ~lossy => pwd' = "asked"
    BY PagesAreNats, OutcomesLand DEF Padded, TypeOK
  <2>1. CASE ~o.done
    BY <1>7, <2>0, <2>1, EndKeeps DEF WritePwd, Then, TypeOK
  <2>2. CASE o.done
    BY <1>7, <2>0, <2>2 DEF WritePwd, Then, setting, TypeOK, Points, Origin, Secrets
  <2>3. QED
    BY <2>1, <2>2
<1>8. CASE WritePack
  <2> PICK o \in Outcomes(ConfigPage + 3) :
         /\ pack' = IF Takes(ConfigPage + 3, o, ConfigPage + 3, inForce.auth0)
                    THEN "asked" ELSE pack
         /\ Then(o, "guard")
    BY <1>8 DEF WritePack
  <2>0. /\ pack' \in {"before", "asked", "zeros"}
        /\ o.done /\ ~lossy => pack' = "asked"
    BY PagesAreNats, OutcomesLand DEF TypeOK
  <2>1. CASE ~o.done
    BY <1>8, <2>0, <2>1, EndKeeps DEF WritePack, Then, TypeOK
  <2>2. CASE o.done
    BY <1>8, <2>0, <2>2 DEF WritePack, Then, setting, TypeOK, Points, Origin, Secrets
  <2>3. QED
    BY <2>1, <2>2
<1>9. CASE LastGuard
  <2>0. call \in Commands
    BY <1>9 DEF LastGuard
  <2> PICK believed \in Beliefs :
         IF LocksOut(want, believed) /\ ~call.accept
         THEN End("refused") ELSE Reach("mirror page") /\ UNCHANGED want
    BY <1>9 DEF LastGuard, Guard
  <2>1. CASE LocksOut(want, believed) /\ ~call.accept
    BY <1>9, <2>1, EndKeeps DEF LastGuard, Guard, chip, TypeOK
  <2>2. CASE ~(LocksOut(want, believed) /\ ~call.accept)
    <3>1. Cleared
      BY <2>0, <2>2, PassedGuard
    <3>2. UNCHANGED <<chip, setting, canAuth, call, mode, want, result>> /\ pc' = "mirror page"
      BY <1>9, <2>2 DEF LastGuard, Guard, Reach
    <3>3. Cleared'
      BY <3>1, <3>2 DEF Cleared, setting
    <3>4. TypeOK'
      BY <3>2, GoesOn DEF TypeOK, Points
    <3>5. Origin'
      BY <1>9, <3>2 DEF LastGuard, chip, Origin
    <3>6. Secrets'
      BY <1>9, <3>2 DEF LastGuard, chip, setting, Secrets
    <3>7. QED
      BY <2>0, <3>2, <3>3, <3>4, <3>5, <3>6
  <2>3. QED
    BY <2>1, <2>2
<1>10. CASE WriteMirrorPage
  <2>1. conf' \in Configs
    <3>1. conf \in Configs /\ want \in Wanted
      BY DEF TypeOK
    <3> PICK first \in {conf, WithMirrorPage(conf, want)} :
           conf' = first \/ conf' = WithAccessPage(first, NoWant)
      BY <1>10, MirrorPageEffect
    <3>2. first \in Configs
      BY <3>1, PagesType
    <3>3. QED
      BY <3>2, PagesType, NoWantType
  <2>2. inForce' \in [auth0 : Bytes, prot : BOOLEAN]
    <3>1. Enforced(conf') \in [auth0 : Bytes, prot : BOOLEAN]
      BY <2>1, EnforcedType
    <3>2. QED
      BY <1>10, <3>1, MirrorPageEffect DEF TypeOK
  <2>3. pwd' \in {"before", "asked", "zeros"} /\ pack' \in {"before", "asked", "zeros"}
    BY <1>10, MirrorPageEffect DEF TypeOK
  <2>4. CASE End("error")
    BY <1>10, <2>1, <2>2, <2>3, <2>4, EndKeeps, MirrorPageEffect
  <2>5. CASE /\ pc' = "access page" /\ mode' \in {"padded", "plain"}
             /\ UNCHANGED <<call, want, result>>
    <3>1. TypeOK'
      BY <1>10, <2>1, <2>2, <2>3, <2>5, MirrorPageEffect, PageWritten DEF Points
    <3>2. QED
      BY <1>10, <2>5, <3>1, MirrorPageEffect
  <2>6. QED
    BY <1>10, <2>4, <2>5, MirrorPageEffect
<1>11. CASE WriteAccessPage
  <2>1. conf' \in Configs
    BY <1>11, AccessPageEffect, PagesType DEF TypeOK
  <2>2. inForce' \in [auth0 : Bytes, prot : BOOLEAN]
    <3>1. Enforced(conf') \in [auth0 : Bytes, prot : BOOLEAN]
      BY <2>1, EnforcedType
    <3>2. QED
      BY <1>11, <3>1, AccessPageEffect DEF TypeOK
  <2>3. pwd' \in {"before", "asked", "zeros"} /\ pack' \in {"before", "asked", "zeros"}
    BY <1>11, AccessPageEffect DEF TypeOK
  <2>4. CASE End("error")
    BY <1>11, <2>1, <2>2, <2>3, <2>4, EndKeeps, AccessPageEffect
  <2>5. CASE /\ pc' = "back" /\ mode' \in {"padded", "plain"}
             /\ UNCHANGED <<call, want, result>>
    <3>1. TypeOK'
      BY <1>11, <2>1, <2>2, <2>3, <2>5, AccessPageEffect, PageWritten DEF Points
    <3>2. QED
      BY <1>11, <2>5, <3>1, AccessPageEffect
  <2>6. QED
    BY <1>11, <2>4, <2>5, AccessPageEffect
<1>12. CASE ReadBack
    BY <1>12, EndKeeps DEF ReadBack, chip, TypeOK
<1>13. CASE UNCHANGED vars
  <2>1. UNCHANGED <<conf, pwd, pack, inForce, atOnce, lossy, stores, reader, canAuth, call,
                    mode, pc, want, result>>
    BY <1>13 DEF vars, chip, setting
  <2>2. TypeOK'
    <3>1. UNCHANGED <<chip, setting, canAuth, call, mode, result>> /\ pc' \in Points /\ want' \in Wanted
      BY <2>1 DEF TypeOK, chip, setting
    <3>2. QED
      BY <3>1, GoesOn
  <2>3. (Origin <=> Origin') /\ (Secrets <=> Secrets') /\ (Cleared <=> Cleared')
    BY <2>1 DEF Origin, Secrets, Cleared
  <2>4. QED
    BY <2>1, <2>2, <2>3
<1>14. QED
    BY <1>1, <1>2, <1>3, <1>4, <1>5, <1>6, <1>7, <1>8, <1>9, <1>10, <1>11, <1>12, <1>13
       DEF Next

(* The types hold for every chip, every set of commands, every reader.     *)
THEOREM GuardTypeCorrect == Spec => []TypeOK
<1>1. GuardInv => TypeOK
    BY DEF GuardInv
<1>2. QED
    BY <1>1, GuardInit, GuardStep, PTL DEF Spec

-----------------------------------------------------------------------------
(* Protection can only come on in the page that has AUTH0, and only with   *)
(* the AUTH0 of a set.                                                     *)
LEMMA ComesOnBySet ==
    ASSUME GuardInv, Next, ProtectionComesOn
    PROVE  /\ pc = "mirror page" /\ call.cmd = "set"
           /\ want.auth0 <= LastUser \/ want.auth0 > 255
<1>0. TypeOK /\ (pc = "mirror page" => Origin)
    BY DEF GuardInv
<1>1. CASE WriteMirrorPage
  <2>1. conf'.auth0 \in {conf.auth0, want.auth0 % 256}
    <3>1. conf \in Configs /\ want \in Wanted
      BY <1>0 DEF TypeOK
    <3> PICK first \in {conf, WithMirrorPage(conf, want)} :
           conf' = first \/ conf' = WithAccessPage(first, NoWant)
      BY <1>1, MirrorPageEffect
    <3>2. first \in Configs /\ first.auth0 \in {conf.auth0, want.auth0 % 256}
      BY <3>1, PagesType, MirrorPageFields
    <3>3. conf'.auth0 = first.auth0
      BY <3>2, AccessPageFields
    <3>4. QED
      BY <3>2, <3>3
  <2>2. /\ conf.auth0 \in 0..255 /\ want.auth0 \in Int
        /\ LastUser \in Nat /\ LastUser < 255
    BY <1>0, AuthTypes, LastUserIsNat
  <2>3. conf'.auth0 = want.auth0 % 256
    BY <2>1 DEF ProtectionComesOn, ProtectionActive
  <2>4. ~(conf.auth0 <= LastUser) /\ want.auth0 % 256 <= LastUser
    BY <2>3 DEF ProtectionComesOn, ProtectionActive
  <2>5. want.auth0 \in 0..255 => want.auth0 <= LastUser
    BY <2>4, ByteOfByte
  <2>6. want.auth0 <= LastUser \/ want.auth0 > 255
    BY <2>2, <2>5, NoByte
  <2>7. want.auth0 # conf.auth0 /\ want.auth0 # Auth0Disabled
    <3>1. PICK n \in Int, old \in 0..255, last \in Nat :
                 n = want.auth0 /\ old = conf.auth0 /\ last = LastUser
      BY <2>2
    <3>2. ~(old <= last) /\ last < 255 /\ (n <= last \/ n > 255)
      BY <2>2, <2>4, <2>6, <3>1
    <3>3. n # old /\ n # 255
      BY <3>2, Protects
    <3>4. QED
      BY <3>1, <3>3 DEF Auth0Disabled
  <2>8. QED
    BY <1>0, <1>1, <2>6, <2>7 DEF WriteMirrorPage, Origin
<1>2. CASE WriteAccessPage
  <2>1. conf' = WithAccessPage(conf, want) \/ conf' = conf
    BY <1>2, AccessPageEffect
  <2>2. conf'.auth0 = conf.auth0
    <3>1. conf \in Configs
      BY <1>0 DEF TypeOK
    <3>2. WithAccessPage(conf, want).auth0 = conf.auth0
      BY <3>1, AccessPageFields
    <3>3. QED
      BY <2>1, <3>2
  <2>3. QED
    BY <2>2 DEF ProtectionComesOn, ProtectionActive
<1>3. CASE conf' = conf
    BY <1>3 DEF ProtectionComesOn
<1>4. conf' = conf \/ WriteMirrorPage \/ WriteAccessPage
    BY DEF Next, Call, SwapReader, Probe, RestartServer, ReadConfig, FirstGuard, LastGuard,
           Guard, WritePwd, WritePack, ReadBack, chip
<1>5. QED
    BY <1>1, <1>2, <1>3, <1>4

(* No chip comes under protection unless the caller accepted it or a       *)
(* reader that authenticates was seen, but for an AUTH0 that is no byte.   *)
THEOREM KnowinglyCorrect == Spec => LockedOutKnowingly
<1> DEFINE Known == \/ call.accept
                    \/ call.via = "cli" /\ reader
                    \/ call.via = "web" /\ canAuth = "yes"
                    \/ call.via = "web" /\ call.auth0 > 255
<1>1. ASSUME GuardInv, [Next]_vars
      PROVE  [ProtectionComesOn => Known]_vars
  <2> SUFFICES ASSUME Next, ProtectionComesOn
               PROVE  Known
      BY <1>1
  <2>1. /\ pc = "mirror page" /\ call.cmd = "set"
        /\ want.auth0 <= LastUser \/ want.auth0 > 255
    BY <1>1, ComesOnBySet
  <2>2. Cleared /\ Origin /\ call \in Commands
    BY <1>1, <2>1 DEF GuardInv
  <2>3. call \in Calls /\ call.via \in {"cli", "web"}
    BY <2>2, ConfigAssumption, CallFields
  <2>4. want.auth0 \in Int /\ LastUser \in Nat
    BY <1>1, AuthTypes, LastUserIsNat DEF GuardInv
  <2>5. CASE want.auth0 <= LastUser
    BY <2>2, <2>4, <2>5 DEF Cleared
  <2>6. CASE want.auth0 > 255
    <3>1. call.auth0 = want.auth0 /\ (call.via = "cli" => call.auth0 < 256)
      BY <2>1, <2>2 DEF Origin
    <3>2. call.via # "cli"
      BY <2>4, <2>6, <3>1
    <3>3. QED
      BY <2>3, <2>6, <3>1, <3>2
  <2>7. QED
    BY <2>1, <2>5, <2>6
<1>2. QED
    BY <1>1, GuardInit, GuardStep, PTL DEF Spec, LockedOutKnowingly

(* Protection comes on with the password and PACK that were asked for, or  *)
(* on a reader that stores the padding with zeros, and never with those of *)
(* before, on every reader that does not acknowledge what it loses.        *)
THEOREM PasswordCorrect == Spec => PasswordInPlace
<1> DEFINE InPlace == ProtectionComesOn /\ ~lossy =>
                         {pwd', pack'} \subseteq IF stores THEN {"asked", "zeros"} ELSE {"asked"}
<1>1. ASSUME GuardInv, [Next]_vars
      PROVE  [InPlace]_vars
  <2> SUFFICES ASSUME Next, ProtectionComesOn, ~lossy
               PROVE  {pwd', pack'} \subseteq IF stores THEN {"asked", "zeros"} ELSE {"asked"}
      BY <1>1
  <2>1. pc = "mirror page" /\ call.cmd = "set"
    BY <1>1, ComesOnBySet
  <2>2. pwd = "asked" /\ pack = "asked"
    BY <1>1, <2>1 DEF GuardInv, Secrets
  <2>3. WriteMirrorPage
    BY <1>1, <2>1 DEF Next, Call, SwapReader, Probe, RestartServer, ReadConfig, FirstGuard,
           LastGuard, WritePwd, WritePack, WriteAccessPage, ReadBack
  <2>4. stores \in BOOLEAN
    BY <1>1 DEF GuardInv, TypeOK
  <2>5. QED
    BY <2>2, <2>3, <2>4, MirrorPageEffect
<1>2. QED
    BY <1>1, GuardInit, GuardStep, PTL DEF Spec, PasswordInPlace

-----------------------------------------------------------------------------
(* What a command leaves alone, what it leaves behind, and what a refusal  *)
(* costs: three more invariants, each on top of GuardInv.                  *)

(* What the command does not ask for is wanted as it is, on the page that  *)
(* has AUTH0 and the mirror and on the one that has the access byte.       *)
UnaskedMirror ==
    /\ call.cmd \in {"set", "disable"} \/ want.auth0 = conf.auth0
    /\ call.cmd = "mirror" \/ want.mirror = conf.mirror
    /\ want.cfglck = conf.cfglck

UnaskedAccess ==
    /\ call.cmd \in {"set", "disable"} \/ want.prot = conf.prot
    /\ call.cmd = "counter" \/ want.counter = conf.counter
    /\ want.authlim = conf.authlim

Early == {"first guard", "pwd", "pack", "guard", "mirror page"}

(* On a reader that stores the padding the first page can have blanked the *)
(* second.                                                                 *)
AskedInv ==
    /\ pc \in Early => UnaskedMirror /\ UnaskedAccess
    /\ pc = "access page" => UnaskedMirror /\ (UnaskedAccess \/ (stores /\ AccessBlank(conf)))

(* The pages behind a command are written.                                 *)
LandedInv ==
    ~lossy =>
      /\ pc = "access page" => conf = WithMirrorPage(conf, want)
      /\ pc = "back" => conf = WithAccessPage(WithMirrorPage(conf, want), want)

(* A command that has set a password has passed a guard that would let it  *)
(* pass again, when the answer it is given cannot change.                  *)
Passes == \A believed \in Beliefs : ~(LocksOut(want, believed) /\ ~call.accept)

RefusalInv ==
    /\ pc # "idle" => result = "none"
    /\ pc \in {"read", "first guard"} \/ (pc = "guard" /\ call.cmd # "set")
         => pwd = "before" /\ pack = "before"
    /\ pc \in {"pwd", "pack", "guard"} /\ call.cmd = "set" /\ (call.via = "web" \/ ~reader)
         => Passes

-----------------------------------------------------------------------------
LEMMA SameConfig ==
    ASSUME NEW c \in Configs, NEW d \in Configs,
           c.auth0 = d.auth0, c.prot = d.prot, c.cfglck = d.cfglck, c.authlim = d.authlim,
           c.counter = d.counter, c.mirror = d.mirror
    PROVE  c = d
BY DEF Configs

(* What a padded write of the first page can leave of the second. *)
LEMMA SpilledFields ==
    ASSUME NEW c \in Configs
    PROVE  LET x == WithAccessPage(c, NoWant)
           IN  /\ x.auth0 = c.auth0 /\ x.mirror = c.mirror
               /\ x.cfglck = FALSE /\ AccessBlank(x)
<1>1. /\ NoWant.prot = FALSE /\ NoWant.cfglck = FALSE /\ NoWant.authlim = FALSE
      /\ NoWant.counter = FALSE
    BY DEF NoWant
<1>2. QED
    BY <1>1, AccessPageFields DEF AccessBlank

(* The first page is as it was wanted when its two parts are, whatever the *)
(* second holds.                                                           *)
LEMMA MirrorPageHeld ==
    ASSUME NEW c \in Configs, NEW w \in Wanted
    PROVE  c = WithMirrorPage(c, w) <=>
             /\ c.auth0 = w.auth0 % 256
             /\ c.mirror = Cut(w.mirror)
<1> DEFINE m == WithMirrorPage(c, w)
<1>1. m \in Configs
    BY PagesType
<1>2. /\ m.auth0 = w.auth0 % 256 /\ m.mirror = Cut(w.mirror)
      /\ m.prot = c.prot /\ m.cfglck = c.cfglck /\ m.authlim = c.authlim /\ m.counter = c.counter
    BY MirrorPageFields
<1> HIDE DEF m
<1>3. c.auth0 = w.auth0 % 256 /\ c.mirror = Cut(w.mirror) => c = m
    BY <1>1, <1>2, SameConfig
<1>4. c = m => c.auth0 = w.auth0 % 256 /\ c.mirror = Cut(w.mirror)
    BY <1>2
<1>5. QED
    BY <1>3, <1>4 DEF m

(* The first page is still as it was written when the second is.           *)
LEMMA FirstPageStays ==
    ASSUME NEW c \in Configs, NEW w \in Wanted, NEW x \in Configs,
           x = WithMirrorPage(c, w) \/ x = WithAccessPage(WithMirrorPage(c, w), NoWant)
    PROVE  x = WithMirrorPage(x, w)
<1>1. WithMirrorPage(c, w) \in Configs
    BY PagesType
<1>2. /\ x.auth0 = WithMirrorPage(c, w).auth0
      /\ x.mirror = WithMirrorPage(c, w).mirror
    BY <1>1, AccessPageFields
<1>3. QED
    BY <1>2, MirrorPageFields, MirrorPageHeld

LEMMA SecondPageStays ==
    ASSUME NEW c \in Configs, NEW w \in Wanted, c = WithMirrorPage(c, w)
    PROVE  WithAccessPage(c, w) = WithAccessPage(WithMirrorPage(WithAccessPage(c, w), w), w)
<1> DEFINE d == WithAccessPage(c, w)
<1>1. d \in Configs
    BY PagesType
<1>2. /\ d.auth0 = c.auth0 /\ d.mirror = c.mirror /\ d.prot = w.prot /\ d.cfglck = w.cfglck
      /\ d.authlim = w.authlim /\ d.counter = w.counter
    BY AccessPageFields
<1> HIDE DEF d
<1>3. d = WithMirrorPage(d, w)
    BY <1>1, <1>2, MirrorPageHeld
<1>4. WithAccessPage(d, w) \in Configs
    BY <1>1, PagesType
<1>5. d = WithAccessPage(d, w)
    BY <1>1, <1>2, <1>4, AccessPageFields, SameConfig
<1>6. QED
    BY <1>3, <1>5 DEF d

(* What a command edits, it edits alone. *)
LEMMA EditedAlone ==
    ASSUME conf \in Configs, NEW c \in Calls
    PROVE  /\ c.cmd \in {"set", "disable"} \/
                (Edited(c).auth0 = conf.auth0 /\ Edited(c).prot = conf.prot)
           /\ c.cmd = "mirror" \/ Edited(c).mirror = conf.mirror
           /\ c.cmd = "counter" \/ Edited(c).counter = conf.counter
           /\ Edited(c).cfglck = conf.cfglck /\ Edited(c).authlim = conf.authlim
<1>1. CASE c.cmd = "set"
    BY <1>1 DEF Edited, Configs
<1>2. CASE c.cmd = "disable"
    BY <1>2 DEF Edited, Configs
<1>3. CASE c.cmd = "counter"
    BY <1>3 DEF Edited, Configs
<1>4. CASE c.cmd = "mirror"
    BY <1>4 DEF Edited, Configs
<1>5. QED
    BY <1>1, <1>2, <1>3, <1>4, CallFields

(* Bytes are written as they are. *)
LEMMA UnaskedStays ==
    ASSUME conf \in Configs, want \in Wanted, UnaskedMirror,
           NEW first \in {conf, WithMirrorPage(conf, want)}
    PROVE  /\ call.cmd \in {"set", "disable"} \/ first.auth0 = conf.auth0
           /\ call.cmd = "mirror" \/ first.mirror = conf.mirror
           /\ first.prot = conf.prot /\ first.cfglck = conf.cfglck
           /\ first.authlim = conf.authlim /\ first.counter = conf.counter
<1>1. conf.auth0 \in 0..255 /\ conf.mirror \in [mode : MirrorModes, page : 0..255, byte : 0..3]
    BY DEF Configs, Bytes
<1>2. conf.auth0 % 256 = conf.auth0 /\ conf.mirror.page % 256 = conf.mirror.page
    BY <1>1, ByteOfByte
<1>3. \A n \in 0..3 : n % 4 = n
    OBVIOUS
<1>4. conf.mirror.byte % 4 = conf.mirror.byte
    BY <1>1, <1>3
<1>5. Cut(conf.mirror) = conf.mirror
    BY <1>1, <1>2, <1>4 DEF Cut
<1>6. QED
    BY <1>2, <1>5, MirrorPageFields DEF UnaskedMirror

-----------------------------------------------------------------------------
(* A step by what it does to the command: it is given, ends, goes on with  *)
(* what it wants, reads the configuration, or is not concerned.            *)
LEMMA CommandSteps ==
    ASSUME GuardInv, [Next]_vars
    PROVE  \/ Call \/ ReadConfig \/ FirstGuard \/ WritePwd \/ WritePack \/ LastGuard
           \/ WriteMirrorPage \/ WriteAccessPage \/ ReadBack
           \/ /\ UNCHANGED <<conf, pwd, pack, lossy, call, pc, want, result>>
              /\ pc = "idle" \/ UNCHANGED <<stores, reader, canAuth>>
<1>1. CASE SwapReader \/ Probe \/ RestartServer
    BY <1>1 DEF SwapReader, Probe, RestartServer, chip, setting
<1>2. CASE UNCHANGED vars
    BY <1>2 DEF vars, chip, setting
<1>3. QED
    BY <1>1, <1>2 DEF Next

LEMMA AskedStep ==
    ASSUME GuardInv, AskedInv, [Next]_vars
    PROVE  AskedInv'
<1> USE DEF Early
<1>0. TypeOK /\ conf \in Configs /\ want \in Wanted
    BY DEF GuardInv, TypeOK
<1>1. CASE pc' = "idle" \/ pc' = "read" \/ pc' = "back"
    BY <1>1 DEF AskedInv
<1>2. CASE ReadConfig
  <2>1. CASE want' = Edited(call) /\ UNCHANGED <<conf, call>>
             /\ pc' \in {"first guard", "guard"}
    <3>1. call \in Calls
      BY <1>2, ConfigAssumption DEF ReadConfig, GuardInv
    <3>2. UnaskedMirror' /\ UnaskedAccess'
      BY <1>0, <2>1, <3>1, EditedAlone DEF UnaskedMirror, UnaskedAccess
    <3>3. QED
      BY <2>1, <3>2 DEF AskedInv
  <2>2. QED
    BY <1>1, <1>2, <2>1 DEF ReadConfig, End, Reach, chip
<1>3. CASE FirstGuard \/ WritePwd \/ WritePack \/ LastGuard
  <2>1. CASE UNCHANGED <<conf, want, call>> /\ pc \in Early /\ pc' \in Early
    BY <2>1 DEF AskedInv, UnaskedMirror, UnaskedAccess
  <2>2. pc' = "idle" \/ (UNCHANGED <<conf, want, call>> /\ pc \in Early /\ pc' \in Early)
    BY <1>3 DEF FirstGuard, WritePwd, WritePack, LastGuard, Guard, Then, End, Reach, chip
  <2>3. QED
    BY <1>1, <2>1, <2>2
<1>4. CASE WriteMirrorPage
  <2>1. UnaskedMirror /\ UnaskedAccess
    BY <1>4, MirrorPageEffect DEF AskedInv
  <2> PICK first \in {conf, WithMirrorPage(conf, want)} :
         /\ \/ conf' = first
            \/ stores /\ ~conf.cfglck /\ conf' = WithAccessPage(first, NoWant)
         /\ \/ End("error")
            \/ pc' = "access page" /\ UNCHANGED <<call, want>>
    BY <1>4, MirrorPageEffect
  <2>2. stores' = stores
    BY <1>4, MirrorPageEffect DEF setting
  <2>3. CASE End("error")
    BY <1>1, <2>3 DEF End
  <2>4. CASE pc' = "access page" /\ UNCHANGED <<call, want>>
    <3>1. /\ call.cmd \in {"set", "disable"} \/ want.auth0 = first.auth0
          /\ call.cmd = "mirror" \/ want.mirror = first.mirror
          /\ want.cfglck = conf.cfglck /\ first.cfglck = conf.cfglck
      BY <1>0, <2>1, UnaskedStays DEF UnaskedMirror
    <3>2. CASE conf' = first
      <4>1. UnaskedMirror' /\ UnaskedAccess'
        BY <1>0, <2>1, <2>4, <3>1, <3>2, UnaskedStays DEF UnaskedMirror, UnaskedAccess
      <4>2. QED
        BY <2>4, <4>1 DEF AskedInv
    <3>3. CASE stores /\ ~conf.cfglck /\ conf' = WithAccessPage(first, NoWant)
      <4>1. first \in Configs
        BY <1>0, PagesType
      <4>2. /\ conf'.auth0 = first.auth0 /\ conf'.mirror = first.mirror
            /\ conf'.cfglck = FALSE /\ AccessBlank(conf')
        BY <3>3, <4>1, SpilledFields
      <4>3. conf.cfglck = FALSE
        BY <1>0, <3>3 DEF Configs
      <4>4. UnaskedMirror'
        BY <2>4, <3>1, <4>2, <4>3 DEF UnaskedMirror
      <4>5. stores' /\ AccessBlank(conf')
        BY <2>2, <3>3, <4>2
      <4>6. QED
        BY <2>4, <4>4, <4>5 DEF AskedInv
    <3>4. QED
      BY <3>2, <3>3
  <2>5. QED
    BY <2>3, <2>4
<1>5. CASE Call \/ WriteAccessPage \/ ReadBack
  <2>1. WriteAccessPage => pc' = "idle" \/ pc' = "back"
    BY AccessPageEffect DEF End
  <2>2. QED
    BY <1>1, <1>5, <2>1 DEF Call, ReadBack, End
<1>6. CASE /\ UNCHANGED <<conf, call, pc, want>>
           /\ pc = "idle" \/ stores' = stores
    BY <1>1, <1>6 DEF AskedInv, UnaskedMirror, UnaskedAccess, AccessBlank
<1>7. QED
    BY <1>2, <1>3, <1>4, <1>5, <1>6, CommandSteps

LEMMA LandedStep ==
    ASSUME GuardInv, LandedInv, [Next]_vars
    PROVE  LandedInv'
<1>0. conf \in Configs /\ want \in Wanted
    BY DEF GuardInv, TypeOK
<1>1. CASE pc' \notin {"access page", "back"}
    BY <1>1 DEF LandedInv
<1>2. CASE WriteMirrorPage
  <2> PICK first \in {conf, WithMirrorPage(conf, want)} :
         /\ \/ conf' = first
            \/ conf' = WithAccessPage(first, NoWant)
         /\ \/ End("error")
            \/ /\ pc' = "access page" /\ UNCHANGED <<call, want>>
               /\ ~lossy => first = WithMirrorPage(conf, want)
    BY <1>2, MirrorPageEffect
  <2>1. CASE End("error")
    BY <1>1, <2>1 DEF End
  <2>2. CASE /\ pc' = "access page" /\ UNCHANGED <<call, want>>
             /\ ~lossy => first = WithMirrorPage(conf, want)
    <3>1. lossy' = lossy
      BY <1>2, MirrorPageEffect DEF setting
    <3>2. conf' \in Configs
      BY <1>0, PagesType, NoWantType
    <3>3. ~lossy => conf' = WithMirrorPage(conf', want)
      BY <1>0, <2>2, <3>2, FirstPageStays
    <3>4. QED
      BY <2>2, <3>1, <3>3 DEF LandedInv
  <2>3. QED
    BY <2>1, <2>2
<1>3. CASE WriteAccessPage
  <2>1. CASE End("error")
    BY <1>1, <2>1 DEF End
  <2>2. CASE /\ pc' = "back" /\ UNCHANGED want
             /\ ~lossy => conf' = WithAccessPage(conf, want)
    <3>1. lossy' = lossy /\ pc = "access page"
      BY <1>3, AccessPageEffect DEF setting
    <3>2. ~lossy => conf = WithMirrorPage(conf, want)
      BY <3>1 DEF LandedInv
    <3>3. ~lossy => conf' = WithAccessPage(WithMirrorPage(conf', want), want)
      BY <1>0, <2>2, <3>2, SecondPageStays
    <3>4. QED
      BY <2>2, <3>1, <3>3 DEF LandedInv
  <2>3. QED
    BY <1>3, <2>1, <2>2, AccessPageEffect
<1>4. CASE Call \/ ReadConfig \/ FirstGuard \/ WritePwd \/ WritePack \/ LastGuard \/ ReadBack
  <2>1. pc' \notin {"access page", "back"}
    BY <1>4 DEF Call, ReadConfig, FirstGuard, WritePwd, WritePack, LastGuard, ReadBack, Guard,
                Then, End, Reach
  <2>2. QED
    BY <1>1, <2>1
<1>5. CASE UNCHANGED <<conf, pc, want, lossy>>
    BY <1>5 DEF LandedInv
<1>6. QED
    BY <1>2, <1>3, <1>4, <1>5, CommandSteps

LEMMA RefusalStep ==
    ASSUME GuardInv, RefusalInv, [Next]_vars
    PROVE  RefusalInv'
<1>1. CASE pc' = "idle"
    BY <1>1 DEF RefusalInv
<1>2. CASE Call
    BY <1>2 DEF Call, RefusalInv
<1>3. CASE ReadConfig
  <2>1. CASE Reach(IF call.cmd = "set" THEN "first guard" ELSE "guard")
    BY <1>3, <2>1 DEF ReadConfig, RefusalInv, Reach, chip
  <2>2. QED
    BY <1>1, <1>3, <2>1 DEF ReadConfig, End
<1>4. CASE FirstGuard
  <2> PICK believed \in Beliefs :
         IF LocksOut(want, believed) /\ ~call.accept
         THEN End("refused") ELSE Reach("pwd") /\ UNCHANGED want
    BY <1>4 DEF FirstGuard, Guard
  <2>1. CASE ~(LocksOut(want, believed) /\ ~call.accept)
    <3>1. UNCHANGED <<want, call, canAuth, reader, result>> /\ pc' = "pwd" /\ pc = "first guard"
      BY <1>4, <2>1 DEF FirstGuard, Guard, Reach, setting
    <3>2. call.via = "web" \/ ~reader => \A other \in Beliefs : other = believed
      <4>1. CASE call.via = "cli" /\ ~reader
        <5>1. reader = FALSE
          BY <4>1 DEF GuardInv, TypeOK
        <5>2. Beliefs = {FALSE}
          BY <4>1, <5>1 DEF Beliefs, Answers
        <5>3. QED
          BY <5>2
      <4>2. CASE call.via # "cli"
        BY <4>2 DEF Beliefs
      <4>3. QED
        BY <4>1, <4>2
    <3>3. call.via = "web" \/ ~reader => Passes
      BY <2>1, <3>2 DEF Passes
    <3>4. Passes => Passes'
      BY <3>1 DEF Passes, Beliefs, Answers, LocksOut, ProtectionActive
    <3>5. QED
      BY <3>1, <3>3, <3>4 DEF RefusalInv
  <2>2. QED
    BY <1>1, <2>1 DEF End
<1>5. CASE WritePwd \/ WritePack
  <2>1. CASE UNCHANGED <<want, call, canAuth, reader, result>> /\ pc' \in {"pack", "guard"}
    <3>1. pc \in {"pwd", "pack"} /\ call.cmd = "set"
      BY <1>5 DEF WritePwd, WritePack, GuardInv
    <3>2. Passes => Passes'
      BY <2>1 DEF Passes, Beliefs, Answers, LocksOut, ProtectionActive
    <3>3. QED
      BY <2>1, <3>1, <3>2 DEF RefusalInv
  <2>2. QED
    BY <1>1, <1>5, <2>1 DEF WritePwd, WritePack, Then, End, Reach, setting
<1>6. CASE LastGuard \/ WriteMirrorPage \/ WriteAccessPage \/ ReadBack
  <2>1. CASE pc' \in {"mirror page", "access page", "back"} /\ result' = result /\ pc # "idle"
    BY <2>1 DEF RefusalInv
  <2>2. QED
    BY <1>1, <1>6, <2>1 DEF LastGuard, WriteMirrorPage, WriteAccessPage, ReadBack, Guard, Then,
                            End, Reach
<1>7. CASE /\ UNCHANGED <<conf, pwd, pack, lossy, call, pc, want, result>>
           /\ pc = "idle" \/ UNCHANGED <<reader, canAuth>>
  <2>1. CASE pc # "idle"
    <3>1. Passes => Passes'
      BY <1>7, <2>1 DEF Passes, Beliefs, Answers, LocksOut, ProtectionActive
    <3>2. QED
      BY <1>7, <2>1, <3>1 DEF RefusalInv
  <2>2. QED
    BY <1>1, <1>7, <2>1
<1>8. QED
    BY <1>2, <1>3, <1>4, <1>5, <1>6, <1>7, CommandSteps

LEMMA CommandInvariant == Spec => [](GuardInv /\ AskedInv /\ LandedInv /\ RefusalInv)
<1>1. Init => AskedInv /\ LandedInv /\ RefusalInv
    BY DEF Init, Early, AskedInv, LandedInv, RefusalInv
<1>2. QED
    BY <1>1, GuardInit, GuardStep, AskedStep, LandedStep, RefusalStep, PTL DEF Spec

-----------------------------------------------------------------------------
(* A command leaves the settings of the others as they are, AUTHLIM and    *)
(* CFGLCK for good, whichever page writes fail and in whatever order       *)
(* commands follow one another (build_config_pages, ntag.py); only on a    *)
(* reader that stores the padding can the access page be blank between the *)
(* write of the page before it and its own (write_page, reader.py).        *)
THEOREM OnlyWhatWasAskedCorrect == Spec => OnlyWhatWasAsked
<1> DEFINE Spared == /\ conf'.prot # conf.prot => call.cmd \in {"set", "disable"}
                     /\ conf'.counter # conf.counter => call.cmd = "counter"
                     /\ conf'.authlim = conf.authlim
           Kept == /\ conf'.auth0 # conf.auth0 => call.cmd \in {"set", "disable"}
                   /\ conf'.mirror # conf.mirror => call.cmd = "mirror"
                   /\ conf'.cfglck = conf.cfglck
                   /\ \/ Spared
                      \/ stores /\ pc = "mirror page" /\ AccessBlank(conf')
                      \/ stores /\ pc = "access page" /\ AccessBlank(conf)
<1>1. GuardInv /\ AskedInv /\ [Next]_vars => [Kept]_vars
  <2> SUFFICES ASSUME GuardInv, AskedInv, [Next]_vars
               PROVE  Kept
      OBVIOUS
  <2>0. TypeOK /\ conf \in Configs /\ want \in Wanted
      BY DEF GuardInv, TypeOK
  <2>1. CASE conf' = conf
      BY <2>1
  <2>2. CASE WriteMirrorPage
    <3>1. UnaskedMirror /\ pc = "mirror page"
      BY <2>2, MirrorPageEffect DEF AskedInv, Early
    <3> PICK first \in {conf, WithMirrorPage(conf, want)} :
           \/ conf' = first
           \/ stores /\ ~conf.cfglck /\ conf' = WithAccessPage(first, NoWant)
      BY <2>2, MirrorPageEffect
    <3>2. /\ call.cmd \in {"set", "disable"} \/ first.auth0 = conf.auth0
          /\ call.cmd = "mirror" \/ first.mirror = conf.mirror
          /\ first.prot = conf.prot /\ first.cfglck = conf.cfglck
          /\ first.authlim = conf.authlim /\ first.counter = conf.counter
      BY <2>0, <3>1, UnaskedStays
    <3>3. CASE conf' = first
      BY <3>2, <3>3
    <3>4. CASE stores /\ ~conf.cfglck /\ conf' = WithAccessPage(first, NoWant)
      <4>1. first \in Configs
        BY <2>0, PagesType
      <4>2. /\ conf'.auth0 = first.auth0 /\ conf'.mirror = first.mirror
            /\ conf'.cfglck = FALSE /\ AccessBlank(conf')
        BY <3>4, <4>1, SpilledFields
      <4>3. conf.cfglck = FALSE
        BY <2>0, <3>4 DEF Configs
      <4>4. QED
        BY <3>1, <3>2, <3>4, <4>2, <4>3
    <3>5. QED
      BY <3>3, <3>4
  <2>3. CASE WriteAccessPage
    <3>1. pc = "access page" /\ conf' \in {conf, WithAccessPage(conf, want)}
      BY <2>3, AccessPageEffect
    <3>2. UnaskedMirror /\ (UnaskedAccess \/ (stores /\ AccessBlank(conf)))
      BY <3>1 DEF AskedInv
    <3>3. CASE conf' = WithAccessPage(conf, want)
      <4>1. /\ conf'.auth0 = conf.auth0 /\ conf'.mirror = conf.mirror
            /\ conf'.prot = want.prot /\ conf'.cfglck = want.cfglck
            /\ conf'.authlim = want.authlim /\ conf'.counter = want.counter
        BY <2>0, <3>3, AccessPageFields
      <4>2. UnaskedAccess => Spared
        BY <4>1 DEF UnaskedAccess
      <4>3. conf'.cfglck = conf.cfglck
        BY <3>2, <4>1 DEF UnaskedMirror
      <4>4. QED
        BY <3>1, <3>2, <4>1, <4>2, <4>3
    <3>4. QED
      BY <2>1, <3>1, <3>3
  <2>4. conf' = conf \/ WriteMirrorPage \/ WriteAccessPage
      BY CommandSteps DEF Call, ReadConfig, FirstGuard, WritePwd, WritePack, LastGuard,
                          ReadBack, Guard, chip
  <2>5. QED
      BY <2>1, <2>2, <2>3, <2>4
<1>2. QED
    BY <1>1, CommandInvariant, PTL DEF Spec, OnlyWhatWasAsked

(* A report of success is given when both pages hold what was asked, on    *)
(* every reader that does not acknowledge what it loses (cmd_password,     *)
(* _apply_config and _configure compare nothing they read back).           *)
THEOREM ReportedCorrect == Spec => ReportedIsStored
<1> DEFINE Stored == pc # "idle" /\ result' = "ok" /\ ~lossy =>
                        conf = WithAccessPage(WithMirrorPage(conf, want), want)
<1>1. GuardInv /\ LandedInv /\ RefusalInv /\ [Next]_vars => [Stored]_vars
  <2> SUFFICES ASSUME GuardInv, LandedInv, RefusalInv, [Next]_vars, pc # "idle", result' = "ok",
                      ~lossy
               PROVE  conf = WithAccessPage(WithMirrorPage(conf, want), want)
      OBVIOUS
  <2>1. result = "none"
      BY DEF RefusalInv
  <2>2. pc = "back"
      BY <2>1, CommandSteps DEF Call, ReadConfig, FirstGuard, WritePwd, WritePack, LastGuard,
                                WriteMirrorPage, WriteAccessPage, ReadBack, Guard, Then, End, Reach
  <2>3. QED
      BY <2>2 DEF LandedInv
<1>2. QED
    BY <1>1, CommandInvariant, PTL DEF Spec, ReportedIsStored

(* A refusal has cost nothing: the password and PACK on the chip are still *)
(* the ones before the command (cmd_password, _configure).                 *)
THEOREM RefusedCorrect == Spec => RefusedChangesNothing
<1> DEFINE Spared == pc # "idle" /\ result' = "refused" /\ (call.via = "web" \/ ~reader) =>
                        pwd = "before" /\ pack = "before"
<1>1. GuardInv /\ RefusalInv /\ [Next]_vars => [Spared]_vars
  <2> SUFFICES ASSUME GuardInv, RefusalInv, [Next]_vars, pc # "idle", result' = "refused",
                      call.via = "web" \/ ~reader
               PROVE  pwd = "before" /\ pack = "before"
      OBVIOUS
  <2>1. result = "none"
      BY DEF RefusalInv
  <2>2. pc \in {"read", "first guard", "guard"}
      BY <2>1, CommandSteps DEF Call, ReadConfig, FirstGuard, WritePwd, WritePack, LastGuard,
                                WriteMirrorPage, WriteAccessPage, ReadBack, Guard, Then, End, Reach
  <2>3. CASE pc = "guard" /\ call.cmd = "set"
    <3>1. Passes
      BY <2>3 DEF RefusalInv
    <3>2. Guard("mirror page")
      BY <2>3, <2>1, CommandSteps DEF Call, ReadConfig, FirstGuard, WritePwd, WritePack, LastGuard,
                                WriteMirrorPage, WriteAccessPage, ReadBack
    <3>3. result' = result
      BY <3>1, <3>2 DEF Guard, Passes, Reach
    <3>4. QED
      BY <2>1, <3>3
  <2>4. QED
      BY <2>2, <2>3 DEF RefusalInv
<1>2. QED
    BY <1>1, CommandInvariant, PTL DEF Spec, RefusedChangesNothing

-----------------------------------------------------------------------------
(* The mirror. *)

(* A web request for a place below its page. *)
Below == call.cmd = "mirror" /\ call.via = "web" /\ call.byte < 0

InsideInv ==
    pc \in Early =>
      \/ Below
      \/ want.mirror.byte >= 0 /\ (InUserMemory(conf.mirror) => InUserMemory(want.mirror))

LEMMA EditedInside ==
    ASSUME conf \in Configs, NEW c \in Calls, ~Improper(c),
           ~(c.cmd = "mirror" /\ c.via = "web" /\ c.byte < 0)
    PROVE  /\ Edited(c).mirror.byte >= 0
           /\ InUserMemory(conf.mirror) => InUserMemory(Edited(c).mirror)
<1>0. conf.mirror \in [mode : MirrorModes, page : Bytes, byte : 0..3]
    BY DEF Configs
<1>1. CASE c.cmd = "mirror" /\ c.mode = "off"
  <2>1. Edited(c).mirror = [conf.mirror EXCEPT !.mode = "off", !.page = 0]
    BY <1>1 DEF Edited, Configs
  <2>2. Edited(c).mirror.mode = "off" /\ Edited(c).mirror.byte = conf.mirror.byte
    BY <1>0, <2>1
  <2>3. conf.mirror.byte >= 0
    BY <1>0
  <2>4. QED
    BY <2>2, <2>3 DEF InUserMemory
<1>2. CASE c.cmd = "mirror" /\ c.mode # "off"
  <2>1. Edited(c).mirror = [mode |-> c.mode, page |-> c.page, byte |-> c.byte]
    BY <1>2 DEF Edited, Configs
  <2>2. /\ Edited(c).mirror.mode = c.mode /\ Edited(c).mirror.page = c.page
        /\ Edited(c).mirror.byte = c.byte
    BY <2>1
  <2>3. c.page \in Int /\ c.byte \in Int /\ ~(c.page <= 3) /\ MirrorFits(c)
    BY <1>2, CallFields DEF Improper
  <2>4. c.byte >= 0
    BY <1>2, <2>3, CallFields
  <2>5. c.page > 3
    BY <2>3
  <2>6. QED
    BY <2>2, <2>3, <2>4, <2>5 DEF InUserMemory, MirrorFits
<1>3. CASE c.cmd # "mirror"
  <2>1. Edited(c).mirror = conf.mirror
    BY <1>3, EditedAlone
  <2>2. conf.mirror.byte >= 0
    BY <1>0
  <2>3. QED
    BY <2>1, <2>2
<1>4. QED
    BY <1>1, <1>2, <1>3

(* Cutting a place that is inside moves it towards the front, if at all. *)
LEMMA CutPlace ==
    ASSUME NEW page \in Int, NEW byte \in Nat, NEW width \in Nat, NEW last \in Nat,
           last < 255, page > 3, page * 4 + byte + width <= (last + 1) * 4
    PROVE  page % 256 = page /\ page * 4 + (byte % 4) + width <= (last + 1) * 4
<1>1. page \in 0..255
    OBVIOUS
<1>2. page % 256 = page
    BY <1>1, ByteOfByte
<1>3. byte % 4 <= byte /\ byte % 4 \in Nat
    OBVIOUS
<1>4. QED
    BY <1>2, <1>3

LEMMA CutInside ==
    ASSUME NEW m \in [mode : MirrorModes, page : Int, byte : Int],
           m.byte >= 0, InUserMemory(m)
    PROVE  InUserMemory(Cut(m))
<1>1. Cut(m).mode = m.mode /\ Cut(m).page = m.page % 256 /\ Cut(m).byte = m.byte % 4
    BY DEF Cut
<1>2. SUFFICES ASSUME m.mode # "off", m.page % 256 # 0
               PROVE  /\ m.page % 256 > 3
                      /\ (m.page % 256) * 4 + (m.byte % 4) + MirrorWidth[m.mode]
                            <= (LastUser + 1) * 4
    BY <1>1 DEF InUserMemory
<1>3. m.page # 0
    BY <1>2
<1>4. /\ m.page > 3 /\ m.page * 4 + m.byte + MirrorWidth[m.mode] <= (LastUser + 1) * 4
    BY <1>2, <1>3 DEF InUserMemory
<1>5. m.page \in Int /\ m.byte \in Nat /\ MirrorWidth[m.mode] \in Nat
    BY WidthIsNat
<1>6. /\ m.page % 256 = m.page
      /\ m.page * 4 + (m.byte % 4) + MirrorWidth[m.mode] <= (LastUser + 1) * 4
    BY <1>4, <1>5, LastUserIsNat, CutPlace
<1>7. QED
    BY <1>4, <1>6

LEMMA InsideStep == GuardInv /\ InsideInv /\ [Next]_vars => InsideInv'
<1> SUFFICES ASSUME GuardInv, InsideInv, [Next]_vars
             PROVE  InsideInv'
    OBVIOUS
<1>0. conf \in Configs
    BY DEF GuardInv, TypeOK
<1>1. CASE pc' \notin Early
    BY <1>1 DEF InsideInv
<1>2. CASE ReadConfig
  <2>1. CASE ~Improper(call) /\ want' = Edited(call) /\ UNCHANGED <<conf, call>>
    <3>1. call \in Calls
      BY <1>2, ConfigAssumption DEF ReadConfig, GuardInv
    <3>2. QED
      BY <1>0, <2>1, <3>1, EditedInside DEF InsideInv, Below
  <2>2. QED
    BY <1>1, <1>2, <2>1 DEF ReadConfig, End, Reach, chip, Early
<1>3. CASE FirstGuard \/ WritePwd \/ WritePack \/ LastGuard
  <2>1. CASE UNCHANGED <<conf, want, call>> /\ pc \in Early
    BY <2>1 DEF InsideInv, Below
  <2>2. pc' = "idle" \/ (UNCHANGED <<conf, want, call>> /\ pc \in Early)
    BY <1>3 DEF FirstGuard, WritePwd, WritePack, LastGuard, Guard, Then, End, Reach, chip, Early
  <2>3. QED
    BY <1>1, <2>1, <2>2 DEF Early
<1>4. CASE Call \/ WriteMirrorPage \/ WriteAccessPage \/ ReadBack
  <2>1. pc' \in {"idle", "read", "access page", "back"}
    BY <1>4, MirrorPageEffect, AccessPageEffect DEF Call, ReadBack, End
  <2>2. QED
    BY <1>1, <2>1 DEF Early
<1>5. CASE UNCHANGED <<conf, call, pc, want>>
    BY <1>5 DEF InsideInv, Below
<1>6. QED
    BY <1>2, <1>3, <1>4, <1>5, CommandSteps

(* A mirror in user memory is moved out of it by no command, in whatever   *)
(* order they come and whichever page writes fail, but for a web request   *)
(* with a byte below 0 (mirror_fits and build_config_pages of ntag.py,     *)
(* _configure of server.py).                                               *)
THEOREM MirrorCorrect == Spec => MirrorInside
<1> DEFINE Stays == InUserMemory(conf.mirror) =>
                      \/ InUserMemory(conf'.mirror)
                      \/ call.cmd = "mirror" /\ call.via = "web" /\ call.byte < 0
<1>1. Init => InsideInv
    BY DEF Init, InsideInv, Early
<1>2. GuardInv /\ InsideInv /\ [Next]_vars => [Stays]_vars
  <2> SUFFICES ASSUME GuardInv, InsideInv, [Next]_vars, InUserMemory(conf.mirror), ~Below
               PROVE  InUserMemory(conf'.mirror)
      BY DEF Below
  <2>0. /\ conf \in Configs /\ want \in Wanted
        /\ want.mirror \in [mode : MirrorModes, page : Int, byte : Int]
      BY DEF GuardInv, TypeOK, Wanted
  <2>1. CASE conf' = conf
      BY <2>1
  <2>2. CASE WriteMirrorPage
    <3>1. want.mirror.byte >= 0 /\ InUserMemory(want.mirror)
      BY <2>2, MirrorPageEffect DEF InsideInv, Early
    <3>2. InUserMemory(Cut(want.mirror))
      BY <2>0, <3>1, CutInside
    <3> PICK first \in {conf, WithMirrorPage(conf, want)} :
           conf' = first \/ conf' = WithAccessPage(first, NoWant)
      BY <2>2, MirrorPageEffect
    <3>3. first \in Configs /\ first.mirror \in {conf.mirror, Cut(want.mirror)}
      BY <2>0, PagesType, MirrorPageFields
    <3>4. conf'.mirror = first.mirror
      BY <3>3, AccessPageFields
    <3>5. QED
      BY <3>2, <3>3, <3>4
  <2>3. CASE WriteAccessPage
    <3>1. WithAccessPage(conf, want).mirror = conf.mirror
      BY <2>0, AccessPageFields
    <3>2. conf'.mirror = conf.mirror
      BY <2>3, <3>1, AccessPageEffect
    <3>3. QED
      BY <3>2
  <2>4. conf' = conf \/ WriteMirrorPage \/ WriteAccessPage
      BY CommandSteps DEF Call, ReadConfig, FirstGuard, WritePwd, WritePack, LastGuard,
                          ReadBack, Guard, chip
  <2>5. QED
      BY <2>1, <2>2, <2>3, <2>4
<1>3. QED
    BY <1>1, <1>2, InsideStep, CommandInvariant, PTL DEF Spec, MirrorInside
=============================================================================
