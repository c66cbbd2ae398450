----------------------------- MODULE ConfigGuard -----------------------------
(***************************************************************************)
(* The commands that change the configuration pages of an NTAG21x, mirror, *)
(* counter and password, from the command line (cmd_mirror, cmd_counter,   *)
(* cmd_password and _apply_config of cli.py) and from the web UI           *)
(* (_configure of web/server.py), with the guard of ntag.py that is to     *)
(* keep a tag from being protected by a reader that cannot authenticate.   *)
(*                                                                         *)
(* Password and PACK are pages of their own, then comes the page with the  *)
(* mirror and AUTH0, then the one with the access byte: four page writes,  *)
(* any of which can fail, be acknowledged and not land, or, on a reader    *)
(* that stores the padding of the 16-byte form, rewrite the pages behind   *)
(* with what write_page read of them: zeros, of PWD and PACK.              *)
(***************************************************************************)
EXTENDS Integers

CONSTANTS
    LastUser,     \* the last page of the chip's user memory
    ConfigPage,   \* CONFIG_PAGE: the first configuration page
    Commands,     \* the commands that are given, a subset of Calls
    FirstConfigs  \* the configurations a tag can arrive with

Bytes         == 0..255
Auth0Disabled == 255

MirrorModes == {"off", "uid", "counter", "both"}
MirrorWidth == [m \in MirrorModes |-> CASE m = "uid" -> 14 [] m = "counter" -> 6
                                        [] m = "both" -> 21 [] OTHER -> 0]

(* parse_config: the configuration as the pages hold it.  What the counter  *)
(* does, and whether AUTHLIM is not 0, are one bit each.                    *)
Configs == [auth0 : Bytes, prot : BOOLEAN, cfglck : BOOLEAN, authlim : BOOLEAN,
            counter : BOOLEAN,
            mirror : [mode : MirrorModes, page : Bytes, byte : 0..3]]

(* on: the counter, or protect-reads; accept: --accept-lockout,             *)
(* acceptLockout.  The command line's parser bounds --byte; of a web        *)
(* request, int() takes any whole number.                                   *)
Calls ==
    LET from == {"cli", "web"}
    IN       [via : from, accept : BOOLEAN, cmd : {"set"}, auth0 : Int, on : BOOLEAN]
       \cup  [via : from, accept : BOOLEAN, cmd : {"disable"}]
       \cup  [via : from, accept : BOOLEAN, cmd : {"counter"}, on : BOOLEAN]
       \cup  [via : {"cli"}, accept : BOOLEAN, cmd : {"mirror"}, mode : MirrorModes,
              page : Int, byte : 0..3]
       \cup  [via : {"web"}, accept : BOOLEAN, cmd : {"mirror"}, mode : MirrorModes,
              page : Int, byte : Int]

NoCall == [cmd |-> "none"]

ASSUME ConfigAssumption ==
    /\ LastUser \in Bytes /\ ConfigPage \in Bytes
    /\ 3 < LastUser /\ LastUser < ConfigPage
    /\ Commands \subseteq Calls
    /\ FirstConfigs \subseteq Configs

VARIABLES
    conf,      \* the chip's configuration
    pwd,       \* its password: that "before" the call in progress, the one "asked" for,
               \* or the "zeros" of a spill
    pack,      \* its PACK, likewise
    inForce,   \* the AUTH0 and PROT the chip enforces
    atOnce,    \* what is written to them is enforced at once, not from the next power-up
    lossy,     \* the reader can acknowledge writes that never landed
    stores,    \* it stores all 16 bytes of a padded write
    reader,    \* it can authenticate
    canAuth,   \* the server's _can_auth: "unknown", "yes" or "no"
    call,      \* the command in progress
    mode,      \* NfcReader.write_mode: every command opens a reader of its own
    pc,        \* where it is
    want,      \* cfg: the configuration it is to write
    result     \* what it reported

chip    == <<conf, pwd, pack, inForce>>
setting == <<atOnce, lossy, stores, reader>>
vars    == <<chip, setting, canAuth, call, mode, pc, want, result>>

Enforced(c) == [auth0 |-> c.auth0, prot |-> c.prot]

(* What a command works with: auth0 and the mirror's place are still whole  *)
(* numbers, and become bytes or less when they are written.                 *)
Wanted == [auth0 : Int, prot : BOOLEAN, cfglck : BOOLEAN, authlim : BOOLEAN,
           counter : BOOLEAN,
           mirror : [mode : MirrorModes, page : Int, byte : Int]]

(* Config(), which stands for what is not there between two commands. *)
NoWant == [auth0 |-> Auth0Disabled, prot |-> FALSE, cfglck |-> FALSE, authlim |-> FALSE,
           counter |-> FALSE, mirror |-> [mode |-> "off", page |-> 0, byte |-> 0]]

Points == {"idle", "read", "first guard", "pwd", "pack", "guard",
           "mirror page", "access page", "back"}

Init ==
    /\ conf \in FirstConfigs /\ inForce = Enforced(conf) /\ want = NoWant
    /\ pwd = "before" /\ pack = "before"
    /\ atOnce \in BOOLEAN /\ lossy \in BOOLEAN /\ stores \in BOOLEAN /\ reader \in BOOLEAN
    /\ canAuth = "unknown"
    /\ call = NoCall /\ mode = "none" /\ pc = "idle" /\ result = "none"

-----------------------------------------------------------------------------
(* Between two commands.                                                    *)

(* The tag is powered up again, or has stayed in the field.                 *)
Call ==
    /\ pc = "idle"
    /\ call' \in Commands
    /\ inForce' \in {inForce, Enforced(conf)}
    /\ pwd' = "before" /\ pack' = "before"
    /\ pc' = "read" /\ result' = "none"
    /\ UNCHANGED <<conf, setting, canAuth, mode, want>>

SwapReader ==
    /\ pc = "idle"
    /\ reader' \in BOOLEAN /\ stores' \in BOOLEAN
    /\ UNCHANGED <<chip, atOnce, lossy, canAuth, call, mode, pc, want, result>>

(* can_authenticate: a probe that fails says no.                            *)
Answers == {reader, FALSE}

(* _read_once probes the first time it sees a tag.                          *)
Probe ==
    /\ pc = "idle" /\ canAuth = "unknown"
    /\ \E yes \in Answers : canAuth' = IF yes THEN "yes" ELSE "no"
    /\ UNCHANGED <<chip, setting, call, mode, pc, want, result>>

RestartServer ==
    /\ pc = "idle"
    /\ canAuth' = "unknown"
    /\ UNCHANGED <<chip, setting, call, mode, pc, want, result>>

-----------------------------------------------------------------------------
(* A command.  At any point it can end with an error: an APDU that fails,   *)
(* the tag gone, the program killed.                                        *)

End(report) ==
    pc' = "idle" /\ result' = report /\ call' = NoCall /\ mode' = "none" /\ want' = NoWant

Reach(point) == pc' = point /\ UNCHANGED <<call, mode, result>>

Readable == ~(inForce.prot /\ inForce.auth0 <= ConfigPage)

(* Mutant: the offset inside the page is forgotten.                         *)
MirrorFitsFromPage(c) == c.page * 4 + MirrorWidth[c.mode] <= (LastUser + 1) * 4

(* mirror_fits *)
MirrorFits(c) ==
    c.page * 4 + c.byte + MirrorWidth[c.mode] <= (LastUser + 1) * 4

Improper(c) ==
    \/ c.cmd = "set" /\ c.via = "cli" /\ c.auth0 \notin Bytes
    \/ c.cmd = "mirror" /\ c.mode # "off" /\ (c.page <= 3 \/ ~MirrorFits(c))

(* Mutant: a fresh Config() is edited, not the one the tag has.             *)
EditedFresh(c) ==
    CASE c.cmd = "set"     -> [NoWant EXCEPT !.auth0 = c.auth0, !.prot = c.on]
      [] c.cmd = "counter" -> [NoWant EXCEPT !.counter = c.on]
      [] OTHER             -> NoWant

(* The configuration that was read, with what the command changes.          *)
Edited(c) ==
    CASE c.cmd = "set"     -> [conf EXCEPT !.auth0 = c.auth0, !.prot = c.on]
      [] c.cmd = "disable" -> [conf EXCEPT !.auth0 = Auth0Disabled, !.prot = FALSE]
      [] c.cmd = "counter" -> [conf EXCEPT !.counter = c.on]
      [] c.cmd = "mirror"  ->
           [conf EXCEPT !.mirror =
               IF c.mode = "off" THEN [@ EXCEPT !.mode = "off", !.page = 0]
               ELSE [mode |-> c.mode, page |-> c.page, byte |-> c.byte]]

ReadConfig ==
    /\ pc = "read"
    /\ \/ End("error")
       \/ Readable /\ Improper(call) /\ End("refused")
       \/ /\ Readable /\ ~Improper(call)
          /\ want' = Edited(call)
          /\ Reach(IF call.cmd = "set" THEN "first guard" ELSE "guard")
    /\ UNCHANGED <<chip, setting, canAuth>>

ProtectionActive(c) == c.auth0 <= LastUser

(* protection_locks_out *)
LocksOut(c, authenticates) ==
    (ProtectionActive(c) /\ ~authenticates) \/ c.cfglck \/ c.authlim

(* Mutant: a reader that was never asked is trusted.                        *)
BeliefsUnlessNo == IF call.via = "cli" THEN Answers ELSE {canAuth # "no"}

(* The command line asks the reader each time, the server asks its cache.   *)
Beliefs == IF call.via = "cli" THEN Answers ELSE {canAuth = "yes"}

Guard(next) ==
    /\ \E believed \in Beliefs :
          IF LocksOut(want, believed) /\ ~call.accept
          THEN End("refused") ELSE Reach(next) /\ UNCHANGED want
    /\ UNCHANGED <<chip, setting, canAuth>>

(* Mutant: only the second guard is left.                                   *)
FirstGuardSkipped ==
    pc = "first guard" /\ Reach("pwd") /\ UNCHANGED <<chip, setting, canAuth, want>>

FirstGuard == pc = "first guard" /\ Guard("pwd")

LastGuard == pc = "guard" /\ Guard("mirror page")

(* The chip refuses pages behind AUTH0, since nothing ever authenticates,   *)
(* and a frozen configuration.                                              *)
Refuses(auth0, page) ==
    \/ auth0 <= page
    \/ conf.cfglck /\ page \in {ConfigPage, ConfigPage + 1}

(* A write_page: done, it returned; in the padded form or the plain one,    *)
(* whichever this connection has come to; pages, so many of those sent have *)
(* got to the tag; context, the read of the pages behind was answered.      *)
Outcomes(page) ==
    {o \in [done : BOOLEAN, padded : BOOLEAN, pages : 0..4, context : BOOLEAN] :
        /\ mode # IF o.padded THEN "plain" ELSE "padded"
        /\ o.pages > 1 => o.padded /\ stores
        /\ o.context => o.padded
        /\ o.done /\ ~lossy => o.pages > 0 /\ ~Refuses(inForce.auth0, page)}

(* Page q has taken what a write from the page first on had for it.         *)
Takes(q, o, first, auth0) == q < first + o.pages /\ ~Refuses(auth0, q)

(* PWD and PACK read as zeros, so zeros is what the padding has for them.   *)
Padded(secret, q, o, first, auth0) ==
    IF Takes(q, o, first, auth0) THEN "zeros" ELSE secret

(* Mutant: a page that fails is passed over.                                *)
ThenAnyway(o, next) == Reach(next) /\ UNCHANGED want

Then(o, next) ==
    IF o.done
    THEN /\ pc' = next /\ mode' = IF o.padded THEN "padded" ELSE "plain"
         /\ UNCHANGED <<call, want, result>>
    ELSE End("error")

WritePwd ==
    /\ pc = "pwd"
    /\ \E o \in Outcomes(ConfigPage + 2) :
          /\ pwd' = IF Takes(ConfigPage + 2, o, ConfigPage + 2, inForce.auth0) THEN "asked" ELSE pwd
          /\ pack' = Padded(pack, ConfigPage + 3, o, ConfigPage + 2, inForce.auth0)
          /\ Then(o, "pack")
    /\ UNCHANGED <<conf, inForce, setting, canAuth>>

WritePack ==
    /\ pc = "pack"
    /\ \E o \in Outcomes(ConfigPage + 3) :
          /\ pack' = IF Takes(ConfigPage + 3, o, ConfigPage + 3, inForce.auth0) THEN "asked" ELSE pack
          /\ Then(o, "guard")
    /\ UNCHANGED <<conf, pwd, inForce, setting, canAuth>>

(* Mutant: the parts of a byte are not cut to their width.                  *)
WithMirrorPageUncut(c, w) == [c EXCEPT !.auth0 = w.auth0, !.mirror = w.mirror]

Cut(m) == [mode |-> m.mode, page |-> m.page % 256, byte |-> m.byte % 4]

(* build_config_pages: the first page. *)
WithMirrorPage(c, w) == [c EXCEPT !.auth0 = w.auth0 % 256, !.mirror = Cut(w.mirror)]

(* build_config_pages: the second page. *)
WithAccessPage(c, w) ==
    [c EXCEPT !.prot = w.prot, !.cfglck = w.cfglck,
              !.authlim = w.authlim, !.counter = w.counter]

(* The second page holds nothing but zeros.                                 *)
AccessBlank(c) == ~c.prot /\ ~c.cfglck /\ ~c.authlim /\ ~c.counter

(* A padded write of the first page rewrites the second with what it held,  *)
(* or with zeros when that could not be read, unless the AUTH0 it has just  *)
(* brought is enforced at once.                                             *)
WriteMirrorPage ==
    /\ pc = "mirror page"
    /\ \E o \in Outcomes(ConfigPage) :
          LET first == IF Takes(ConfigPage, o, ConfigPage, inForce.auth0)
                       THEN WithMirrorPage(conf, want) ELSE conf
              auth0 == IF atOnce THEN first.auth0 ELSE inForce.auth0
          IN  /\ conf' = IF ~o.context /\ Takes(ConfigPage + 1, o, ConfigPage, auth0)
                         THEN WithAccessPage(first, NoWant) ELSE first
              /\ pwd'  = Padded(pwd, ConfigPage + 2, o, ConfigPage, auth0)
              /\ pack' = Padded(pack, ConfigPage + 3, o, ConfigPage, auth0)
              /\ Then(o, "access page")
    /\ inForce' = IF atOnce THEN Enforced(conf') ELSE inForce
    /\ UNCHANGED <<setting, canAuth>>

WriteAccessPage ==
    /\ pc = "access page"
    /\ \E o \in Outcomes(ConfigPage + 1) :
          /\ conf' = IF Takes(ConfigPage + 1, o, ConfigPage + 1, inForce.auth0)
                     THEN WithAccessPage(conf, want) ELSE conf
          /\ pwd'  = Padded(pwd, ConfigPage + 2, o, ConfigPage + 1, inForce.auth0)
          /\ pack' = Padded(pack, ConfigPage + 3, o, ConfigPage + 1, inForce.auth0)
          /\ Then(o, "back")
    /\ inForce' = IF atOnce THEN Enforced(conf') ELSE inForce
    /\ UNCHANGED <<setting, canAuth>>

(* What is read back is shown, and compared with nothing.                   *)
ReadBack ==
    /\ pc = "back"
    /\ End("error") \/ (Readable /\ End("ok"))
    /\ UNCHANGED <<chip, setting, canAuth>>

Next ==
    \/ Call \/ SwapReader \/ Probe \/ RestartServer
    \/ ReadConfig \/ FirstGuard \/ WritePwd \/ WritePack
    \/ LastGuard \/ WriteMirrorPage \/ WriteAccessPage \/ ReadBack

Spec == Init /\ [][Next]_vars

-----------------------------------------------------------------------------
TypeOK ==
    /\ conf \in Configs
    /\ pwd \in {"before", "asked", "zeros"} /\ pack \in {"before", "asked", "zeros"}
    /\ inForce \in [auth0 : Bytes, prot : BOOLEAN]
    /\ atOnce \in BOOLEAN /\ lossy \in BOOLEAN /\ stores \in BOOLEAN /\ reader \in BOOLEAN
    /\ canAuth \in {"unknown", "yes", "no"}
    /\ call \in Commands \cup {NoCall}
    /\ mode \in {"none", "plain", "padded"}
    /\ pc \in Points
    /\ want \in Wanted
    /\ result \in {"none", "ok", "refused", "error"}

ProtectionComesOn == ~ProtectionActive(conf) /\ ProtectionActive(conf')

(* User memory comes under password protection only when the caller         *)
(* accepted the lockout or an authenticating reader was seen: by the        *)
(* command itself, or, from the web, whenever the server last asked.  Not   *)
(* when the AUTH0 asked for was no byte: the guards of _configure see 256   *)
(* and the page gets 0.                                                     *)
LockedOutKnowingly ==
    [][ProtectionComesOn =>
          \/ call.accept
          \/ call.via = "cli" /\ reader
          \/ call.via = "web" /\ canAuth = "yes"
          \/ call.via = "web" /\ call.auth0 > 255]_vars

(* "PWD and PACK are written before AUTH0 takes effect, so order matters"   *)
(* (cmd_password): when protection comes on, the password and PACK on the   *)
(* chip are the ones the caller was told to write down, never those from    *)
(* before.  On a reader that stores the padding they can be zeros instead,  *)
(* which the write of the first configuration page has spilled over them    *)
(* (update_binary_padded); one that acknowledges lost writes can break all  *)
(* of it.  Nothing would show either, since they read as zeros anyway.      *)
PasswordInPlace ==
    [][ProtectionComesOn /\ ~lossy =>
          {pwd', pack'} \subseteq IF stores THEN {"asked", "zeros"} ELSE {"asked"}]_vars

(* A command leaves the settings of the others as they are, AUTHLIM and     *)
(* CFGLCK for good, however many page writes fail and in whatever order     *)
(* commands follow one another (build_config_pages rewrites them all).      *)
(* Only a reader that stores the padding can cost what is on the access     *)
(* page: all of it, when the page could not be read before the one ahead of *)
(* it was written, until the command's next write puts it back, if that     *)
(* succeeds (write_page).                                                   *)
OnlyWhatWasAsked ==
    [][ /\ conf'.auth0 # conf.auth0 => call.cmd \in {"set", "disable"}
        /\ conf'.mirror # conf.mirror => call.cmd = "mirror"
        /\ conf'.cfglck = conf.cfglck
        /\ \/ /\ conf'.prot # conf.prot => call.cmd \in {"set", "disable"}
              /\ conf'.counter # conf.counter => call.cmd = "counter"
              /\ conf'.authlim = conf.authlim
           \/ stores /\ pc = "mirror page" /\ AccessBlank(conf')
           \/ stores /\ pc = "access page" /\ AccessBlank(conf) ]_vars

InUserMemory(m) ==
    m.mode # "off" /\ m.page # 0 =>
      /\ m.page > 3
      /\ m.page * 4 + m.byte + MirrorWidth[m.mode] <= (LastUser + 1) * 4

(* A mirror in user memory, above the CC and before the lock and            *)
(* configuration pages, is moved out of it by no command, although its byte *)
(* is cut to two bits after mirror_fits has looked at it; but for a web     *)
(* request with a byte below 0, which mirror_fits adds to a page of any     *)
(* height and the tag stores as 0 to 3.                                     *)
MirrorInside ==
    [][InUserMemory(conf.mirror) =>
          \/ InUserMemory(conf'.mirror)
          \/ call.cmd = "mirror" /\ call.via = "web" /\ call.byte < 0]_vars

(* "Configuration written.": both pages hold what was asked, although what  *)
(* was read back is compared with nothing; a reader that acknowledges lost  *)
(* writes can break this.                                                   *)
ReportedIsStored ==
    [][pc # "idle" /\ result' = "ok" /\ ~lossy =>
          conf = WithAccessPage(WithMirrorPage(conf, want), want)]_vars

(* A refusal has cost nothing: the password on the chip is still the old    *)
(* one.  On the command line a probe that answers yes and then no can       *)
(* refuse between PACK and AUTH0, so the reader must be one that never      *)
(* answers yes.                                                             *)
RefusedChangesNothing ==
    [][pc # "idle" /\ result' = "refused" /\ (call.via = "web" \/ ~reader) =>
          pwd = "before" /\ pack = "before"]_vars

(* protection_locks_out is there to refuse "a change that would leave the   *)
(* tag permanently unwritable by this setup", and protection_active to be   *)
(* "True if AUTH0 points at a page that actually exists".  An AUTH0 that    *)
(* covers its own page cannot be put back without PWD_AUTH, so no command   *)
(* sets one unless the caller accepted it or the reader authenticates.      *)
ConfigStaysOurs ==
    [][conf.auth0 > ConfigPage /\ conf'.auth0 <= ConfigPage =>
          call.accept \/ reader]_vars
===============================================================================
