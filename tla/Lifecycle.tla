------------------------------ MODULE Lifecycle ------------------------------
(***************************************************************************)
(* The life of one tag under the commands that format, write, erase, lock  *)
(* and unlock it (cli.py, writer.py): any sequence of them, each of whose  *)
(* reads and page writes can fail and end it half-way.                     *)
(*                                                                         *)
(* Of the tag, what the commands decide on or put at risk is kept: its CC, *)
(* its two sets of lock bits and the configuration pages behind its user   *)
(* memory.  What write_page and write_ndef do in between is in PageWrite   *)
(* and WriteNdef.                                                          *)
(***************************************************************************)
EXTENDS Type2Tag

CONSTANTS
    Chips,      \* the chips, each named by the CC size byte that suits it
    Formats     \* the capacities in bytes that format --capacity can be given

ASSUME LifecycleAssumption ==
    /\ Chips \subseteq DOMAIN Capacity
    /\ Formats # {} /\ \A f \in Formats : f \in Nat /\ f \div 8 \in Bytes
    /\ \A c \in Chips : /\ CapacityOf(c) > 0
                        /\ LastUserPage(CapacityOf(c)) > 15 => c \in LockLayout

VARIABLES
    chip,       \* the tag's chip
    otp,        \* the chip ORs what is written to the CC; clones may not
    lossy,      \* the reader can acknowledge writes that never landed
    cc,         \* the CC the tag holds
    static,     \* L-CC and L4..L15 are set: pages 3 to 15 refuse writes
    dynamic,    \* the dynamic lock bits are set: pages 16 up refuse writes
    config,     \* the configuration pages: "kept", or "wiped" by data
    call,       \* the command in progress, or the last one
    pc,         \* where it is
    info,       \* what its identify_tag made of the tag
    said,       \* what the last command reported
    promised,   \* lock has said "This tag is now permanently read-only."
    log         \* what the audit log last says of the lock, and whether the CC
                \* has changed since without such a record

tag  == <<chip, otp, lossy, cc, static, dynamic, config>>
vars == <<tag, call, pc, info, said, promised, log>>

(* lock, lock --soft, the web UI's lock, unlock, format, erase, write-url   *)
(* and write-text: force is that of format and write, capacity that of      *)
(* format, full is a payload that takes all the capacity there is.          *)
Commands == {"lock", "soft lock", "web lock", "unlock", "format", "erase", "write"}
Calls    == [cmd : Commands, force : BOOLEAN, capacity : Formats, full : BOOLEAN]
Locking  == {"lock", "soft lock", "web lock"}
Logged   == {"soft lock", "web lock", "unlock"}

TypeOK ==
    /\ chip \in Chips /\ otp \in BOOLEAN /\ lossy \in BOOLEAN
    /\ cc \in Containers
    /\ static \in BOOLEAN /\ dynamic \in BOOLEAN
    /\ config \in {"kept", "wiped"}
    /\ call \in Calls
    /\ pc \in {"idle", "identify", "decide", "cc", "again", "check", "dynamic", "static", "fill"}
    /\ info \in Infos
    /\ said \in {"nothing", "error", "refused", "already read-only", "already writable",
                 "soft-locked", "soft-locked, verified", "locked", "unlocked",
                 "not changed", "done"}
    /\ promised \in BOOLEAN
    /\ log \in [says : {"nothing"} \cup Logged, stale : BOOLEAN]

(* NTAG21x: behind the user memory come the dynamic lock page and four      *)
(* configuration pages.                                                     *)
HasConfig == chip \in LockLayout
LastPage  == LastUserPage(CapacityOf(chip)) + IF HasConfig THEN 5 ELSE 0

(* A chip with user memory above page 15 needs its dynamic lock bits too.   *)
HasUpperPages == LastUserPage(CapacityOf(chip)) > 15
FullyLocked   == ~cc.writable /\ static /\ (HasUpperPages => dynamic)

(* The CC does not claim more than the chip's user memory.                  *)
Honest == cc.formatted => CapacityOf(cc.size) =< CapacityOf(chip)

(* Mutant: only the static lock bits are looked at.                         *)
HardLockedStaticOnly(size) == {static}

(* hard_locked, of the lock page the CC's product has; read on another      *)
(* chip, that page is data and can look any way.                            *)
HardLocked(size) ==
    IF static \/ size \notin LockLayout THEN {TRUE}
    ELSE IF size = chip THEN {dynamic}
    ELSE BOOLEAN

Init ==
    /\ chip \in Chips /\ otp \in BOOLEAN /\ lossy \in BOOLEAN
    /\ cc \in {EmptyCc, BlankCc(chip)}
    /\ static = FALSE /\ dynamic = FALSE /\ config = "kept"
    /\ call \in [cmd : {"unlock"}, force : {FALSE},
                 capacity : {CHOOSE f \in Formats : TRUE}, full : {FALSE}]
    /\ pc = "idle"
    /\ info = NoInfo
    /\ said = "nothing"
    /\ promised = FALSE
    /\ log = [says |-> "nothing", stale |-> FALSE]

(* A page write that is acknowledged (ok) or not and has landed or not.     *)
Outcome(ok, landed, refusing) ==
    /\ refusing => ~landed
    /\ ok /\ ~landed => lossy

End(report) == pc' = "idle" /\ said' = report

-----------------------------------------------------------------------------
Call ==
    /\ pc = "idle"
    /\ call' \in {c \in Calls : /\ c.cmd \notin {"format", "write"} => ~c.force
                                /\ c.cmd # "format" => c.capacity = call.capacity
                                /\ c.cmd # "write" => ~c.full}
    /\ pc' = "identify"
    /\ said' = "nothing"
    /\ info' = NoInfo
    /\ UNCHANGED <<tag, promised>>

(* identify_tag; a CC that cannot be read makes the tag look unformatted.   *)
Identify ==
    /\ pc = "identify"
    /\ info' \in {InfoOf(cc), NoInfo}
    /\ pc' = "decide"
    /\ UNCHANGED <<tag, call, said, promised>>

(* A read outside every try, or the tag is taken away: the command ends.    *)
Fail ==
    /\ \/ pc \in {"identify", "again", "check", "static", "fill"}
       \/ pc = "decide" /\ call.cmd = "write"
    /\ End("error")
    /\ UNCHANGED <<tag, call, info, promised>>

(* cmd_lock and soft_lock; on the command line, --yes may be missing.       *)
DecideLock ==
    /\ pc = "decide"
    /\ call.cmd \in Locking
    /\ CASE ~info.formatted -> End("refused")
         [] info.formatted /\ ~info.writable -> End("already read-only")
         [] OTHER -> \/ pc' = "cc" /\ UNCHANGED said
                     \/ call.cmd # "web lock" /\ End("refused")
    /\ UNCHANGED <<tag, call, info, promised>>

(* soft_unlock.                                                             *)
DecideUnlock ==
    /\ pc = "decide"
    /\ call.cmd = "unlock"
    /\ CASE ~info.formatted -> End("refused")
         [] info.formatted /\ info.writable -> End("already writable")
         [] OTHER -> pc' = "cc" /\ UNCHANGED said
    /\ UNCHANGED <<tag, call, info, promised>>

(* cmd_format.                                                              *)
DecideFormat ==
    /\ pc = "decide"
    /\ call.cmd = "format"
    /\ IF info.formatted /\ ~call.force THEN End("refused")
       ELSE pc' = "cc" /\ UNCHANGED said
    /\ UNCHANGED <<tag, call, info, promised>>

(* cmd_erase: it reads neither the access byte nor the lock bits.           *)
DecideErase ==
    /\ pc = "decide"
    /\ call.cmd = "erase"
    /\ IF info.formatted THEN pc' = "fill" /\ UNCHANGED said ELSE End("refused")
    /\ UNCHANGED <<tag, call, info, promised>>

(* write_ndef, up to its first page: once to a tag that looks unformatted,  *)
(* and again after its CC was written.                                      *)
DecideWrite ==
    /\ pc = "decide"
    /\ call.cmd = "write"
    /\ ~info.formatted
    /\ IF call.force THEN pc' = "cc" /\ UNCHANGED said ELSE End("refused")
    /\ UNCHANGED <<tag, call, info, promised>>

PassLocks ==
    /\ \/ pc = "decide" /\ call.cmd = "write" /\ info.formatted /\ UNCHANGED info
       \/ pc = "again" /\ info' \in {InfoOf(cc), NoInfo}
    /\ \E locked \in HardLocked(info'.size) :
          IF info'.capacity = 0 \/ (~info'.writable /\ (locked \/ ~call.force))
          THEN End("refused")
          ELSE pc' = "fill" /\ UNCHANGED said
    /\ UNCHANGED <<tag, call, promised>>

-----------------------------------------------------------------------------
(* Mutant: format writes the capacity itself, not an eighth of it.          *)
CcImageUnscaled ==
    CASE call.cmd = "format" -> BlankCc(call.capacity)
      [] call.cmd = "write"  -> BlankCc(18)
      [] OTHER -> [formatted |-> TRUE, size |-> info.size, writable |-> call.cmd = "unlock"]

(* The CC that each command writes: the one it read, marked or unmarked, or *)
(* a blank one.                                                             *)
CcImage ==
    CASE call.cmd = "format" -> BlankCc(call.capacity \div 8)
      [] call.cmd = "write"  -> BlankCc(18)
      [] OTHER -> [formatted |-> TRUE, size |-> info.size, writable |-> call.cmd = "unlock"]

(* Mutant: lock goes on to the lock bits when the CC was not written.       *)
WriteCcUnchecked ==
    /\ pc = "cc"
    /\ \E ok, landed \in BOOLEAN :
          /\ Outcome(ok, landed, static)
          /\ cc' = IF landed THEN CcAfter(otp, cc, CcImage) ELSE cc
          /\ IF call.cmd = "lock" THEN pc' = "dynamic" /\ UNCHANGED said ELSE End("error")
    /\ UNCHANGED <<chip, otp, lossy, static, dynamic, config, call, info, promised>>

WriteCc ==
    /\ pc = "cc"
    /\ \E ok, landed \in BOOLEAN :
          /\ Outcome(ok, landed, static)
          /\ cc' = IF landed THEN CcAfter(otp, cc, CcImage) ELSE cc
          /\ CASE ~ok -> End("error")
               [] ok /\ call.cmd = "soft lock" -> End("soft-locked")
               [] OTHER -> /\ pc' = CASE call.cmd = "lock"   -> "dynamic"
                                      [] call.cmd = "format" -> "fill"
                                      [] call.cmd = "write"  -> "again"
                                      [] OTHER               -> "check"
                           /\ UNCHANGED said
    /\ UNCHANGED <<chip, otp, lossy, static, dynamic, config, call, info, promised>>

(* Mutant: the acknowledgement is taken for the outcome.                    *)
CheckCcTrusting ==
    /\ pc = "check"
    /\ End(IF call.cmd = "unlock" THEN "unlocked" ELSE "soft-locked, verified")
    /\ UNCHANGED <<tag, call, info, promised>>

(* soft_lock and soft_unlock read the CC back; read_cc may return nothing.  *)
CheckCc ==
    /\ pc = "check"
    /\ \E read \in BOOLEAN :
          End(IF ~read \/ cc.writable # (call.cmd = "unlock") THEN "not changed"
              ELSE IF cc.writable THEN "unlocked" ELSE "soft-locked, verified")
    /\ UNCHANGED <<tag, call, info, promised>>

(* Mutant: lock goes on when the dynamic lock bits were refused.            *)
LockDynamicUnchecked ==
    /\ pc = "dynamic"
    /\ dynamic' \in {dynamic, TRUE}
    /\ pc' = "static"
    /\ UNCHANGED <<chip, otp, lossy, cc, static, config, call, info, said, promised>>

(* cmd_lock: the dynamic lock page of the product the CC names, if it has   *)
(* one; on another chip that page is something else.                        *)
LockDynamic ==
    /\ pc = "dynamic"
    /\ IF info.size \notin LockLayout
       THEN pc' = "static" /\ UNCHANGED <<dynamic, said>>
       ELSE \E ok, landed \in BOOLEAN :
               /\ Outcome(ok, landed, CapacityOf(info.size) > CapacityOf(chip))
               /\ dynamic' = (dynamic \/ (landed /\ info.size = chip))
               /\ IF ok THEN pc' = "static" /\ UNCHANGED said ELSE End("error")
    /\ UNCHANGED <<chip, otp, lossy, cc, static, config, call, info, promised>>

(* The static lock bits come last, since they freeze the CC.                *)
LockStatic ==
    /\ pc = "static"
    /\ \E ok, landed \in BOOLEAN :
          /\ Outcome(ok, landed, FALSE)
          /\ static' = (static \/ landed)
          /\ End(IF ok THEN "locked" ELSE "error")
          /\ promised' = (promised \/ ok)
    /\ UNCHANGED <<chip, otp, lossy, cc, dynamic, config, call, info>>

-----------------------------------------------------------------------------
(* The page writes from page 4 on: the empty message of format, the zeros   *)
(* of erase, the payload of a write, after a read of all the capacity there *)
(* is said to be: of format's capacity every whole page, also those that    *)
(* the CC, which counts in units of 8 bytes, leaves out.                    *)
Area == IF call.cmd = "format" THEN PageSize * (call.capacity \div PageSize)
        ELSE info.capacity

(* Mutant: erase goes one page past the last.                               *)
ReachOneMore == info.capacity + PageSize

Reach == IF call.cmd = "erase" \/ call.full THEN info.capacity ELSE PageSize

(* Past the user memory of the chip they reach its dynamic lock page, where *)
(* data sets lock bits and zeros do not, and then its configuration.  The   *)
(* empty message goes wherever the walk over the area ends: on its last two *)
(* bytes it sticks out of it (DataArea).                                    *)
Fill ==
    /\ pc = "fill"
    /\ AreaReadable(Area, LastPage)
    /\ \E ok, landed \in BOOLEAN :
          /\ Outcome(ok, landed, static /\ (dynamic \/ ~HasUpperPages))
          /\ LET behind  == landed /\ ~dynamic /\ HasConfig
                 overrun == behind /\ Reach > CapacityOf(chip)
                 empty   == behind /\ call.cmd # "write" /\ Area >= CapacityOf(chip)
             IN  /\ config' \in IF overrun THEN {"wiped"}
                                ELSE IF empty /\ Area > CapacityOf(chip) THEN {config, "wiped"}
                                ELSE {config}
                 /\ dynamic' \in IF empty \/ (overrun /\ call.cmd = "write") THEN BOOLEAN
                                 ELSE {dynamic}
          /\ End(IF ok THEN "done" ELSE "error")
    /\ UNCHANGED <<chip, otp, lossy, cc, static, call, info, promised>>

-----------------------------------------------------------------------------
(* Mutant: what soft_lock or soft_unlock could not do is recorded as done.  *)
RecordAnyway(report) == IF report = "not changed" THEN call.cmd ELSE "nothing"

(* The record with ok that a command makes as it ends, if it is of the      *)
(* lock.  A hard lock makes none at all, and an error skips it.             *)
RecordOf(report) ==
    IF \/ call.cmd = "soft lock" /\ report = "soft-locked"
       \/ call.cmd = "web lock"  /\ report \in {"already read-only", "soft-locked, verified"}
       \/ call.cmd = "unlock"    /\ report \in {"already writable", "unlocked"}
    THEN call.cmd ELSE "nothing"

Log == log' = IF pc' = "idle" /\ RecordOf(said') # "nothing"
              THEN [says |-> RecordOf(said'), stale |-> FALSE]
              ELSE [log EXCEPT !.stale = @ \/ cc' # cc]

Next == /\ \/ Call \/ Identify \/ Fail
           \/ DecideLock \/ DecideUnlock \/ DecideFormat \/ DecideErase \/ DecideWrite
           \/ PassLocks
           \/ WriteCc \/ CheckCc \/ LockDynamic \/ LockStatic \/ Fill
        /\ Log

Spec == Init /\ [][Next]_vars

-----------------------------------------------------------------------------
(* What lock promises stays true, whatever is done to the tag afterwards:   *)
(* on a reader whose acknowledgements are true, and a tag whose CC names    *)
(* its own chip (cli.py:277-336).                                           *)
PromiseKept == promised /\ ~lossy /\ cc.size = chip => FullyLocked

(* The CC is marked read-only before the bits that freeze it are set, in    *)
(* every order of commands and failures: no tag is left that phones try to  *)
(* write and cannot (cli.py:301-303, 325-332).                              *)
CcBeforeLockBits == static /\ ~lossy => ~cc.writable

(* The reports that rest on a read-back, and those that say there was       *)
(* nothing to do, are true of the tag (writer.py:174-234).                  *)
ReportsAreTrue ==
    /\ said = "unlocked" \/ said = "already writable" => cc.writable
    /\ said = "soft-locked, verified" \/ said = "already read-only" => ~cc.writable

(* On a tag whose CC is honest only a format that was given at least a page *)
(* more than the chip has reaches the configuration pages, whether or not   *)
(* the CC it wrote says so, and no write reaches the dynamic lock bits; and *)
(* only two commands make an honest CC claim too much, a format, and a      *)
(* write that was forced on a tag whose CC looked blank (cli.py:238-265,    *)
(* writer.py:97-148).                                                       *)
ConfigSafeBehindHonestCc ==
    [][Honest => /\ config' # config => /\ call.cmd = "format"
                                        /\ call.capacity >= CapacityOf(chip) + PageSize
                 /\ dynamic' # dynamic => call.cmd \in {"lock", "format", "erase"}
                 /\ ~Honest' => \/ call.cmd = "format"
                                \/ call.cmd = "write" /\ call.force /\ ~info.formatted]_vars

(* A tag whose lock bits are set in part is not written by a forced write   *)
(* as long as its CC is read-only: the data it holds is not torn            *)
(* (writer.py:107-118, LOCKING.md:50-52).                                   *)
NoWriteIntoPartialLock ==
    [][pc # "fill" /\ pc' = "fill" /\ call.cmd = "write" /\ ~cc.writable /\ cc.size = chip
          => ~static /\ ~dynamic]_vars

(* What the audit log last says of the lock is true of the tag, until a     *)
(* command changes the CC and ends without a record of it; but for a soft   *)
(* lock from the command line on a reader that acknowledges what it loses,  *)
(* which is recorded unverified (cli.py:304-312, 567-572, server.py:311-328). *)
HistoryTells ==
    ~log.stale =>
        /\ log.says = "unlock" => cc.writable
        /\ log.says = "web lock" \/ (log.says = "soft lock" /\ ~lossy) => ~cc.writable

(* cli.py:277-278 says of lock that it "also sets the hardware lock bits.   *)
(* Nothing can ever write the tag again": when it ends without an error on  *)
(* a tag whose CC names its chip, and no acknowledgement was false, they    *)
(* are set.                                                                 *)
LockMeansLocked ==
    /\ call.cmd = "lock"
    /\ said \in {"locked", "already read-only"}
    /\ ~lossy
    /\ cc.size = chip
    => FullyLocked
===============================================================================
