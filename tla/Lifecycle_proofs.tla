--------------------------- MODULE Lifecycle_proofs ---------------------------
(***************************************************************************)
(* What is proved of the commands for every set of chips, every table of   *)
(* capacities and every capacity that format can be given.                 *)
(***************************************************************************)
EXTENDS Lifecycle, Type2Tag_proofs

-----------------------------------------------------------------------------
(* Types.                                                                  *)

LEMMA ChipType ==
    ASSUME TypeOK
    PROVE  chip \in Bytes /\ CapacityOf(chip) \in Nat
BY CapacityType, LifecycleAssumption, CapacityAssumption DEF TypeOK

LEMMA InfoTypes == TypeOK => InfoOf(cc) \in Infos /\ NoInfo \in Infos
<1>1. NoInfo \in Infos
    BY DEF NoInfo, Infos, Bytes
<1>2. QED
    BY <1>1, InfoOfType DEF TypeOK

LEMMA ImageType ==
    ASSUME TypeOK
    PROVE  CcImage \in Containers
<1>1. call.capacity \div 8 \in Bytes /\ info.size \in Bytes
    BY LifecycleAssumption DEF TypeOK, Calls, Infos
<1>2. 18 \in Bytes
    BY DEF Bytes
<1>3. QED
    BY <1>1, <1>2 DEF CcImage, BlankCc, Containers

LEMMA RecordType ==
    ASSUME TypeOK, NEW report
    PROVE  RecordOf(report) \in {"nothing"} \cup Logged
BY DEF RecordOf, Logged

LEMMA LogType ==
    ASSUME TypeOK, Log
    PROVE  log' \in [says : {"nothing"} \cup Logged, stale : BOOLEAN]
<1> DEFINE T == [says : {"nothing"} \cup Logged, stale : BOOLEAN]
<1>1. log \in T
    BY DEF TypeOK
<1>2. CASE pc' = "idle" /\ RecordOf(said') # "nothing"
  <2>1. PICK p \in BOOLEAN : p = FALSE
      OBVIOUS
  <2>2. log' = [says |-> RecordOf(said'), stale |-> p]
      BY <1>2, <2>1 DEF Log
  <2>3. QED
      BY <2>1, <2>2, RecordType
<1>3. CASE ~(pc' = "idle" /\ RecordOf(said') # "nothing")
  <2>1. PICK b \in BOOLEAN : b = (log.stale \/ cc' # cc)
      OBVIOUS
  <2>2. log' = [log EXCEPT !.stale = b]
      BY <1>3, <2>1 DEF Log
  <2>3. QED
      BY <1>1, <2>1, <2>2
<1>4. QED
    BY <1>2, <1>3

LEMMA TypeInit == Init => TypeOK
<1> SUFFICES ASSUME Init
             PROVE  TypeOK
    OBVIOUS
<1>1. chip \in Bytes
    BY LifecycleAssumption, CapacityAssumption DEF Init
<1>2. EmptyCc \in Containers /\ BlankCc(chip) \in Containers
    BY <1>1 DEF EmptyCc, BlankCc, Containers, Bytes
<1>3. cc \in Containers
    BY <1>2 DEF Init
<1>4. NoInfo \in Infos
    BY DEF NoInfo, Infos, Bytes
<1>5. call \in Calls
  <2>1. PICK s \in Formats : s = CHOOSE x \in Formats : TRUE
      BY LifecycleAssumption
  <2>2. call \in [cmd : {"unlock"}, force : {FALSE}, capacity : {s}, full : {FALSE}]
      BY <2>1 DEF Init
  <2>3. QED
      BY <2>2 DEF Calls, Commands
<1>6. log \in [says : {"nothing"} \cup Logged, stale : BOOLEAN]
  <2>1. PICK p \in BOOLEAN : p = FALSE
      OBVIOUS
  <2>2. log = [says |-> "nothing", stale |-> p]
      BY <2>1 DEF Init
  <2>3. QED
      BY <2>2
<1>7. static \in BOOLEAN /\ dynamic \in BOOLEAN /\ promised \in BOOLEAN
    BY DEF Init
<1>8. QED
    BY <1>3, <1>4, <1>5, <1>6, <1>7 DEF Init, TypeOK

(* Each handler keeps the types of what it changes.                        *)
LEMMA TypeNext ==
    ASSUME TypeOK, [Next]_vars
    PROVE  TypeOK'
<1>l. CASE UNCHANGED vars
  <2>1. /\ chip' = chip /\ otp' = otp /\ lossy' = lossy /\ cc' = cc /\ static' = static
        /\ dynamic' = dynamic /\ config' = config /\ call' = call /\ pc' = pc
        /\ info' = info /\ said' = said /\ promised' = promised /\ log' = log
      BY <1>l DEF vars, tag
  <2>2. /\ chip' \in Chips /\ otp' \in BOOLEAN /\ lossy' \in BOOLEAN
        /\ cc' \in Containers /\ static' \in BOOLEAN /\ dynamic' \in BOOLEAN
        /\ config' \in {"kept", "wiped"} /\ call' \in Calls
      BY <2>1, Zenon DEF TypeOK
  <2>3. /\ info' \in Infos /\ promised' \in BOOLEAN
        /\ log' \in [says : {"nothing"} \cup Logged, stale : BOOLEAN]
      BY <2>1, Zenon DEF TypeOK
  <2>4. QED
      BY <2>1, <2>2, <2>3 DEF TypeOK
<1> SUFFICES ASSUME Next
             PROVE  TypeOK'
    BY <1>l
<1>a. log' \in [says : {"nothing"} \cup Logged, stale : BOOLEAN]
    BY LogType DEF Next
<1>b. InfoOf(cc) \in Infos /\ NoInfo \in Infos
    BY InfoTypes
<1>1. CASE Call
    BY <1>1, <1>a, <1>b DEF Call, TypeOK, tag
<1>2. CASE Identify
    BY <1>2, <1>a, <1>b DEF Identify, TypeOK, tag
<1>3. CASE Fail
    BY <1>3, <1>a DEF Fail, End, TypeOK, tag
<1>4. CASE DecideLock
    BY <1>4, <1>a DEF DecideLock, End, TypeOK, tag
<1>5. CASE DecideUnlock
    BY <1>5, <1>a DEF DecideUnlock, End, TypeOK, tag
<1>6. CASE DecideFormat
    BY <1>6, <1>a DEF DecideFormat, End, TypeOK, tag
<1>7. CASE DecideErase
    BY <1>7, <1>a DEF DecideErase, End, TypeOK, tag
<1>8. CASE DecideWrite
    BY <1>8, <1>a DEF DecideWrite, End, TypeOK, tag
<1>9. CASE PassLocks
    BY <1>9, <1>a, <1>b DEF PassLocks, End, TypeOK, tag
<1>10. CASE WriteCc
  <2>1. CcAfter(otp, cc, CcImage) \in Containers
      BY ImageType, CcAfterType DEF TypeOK
  <2>2. cc' \in Containers
      BY <1>10, <2>1 DEF WriteCc, TypeOK
  <2>3. /\ pc' \in {"idle", "dynamic", "fill", "again", "check"}
        /\ said' \in {said, "error", "soft-locked"}
      BY <1>10 DEF WriteCc, End
  <2>4. /\ chip' = chip /\ otp' = otp /\ lossy' = lossy /\ static' = static
        /\ dynamic' = dynamic /\ config' = config /\ call' = call /\ info' = info
        /\ promised' = promised
      BY <1>10 DEF WriteCc
  <2>5. /\ chip' \in Chips /\ otp' \in BOOLEAN /\ lossy' \in BOOLEAN
        /\ static' \in BOOLEAN /\ dynamic' \in BOOLEAN /\ config' \in {"kept", "wiped"}
        /\ call' \in Calls /\ info' \in Infos /\ promised' \in BOOLEAN
      BY <2>4, Zenon DEF TypeOK
  <2>6. QED
      BY <1>a, <2>2, <2>3, <2>5 DEF TypeOK
<1>11. CASE CheckCc
    BY <1>11, <1>a DEF CheckCc, End, TypeOK, tag
<1>12. CASE LockDynamic
  <2>1. dynamic' \in BOOLEAN
      BY <1>12 DEF LockDynamic, TypeOK
  <2>2. pc' \in {"static", "idle"} /\ said' \in {said, "error"}
      BY <1>12 DEF LockDynamic, End
  <2>3. QED
      BY <1>12, <1>a, <2>1, <2>2 DEF LockDynamic, TypeOK
<1>13. CASE LockStatic
  <2>1. static' \in BOOLEAN /\ promised' \in BOOLEAN
      BY <1>13 DEF LockStatic, TypeOK
  <2>2. QED
      BY <1>13, <1>a, <2>1 DEF LockStatic, End, TypeOK
<1>14. CASE Fill
    BY <1>14, <1>a DEF Fill, End, TypeOK
<1>15. QED
    BY <1>1, <1>2, <1>3, <1>4, <1>5, <1>6, <1>7, <1>8, <1>9, <1>10, <1>11, <1>12, <1>13, <1>14
    DEF Next

LEMMA TypeInvariant == Spec => []TypeOK
BY TypeInit, TypeNext, PTL DEF Spec

(* Commands keep the types of the tag and of their own variables: what is  *)
(* written into the CC is a byte, whatever was OR-ed over what             *)
(* (cli.py:238-337, writer.py:174-234).                                    *)
THEOREM LifecycleTypeCorrect == Spec => []TypeOK
BY TypeInvariant

-----------------------------------------------------------------------------
(* The invariant.  What a command decided on is still what the tag holds   *)
(* when it acts on it, since nothing else writes in between; and what a    *)
(* page write of its own has done is there, unless the reader lied.        *)

Quiet  == pc # "idle" => said = "nothing"
Seen   == pc = "decide" => info \in {InfoOf(cc), NoInfo}
Args   == call.full => call.cmd = "write"
Marks  == pc = "cc" /\ call.cmd \in Locking \cup {"unlock"} => info = InfoOf(cc) /\ cc.formatted
Forced == pc = "cc" /\ call.cmd = "write" => call.force /\ ~info.formatted
Marked == pc \in {"dynamic", "static"} =>
              call.cmd = "lock" /\ (~lossy => ~cc.writable /\ cc.size = info.size)
Upper  == pc = "static" /\ ~lossy /\ info.size = chip /\ HasUpperPages => dynamic
Fills  == pc = "fill" /\ call.cmd # "format" => info = InfoOf(cc) /\ cc.formatted
Sites  == /\ pc = "cc" => call.cmd # "erase"
          /\ pc = "again" => call.cmd = "write"
          /\ pc = "fill" => call.cmd \in {"format", "erase", "write"}
Frozen == promised /\ ~lossy => static

Course == Quiet /\ Seen /\ Args /\ Marks /\ Forced /\ Marked /\ Upper /\ Fills /\ Sites
Truths == CcBeforeLockBits /\ Frozen /\ PromiseKept /\ ReportsAreTrue /\ HistoryTells

(* What identify_tag makes of a CC tells it apart from a blank one.        *)
LEMMA InfoFacts ==
    ASSUME NEW c \in Containers
    PROVE  /\ ~NoInfo.formatted /\ NoInfo.capacity = 0
           /\ c.formatted => /\ InfoOf(c).formatted
                             /\ InfoOf(c).writable = c.writable
                             /\ InfoOf(c).size = c.size
                             /\ InfoOf(c).capacity = CapacityOf(c.size)
           /\ ~c.formatted => InfoOf(c) = NoInfo
BY DEF InfoOf, NoInfo

(* A CC marked over itself keeps its size, and marked read-only it is so.  *)
LEMMA MarkFacts ==
    ASSUME TypeOK, Marks, pc = "cc", call.cmd \in Locking \cup {"unlock"}
    PROVE  LET after == CcAfter(otp, cc, CcImage)
           IN  /\ after.formatted /\ after.size = cc.size /\ info.size = cc.size
               /\ call.cmd # "unlock" => ~after.writable
<1>1. cc.formatted /\ info.size = cc.size
    BY InfoFacts DEF Marks, TypeOK
<1>2. CcImage = [formatted |-> TRUE, size |-> cc.size, writable |-> call.cmd = "unlock"]
    BY <1>1 DEF CcImage, Locking
<1>3. ByteOr(cc.size, cc.size) = cc.size
    BY ByteOrSelf DEF TypeOK, Containers
<1>4. QED
    BY <1>1, <1>2, <1>3 DEF CcAfter

LEMMA CourseInit == Init => Course
BY DEF Init, Course, Quiet, Seen, Args, Marks, Forced, Marked, Upper, Fills, Sites

LEMMA CourseNext ==
    ASSUME TypeOK, Course, [Next]_vars
    PROVE  Course'
<1>f. /\ ~NoInfo.formatted /\ NoInfo.capacity = 0
      /\ cc.formatted => InfoOf(cc).formatted
      /\ ~cc.formatted => InfoOf(cc) = NoInfo
    BY InfoFacts DEF TypeOK
<1>l. CASE UNCHANGED vars
    BY <1>l DEF vars, tag, Course, Quiet, Seen, Args, Marks, Forced, Marked, Upper, Fills, Sites,
                HasUpperPages
<1> SUFFICES ASSUME Next
             PROVE  Course'
    BY <1>l
<1>1. CASE Call
    BY <1>1 DEF Call, Course, Quiet, Seen, Args, Marks, Forced, Marked, Upper, Fills, Sites
<1>2. CASE Identify
    BY <1>2 DEF Identify, tag, Course, Quiet, Seen, Args, Marks, Forced, Marked, Upper, Fills, Sites
<1>3. CASE Fail
    BY <1>3 DEF Fail, End, Course, Quiet, Seen, Args, Marks, Forced, Marked, Upper, Fills, Sites
<1>4. CASE DecideLock
    BY <1>4, <1>f DEF DecideLock, End, tag, Locking, Course, Quiet, Seen, Args, Marks, Forced,
                      Marked, Upper, Fills, Sites
<1>5. CASE DecideUnlock
    BY <1>5, <1>f DEF DecideUnlock, End, tag, Course, Quiet, Seen, Args, Marks, Forced,
                      Marked, Upper, Fills, Sites
<1>6. CASE DecideFormat
    BY <1>6 DEF DecideFormat, End, tag, Locking, Course, Quiet, Seen, Args, Marks, Forced,
                Marked, Upper, Fills, Sites
<1>7. CASE DecideErase
    BY <1>7, <1>f DEF DecideErase, End, tag, Course, Quiet, Seen, Args, Marks, Forced,
                      Marked, Upper, Fills, Sites
<1>8. CASE DecideWrite
    BY <1>8 DEF DecideWrite, End, tag, Locking, Course, Quiet, Seen, Args, Marks, Forced,
                Marked, Upper, Fills, Sites
<1>9. CASE PassLocks
  <2>1. /\ pc' = "idle" \/ (pc' = "fill" /\ info'.capacity # 0 /\ said' = said)
        /\ UNCHANGED <<tag, call>> /\ call.cmd = "write"
      BY <1>9 DEF PassLocks, End, Course, Sites
  <2>2. pc # "idle" /\ info' \in {InfoOf(cc), NoInfo}
      BY <1>9 DEF PassLocks, Course, Seen
  <2>3. pc' = "fill" => info' = InfoOf(cc) /\ cc.formatted
      BY <2>1, <2>2, <1>f
  <2>4. QED
      BY <2>1, <2>2, <2>3 DEF tag, Course, Quiet, Seen, Args, Marks, Forced, Marked, Upper, Fills, Sites
<1>10. CASE WriteCc
  <2>1. /\ UNCHANGED <<chip, otp, lossy, static, dynamic, config, call, info, promised>>
        /\ pc = "cc"
        /\ \/ pc' = "idle"
           \/ pc' \in {"dynamic", "fill", "again", "check"} /\ said' = said
        /\ pc' = "dynamic" => call.cmd = "lock"
        /\ pc' = "fill" => call.cmd = "format"
        /\ pc' = "again" => call.cmd = "write"
      BY <1>10 DEF WriteCc, End
  <2>2. CASE pc' = "dynamic"
    <3>1. ~lossy => cc' = CcAfter(otp, cc, CcImage)
        BY <1>10, <2>2 DEF WriteCc, End, Outcome
    <3>2. CcAfter(otp, cc, CcImage).size = info.size /\ ~CcAfter(otp, cc, CcImage).writable
        BY <2>1, <2>2, MarkFacts DEF Course, Locking
    <3>3. ~lossy => ~cc'.writable /\ cc'.size = info.size
        BY <3>1, <3>2
    <3>4. QED
        BY <2>1, <2>2, <3>3
        DEF Course, Quiet, Seen, Args, Marks, Forced, Marked, Upper, Fills, Sites
  <2>3. CASE pc' # "dynamic"
      BY <2>1, <2>3 DEF Course, Quiet, Seen, Args, Marks, Forced, Marked, Upper, Fills, Sites
  <2>4. QED
      BY <2>2, <2>3
<1>11. CASE CheckCc
    BY <1>11 DEF CheckCc, End, Course, Quiet, Seen, Args, Marks, Forced, Marked, Upper, Fills, Sites
<1>12. CASE LockDynamic
  <2>1. /\ UNCHANGED <<chip, otp, lossy, cc, static, config, call, info, promised>>
        /\ pc = "dynamic"
        /\ pc' = "idle" \/ (pc' = "static" /\ said' = said)
      BY <1>12 DEF LockDynamic, End
  <2>2. pc' = "static" /\ ~lossy /\ info.size = chip /\ HasUpperPages => dynamic'
    <3> SUFFICES ASSUME pc' = "static", ~lossy, info.size = chip, HasUpperPages
                 PROVE  dynamic'
        OBVIOUS
    <3>1. info.size \in LockLayout
        BY LifecycleAssumption DEF TypeOK, HasUpperPages
    <3>2. PICK ok, landed \in BOOLEAN :
              /\ Outcome(ok, landed, CapacityOf(info.size) > CapacityOf(chip))
              /\ dynamic' = (dynamic \/ (landed /\ info.size = chip))
              /\ IF ok THEN pc' = "static" /\ UNCHANGED said ELSE End("error")
        BY <1>12, <3>1 DEF LockDynamic
    <3>3. ok /\ landed
        BY <3>2 DEF Outcome, End
    <3>4. QED
        BY <3>2, <3>3
  <2>3. QED
      BY <2>1, <2>2 DEF HasUpperPages, Course, Quiet, Seen, Args, Marks, Forced, Marked, Upper,
                        Fills, Sites
<1>13. CASE LockStatic
    BY <1>13 DEF LockStatic, End, Course, Quiet, Seen, Args, Marks, Forced, Marked, Upper, Fills, Sites
<1>14. CASE Fill
    BY <1>14 DEF Fill, End, Course, Quiet, Seen, Args, Marks, Forced, Marked, Upper, Fills, Sites
<1>15. QED
    BY <1>1, <1>2, <1>3, <1>4, <1>5, <1>6, <1>7, <1>8, <1>9, <1>10, <1>11, <1>12, <1>13, <1>14
    DEF Next

-----------------------------------------------------------------------------
(* The truths: each of them needs the course of the commands.               *)

LEMMA TruthsInit == Init => Truths
BY DEF Init, Truths, CcBeforeLockBits, Frozen, PromiseKept, ReportsAreTrue, HistoryTells

LEMMA LockBitsNext ==
    ASSUME TypeOK, Course, CcBeforeLockBits, Next
    PROVE  CcBeforeLockBits'
<1>1. CASE WriteCc
    BY <1>1 DEF WriteCc, Outcome, CcBeforeLockBits
<1>2. CASE LockStatic
    BY <1>2 DEF LockStatic, Course, Marked, CcBeforeLockBits
<1>3. CASE ~WriteCc /\ ~LockStatic
  <2>1. UNCHANGED <<cc, static, lossy>>
      BY <1>3 DEF Next, Call, Identify, Fail, DecideLock, DecideUnlock, DecideFormat, DecideErase,
                  DecideWrite, PassLocks, CheckCc, LockDynamic, Fill, tag
  <2>2. QED
      BY <2>1 DEF CcBeforeLockBits
<1>4. QED
    BY <1>1, <1>2, <1>3

LEMMA FrozenNext ==
    ASSUME TypeOK, Frozen, Next
    PROVE  Frozen'
<1>1. CASE LockStatic
    BY <1>1 DEF LockStatic, Outcome, Frozen
<1>2. CASE ~LockStatic
  <2>1. UNCHANGED <<static, lossy, promised>>
      BY <1>2 DEF Next, Call, Identify, Fail, DecideLock, DecideUnlock, DecideFormat, DecideErase,
                  DecideWrite, PassLocks, WriteCc, CheckCc, LockDynamic, Fill, tag
  <2>2. QED
      BY <2>1 DEF Frozen
<1>3. QED
    BY <1>1, <1>2

LEMMA PromiseNext ==
    ASSUME TypeOK, Course, CcBeforeLockBits, Frozen, PromiseKept, Next
    PROVE  PromiseKept'
<1> SUFFICES ASSUME promised', ~lossy', cc'.size = chip'
             PROVE  ~cc'.writable /\ static' /\ (HasUpperPages' => dynamic')
    BY DEF PromiseKept, FullyLocked
<1>1. /\ UNCHANGED <<chip, lossy>>
      /\ HasUpperPages' = HasUpperPages
    BY DEF Next, Call, Identify, Fail, DecideLock, DecideUnlock, DecideFormat, DecideErase,
           DecideWrite, PassLocks, WriteCc, CheckCc, LockDynamic, LockStatic, Fill, tag,
           HasUpperPages
<1>2. ~cc'.writable /\ static'
    BY <1>1, LockBitsNext, FrozenNext DEF CcBeforeLockBits, Frozen
<1>3. CASE LockStatic
  <2>1. UNCHANGED <<cc, dynamic>> /\ pc = "static"
      BY <1>3 DEF LockStatic
  <2>2. HasUpperPages => dynamic
      BY <1>1, <2>1 DEF Course, Marked, Upper
  <2>3. QED
      BY <1>1, <1>2, <2>1, <2>2
<1>4. CASE ~LockStatic
  <2>1. promised
      BY <1>4 DEF Next, Call, Identify, Fail, DecideLock, DecideUnlock, DecideFormat, DecideErase,
                  DecideWrite, PassLocks, WriteCc, CheckCc, LockDynamic, Fill
  <2>2. static
      BY <1>1, <2>1 DEF Frozen
  <2>3. cc' = cc
    <3>1. CASE WriteCc
        BY <1>1, <2>2, <3>1 DEF WriteCc, Outcome
    <3>2. CASE ~WriteCc
        BY <1>4, <3>2 DEF Next, Call, Identify, Fail, DecideLock, DecideUnlock, DecideFormat,
                          DecideErase, DecideWrite, PassLocks, CheckCc, LockDynamic, Fill, tag
    <3>3. QED
        BY <3>1, <3>2
  <2>4. HasUpperPages => dynamic
      BY <1>1, <2>1, <2>3 DEF PromiseKept, FullyLocked
  <2>5. dynamic => dynamic'
    <3>1. CASE Fill
        BY <3>1 DEF Fill, TypeOK
    <3>2. CASE LockDynamic
        BY <3>2 DEF LockDynamic, TypeOK
    <3>3. CASE ~Fill /\ ~LockDynamic
        BY <1>4, <3>3 DEF Next, Call, Identify, Fail, DecideLock, DecideUnlock, DecideFormat,
                          DecideErase, DecideWrite, PassLocks, WriteCc, CheckCc, tag
    <3>4. QED
        BY <3>1, <3>2, <3>3
  <2>6. QED
      BY <1>1, <1>2, <2>4, <2>5
<1>5. QED
    BY <1>3, <1>4

(* A command reports only as it ends, and the CC it reports on is the one  *)
(* it has read or read back.                                               *)
LEMMA ReportsNext ==
    ASSUME TypeOK, Course, ReportsAreTrue, Next
    PROVE  ReportsAreTrue'
<1>f. /\ ~NoInfo.formatted
      /\ cc.formatted => InfoOf(cc).writable = cc.writable
      /\ ~cc.formatted => InfoOf(cc) = NoInfo
    BY InfoFacts DEF TypeOK
<1>1. CASE DecideLock
    BY <1>1, <1>f DEF DecideLock, End, tag, Course, Quiet, Seen, ReportsAreTrue
<1>2. CASE DecideUnlock
    BY <1>2, <1>f DEF DecideUnlock, End, tag, Course, Quiet, Seen, ReportsAreTrue
<1>3. CASE CheckCc
    BY <1>3 DEF CheckCc, End, tag, ReportsAreTrue, TypeOK, Containers
<1>4. CASE WriteCc
    BY <1>4 DEF WriteCc, End, Course, Quiet, ReportsAreTrue
<1>5. CASE ~DecideLock /\ ~DecideUnlock /\ ~CheckCc /\ ~WriteCc
  <2>1. /\ cc' = cc
        /\ said' \in {said, "nothing", "error", "refused", "locked", "done"}
      BY <1>5 DEF Next, Call, Identify, Fail, DecideFormat, DecideErase, DecideWrite, PassLocks,
                  LockDynamic, LockStatic, Fill, End, tag
  <2>2. QED
      BY <2>1 DEF ReportsAreTrue
<1>6. QED
    BY <1>1, <1>2, <1>3, <1>4, <1>5

(* The end of a soft lock whose write was acknowledged by an honest reader *)
(* finds the CC marked; the other records rest on the report.              *)
LEMMA HistoryNext ==
    ASSUME TypeOK, Course, ReportsAreTrue, HistoryTells, Next
    PROVE  HistoryTells'
<1>r. ReportsAreTrue'
    BY ReportsNext
<1>1. CASE pc' = "idle" /\ RecordOf(said') # "nothing"
  <2>1. log' = [says |-> RecordOf(said'), stale |-> FALSE] /\ RecordOf(said') = call.cmd
      BY <1>1 DEF Next, Log, RecordOf
  <2>2. log'.says = call.cmd
      BY <2>1
  <2>3. CASE call.cmd = "unlock"
    <3>1. cc'.writable
        BY <1>1, <1>r, <2>3 DEF RecordOf, ReportsAreTrue
    <3>2. QED
        BY <2>2, <2>3, <3>1 DEF HistoryTells
  <2>4. CASE call.cmd = "web lock"
    <3>1. ~cc'.writable
        BY <1>1, <1>r, <2>4 DEF RecordOf, ReportsAreTrue
    <3>2. QED
        BY <2>2, <2>4, <3>1 DEF HistoryTells
  <2>5. CASE call.cmd = "soft lock"
    <3>1. said' = "soft-locked"
        BY <1>1, <2>5 DEF RecordOf
    <3>2. ~lossy' => ~cc'.writable
      <4>1. CASE WriteCc
        <5>1. said # "soft-locked" /\ pc = "cc"
            BY <4>1 DEF WriteCc, Course, Quiet
        <5>2. ~lossy' => cc' = CcAfter(otp, cc, CcImage)
            BY <3>1, <4>1, <5>1 DEF WriteCc, Outcome, End
        <5>3. ~CcAfter(otp, cc, CcImage).writable
            BY <2>5, <5>1, MarkFacts DEF Course, Locking
        <5>4. QED
            BY <5>2, <5>3
      <4>2. CASE ~WriteCc
          BY <1>1, <3>1, <4>2
          DEF Next, Call, Identify, Fail, DecideLock, DecideUnlock, DecideFormat, DecideErase,
              DecideWrite, PassLocks, CheckCc, LockDynamic, LockStatic, Fill, End, Course, Quiet
      <4>3. QED
          BY <4>1, <4>2
    <3>3. QED
        BY <2>2, <2>5, <3>2 DEF HistoryTells
  <2>6. QED
      BY <1>1, <2>3, <2>4, <2>5 DEF RecordOf
<1>2. CASE ~(pc' = "idle" /\ RecordOf(said') # "nothing")
  <2>1. PICK b \in BOOLEAN : b = (log.stale \/ cc' # cc)
      OBVIOUS
  <2>2. log' = [log EXCEPT !.stale = b]
      BY <1>2, <2>1 DEF Next, Log
  <2>3. log'.says = log.says /\ log'.stale = b
      BY <2>2 DEF TypeOK
  <2>4. lossy' = lossy
      BY DEF Next, Call, Identify, Fail, DecideLock, DecideUnlock, DecideFormat, DecideErase,
             DecideWrite, PassLocks, WriteCc, CheckCc, LockDynamic, LockStatic, Fill, tag
  <2>5. QED
      BY <2>1, <2>3, <2>4 DEF HistoryTells
<1>3. QED
    BY <1>1, <1>2

LEMMA TruthsNext ==
    ASSUME TypeOK, Course, Truths, [Next]_vars
    PROVE  Truths'
<1>1. CASE Next
    BY <1>1, LockBitsNext, FrozenNext, PromiseNext, ReportsNext, HistoryNext DEF Truths
<1>2. CASE UNCHANGED vars
    BY <1>2 DEF vars, tag, Truths, CcBeforeLockBits, Frozen, PromiseKept, ReportsAreTrue,
                HistoryTells, FullyLocked, HasUpperPages
<1>3. QED
    BY <1>1, <1>2

LEMMA LifeInvariant == Spec => [](TypeOK /\ Course /\ Truths)
<1>1. Init => TypeOK /\ Course /\ Truths
    BY TypeInit, CourseInit, TruthsInit
<1>2. (TypeOK /\ Course /\ Truths) /\ [Next]_vars => (TypeOK /\ Course /\ Truths)'
    BY TypeNext, CourseNext, TruthsNext
<1>3. QED
    BY <1>1, <1>2, PTL DEF Spec

(* No failure between the page writes of lock, and no order of commands,   *)
(* leaves a tag whose lock bits are set and whose CC still says that it    *)
(* can be written (cli.py:301-303, 325-332).                               *)
THEOREM CcBeforeLockBitsCorrect == Spec => []CcBeforeLockBits
BY LifeInvariant, PTL DEF Truths

(* After lock has said "permanently read-only" on an honest reader nothing *)
(* any command does makes the tag writable again (cli.py:277-336).         *)
THEOREM PromiseKeptCorrect == Spec => []PromiseKept
BY LifeInvariant, PTL DEF Truths

(* What soft_lock and soft_unlock report is what the tag holds, whatever   *)
(* the reader acknowledges (writer.py:174-234).                            *)
THEOREM ReportsAreTrueCorrect == Spec => []ReportsAreTrue
BY LifeInvariant, PTL DEF Truths

(* The last lock record of the audit log is true of the tag for as long as *)
(* no unrecorded change of the CC follows it (cli.py:304-312, 567-572,     *)
(* server.py:311-328).                                                     *)
THEOREM HistoryTellsCorrect == Spec => []HistoryTells
BY LifeInvariant, PTL DEF Truths

-----------------------------------------------------------------------------
(* The properties of single steps.                                         *)

LEMMA ReachOfWrite ==
    ASSUME TypeOK, Course, pc = "fill", Honest, call.cmd # "format"
    PROVE  ~(Reach > CapacityOf(chip)) /\ ~(Area > CapacityOf(chip))
<1>1. info.capacity = CapacityOf(cc.size) /\ cc.formatted
    BY InfoFacts DEF Course, Fills, TypeOK
<1>2. info.capacity =< CapacityOf(chip)
    BY <1>1 DEF Honest
<1>3. CapacityOf(chip) \in Nat /\ CapacityOf(chip) > 0 /\ CapacityOf(chip) % 8 = 0
    BY ChipType, CapacityType, LifecycleAssumption DEF TypeOK
<1>4. PageSize =< CapacityOf(chip)
    BY <1>3 DEF PageSize
<1>5. info.capacity \in Nat
    BY DEF TypeOK, Infos
<1>6. Area = info.capacity /\ Reach \in {info.capacity, PageSize}
    BY DEF Area, Reach
<1>7. QED
    BY <1>2, <1>3, <1>4, <1>5, <1>6 DEF PageSize

LEMMA FormatReach ==
    ASSUME TypeOK, Course, call.cmd = "format"
    PROVE  ~(Reach > CapacityOf(chip))
<1>1. CapacityOf(chip) \in Nat /\ CapacityOf(chip) > 0 /\ CapacityOf(chip) % 8 = 0
    BY ChipType, CapacityType, LifecycleAssumption DEF TypeOK
<1>2. QED
    BY <1>1 DEF Course, Args, Reach, PageSize

(* A format that walks over more than the chip has was given a page more.  *)
LEMMA PagesOfCapacity ==
    ASSUME TypeOK, call.cmd = "format", Area > CapacityOf(chip)
    PROVE  call.capacity >= CapacityOf(chip) + PageSize
<1>1. CapacityOf(chip) \in Nat /\ CapacityOf(chip) % 8 = 0
    BY ChipType, CapacityType DEF TypeOK
<1>2. call.capacity \in Nat
    BY LifecycleAssumption DEF TypeOK, Calls
<1>3. ASSUME NEW c \in Nat, NEW n \in Nat, n % 8 = 0, 4 * (c \div 4) > n
      PROVE  c >= n + 4
    BY <1>3
<1>4. QED
    BY <1>1, <1>2, <1>3 DEF Area, PageSize

LEMMA ConfigSafeStep ==
    ASSUME TypeOK, Course, Next, Honest
    PROVE  /\ config' # config => /\ call.cmd = "format"
                                  /\ call.capacity >= CapacityOf(chip) + PageSize
           /\ dynamic' # dynamic => call.cmd \in {"lock", "format", "erase"}
           /\ ~Honest' => \/ call.cmd = "format"
                          \/ call.cmd = "write" /\ call.force /\ ~info.formatted
<1>1. CASE Fill
  <2>0. pc = "fill" /\ call.cmd \in {"format", "erase", "write"}
      BY <1>1 DEF Fill, Course, Sites
  <2>1. ~(Reach > CapacityOf(chip))
      BY <2>0, ReachOfWrite, FormatReach
  <2>2. call.cmd # "format" => ~(Area > CapacityOf(chip))
      BY <2>0, ReachOfWrite
  <2>3. config' # config => Area > CapacityOf(chip)
      BY <1>1, <2>1 DEF Fill
  <2>4. call.cmd = "write" => dynamic' = dynamic
      BY <1>1, <2>1 DEF Fill
  <2>5. UNCHANGED <<chip, cc>>
      BY <1>1 DEF Fill
  <2>6. call.cmd = "format" /\ Area > CapacityOf(chip)
            => call.capacity >= CapacityOf(chip) + PageSize
      BY PagesOfCapacity
  <2>7. QED
      BY <2>0, <2>2, <2>3, <2>4, <2>5, <2>6 DEF Honest
<1>2. CASE LockDynamic
  <2>1. call.cmd = "lock" /\ UNCHANGED <<chip, cc, config>>
      BY <1>2 DEF LockDynamic, Course, Marked
  <2>2. QED
      BY <2>1 DEF Honest
<1>3. CASE WriteCc
  <2>1. /\ UNCHANGED <<chip, config, dynamic>>
        /\ pc = "cc" /\ cc' \in {cc, CcAfter(otp, cc, CcImage)}
      BY <1>3 DEF WriteCc
  <2>2. CASE call.cmd \in {"format", "write"}
      BY <2>1, <2>2 DEF Course, Forced
  <2>3. CASE call.cmd \notin {"format", "write"}
    <3>1. call.cmd \in Locking \cup {"unlock"}
        BY <2>1, <2>3 DEF TypeOK, Calls, Commands, Locking, Course, Sites
    <3>2. cc'.size = cc.size
        BY <2>1, <3>1, MarkFacts DEF Course
    <3>3. cc.formatted
        BY <2>1, <3>1 DEF Course, Marks
    <3>4. Honest'
        BY <2>1, <3>2, <3>3 DEF Honest
    <3>5. QED
        BY <2>1, <3>4
  <2>4. QED
      BY <2>2, <2>3
<1>4. CASE ~Fill /\ ~LockDynamic /\ ~WriteCc
  <2>1. UNCHANGED <<chip, cc, config, dynamic>>
      BY <1>4 DEF Next, Call, Identify, Fail, DecideLock, DecideUnlock, DecideFormat, DecideErase,
                  DecideWrite, PassLocks, CheckCc, LockStatic, tag
  <2>2. QED
      BY <2>1 DEF Honest
<1>5. QED
    BY <1>1, <1>2, <1>3, <1>4

LEMMA PartialLockStep ==
    ASSUME TypeOK, Course, Next
    PROVE  pc # "fill" /\ pc' = "fill" /\ call.cmd = "write" /\ ~cc.writable /\ cc.size = chip
              => ~static /\ ~dynamic
<1> SUFFICES ASSUME pc # "fill", pc' = "fill", call.cmd = "write", ~cc.writable, cc.size = chip
             PROVE  ~static /\ ~dynamic
    OBVIOUS
<1>1. PassLocks
    BY DEF Next, Call, Identify, Fail, DecideLock, DecideUnlock, DecideFormat, DecideErase,
           DecideWrite, WriteCc, CheckCc, LockDynamic, LockStatic, Fill, End
<1>2. info' \in {InfoOf(cc), NoInfo}
    BY <1>1 DEF PassLocks, Course, Seen
<1>3. PICK locked \in HardLocked(info'.size) :
          ~(info'.capacity = 0 \/ (~info'.writable /\ (locked \/ ~call.force)))
    BY <1>1 DEF PassLocks, End
<1>4. info'.size = chip /\ ~info'.writable
    BY <1>2, <1>3, InfoFacts DEF TypeOK
<1>5. ~locked
    BY <1>3, <1>4
<1>6. QED
    BY <1>3, <1>4, <1>5 DEF HardLocked, TypeOK

(* Behind a CC that tells the truth the configuration pages and the        *)
(* dynamic lock bits are reached by no command but those named, and only a *)
(* format or a forced write over a CC that looked blank makes a true CC    *)
(* claim too much (cli.py:238-265, writer.py:97-148).                      *)
THEOREM ConfigSafeBehindHonestCcCorrect == Spec => ConfigSafeBehindHonestCc
<1>1. /\ TypeOK /\ Course
      /\ [Next]_vars
      => [Honest => /\ config' # config
                          => call.cmd = "format" /\ call.capacity >= CapacityOf(chip) + PageSize
                    /\ dynamic' # dynamic => call.cmd \in {"lock", "format", "erase"}
                    /\ ~Honest' => \/ call.cmd = "format"
                                   \/ call.cmd = "write" /\ call.force /\ ~info.formatted]_vars
    BY ConfigSafeStep
<1>2. QED
    BY <1>1, LifeInvariant, PTL DEF Spec, ConfigSafeBehindHonestCc

(* A forced write goes past the check of the lock bits only on a tag that  *)
(* has none set, unless its CC can be written (writer.py:107-118).         *)
THEOREM NoWriteIntoPartialLockCorrect == Spec => NoWriteIntoPartialLock
<1>1. /\ TypeOK /\ Course
      /\ [Next]_vars
      => [pc # "fill" /\ pc' = "fill" /\ call.cmd = "write" /\ ~cc.writable /\ cc.size = chip
             => ~static /\ ~dynamic]_vars
    BY PartialLockStep
<1>2. QED
    BY <1>1, LifeInvariant, PTL DEF Spec, NoWriteIntoPartialLock
===============================================================================
