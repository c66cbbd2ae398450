-------------------------- MODULE BatchWrite_proofs --------------------------
(***************************************************************************)
(* What is proved of _write_to_tags and of the audit log for every set of  *)
(* tags, with or without clones, every count and every bound: the types,   *)
(* that no UID is written twice, that the records and the number reported  *)
(* at the end are true, and what a bad append costs the history.           *)
(***************************************************************************)
EXTENDS BatchWrite, FiniteSetTheorems, SequenceTheorems, TLAPS

(* A record is added behind the others, with what it says.                 *)
LEMMA RecordAppends ==
    ASSUME tried \in Seq(Tries), NEW e \in Entries, Record(e)
    PROVE  /\ Len(tried') = Len(tried) + 1
           /\ DOMAIN tried' = DOMAIN tried \cup {Len(tried) + 1}
           /\ Len(tried) + 1 \notin DOMAIN tried
           /\ \A k \in DOMAIN tried : tried'[k] = tried[k] /\ k < Len(tried) + 1
           /\ tried'[Len(tried) + 1].entry = e
<1>1. PICK how \in Outcomes : tried' = Append(tried, [entry |-> e, how |-> how])
    BY DEF Record
<1>2. [entry |-> e, how |-> how] \in Tries
    BY <1>1 DEF Tries
<1>3. QED
    BY <1>1, <1>2, AppendProperties, LenProperties

LEMMA PieceType ==
    ASSUME NEW e \in Entries, NEW how \in Outcomes, how # "nothing"
    PROVE  [entry |-> e, part |-> IF how \in {"written", "unended"} THEN "whole" ELSE how]
              \in Pieces
BY DEF Pieces, Outcomes

(* The file stays one of lines that are not empty, and open only if it has *)
(* a line.                                                                 *)
FileOK == LogTypeOK /\ (open => lines # << >>)

LEMMA LinesType ==
    ASSUME FileOK, NEW p \in Pieces
    PROVE  LinesWith(p) \in Seq(Seq(Pieces) \ {<< >>}) /\ LinesWith(p) # << >>
<1> DEFINE L == Seq(Pieces) \ {<< >>}
<1>1. <<p>> \in L
    OBVIOUS
<1>2. CASE ~open
  <2>1. LinesWith(p) = Append(lines, <<p>>)
      BY <1>2 DEF LinesWith
  <2>2. lines \in Seq(L)
      BY DEF FileOK, LogTypeOK
  <2>3. QED
      BY <1>1, <2>1, <2>2, AppendProperties
<1>3. CASE open
  <2>1. lines \in Seq(L) /\ lines # << >>
      BY <1>3 DEF FileOK, LogTypeOK
  <2>2. Len(lines) \in DOMAIN lines /\ lines[Len(lines)] \in L
      BY <2>1, LenProperties, ElementOfSeq, EmptySeq
  <2>3. Append(lines[Len(lines)], p) \in L
      BY <2>2, AppendProperties
  <2>4. LinesWith(p) = [lines EXCEPT ![Len(lines)] = Append(lines[Len(lines)], p)]
      BY <1>3 DEF LinesWith
  <2>5. QED
      BY <2>1, <2>2, <2>3, <2>4, ExceptSeq, LenProperties
<1>4. QED
    BY <1>2, <1>3 DEF FileOK, LogTypeOK

LEMMA RecordType ==
    ASSUME FileOK, NEW e \in Entries, Record(e)
    PROVE  FileOK'
<1>1. PICK how \in Outcomes :
          /\ tried' = Append(tried, [entry |-> e, how |-> how])
          /\ IF how = "nothing" THEN UNCHANGED <<lines, open>>
             ELSE /\ lines' = LinesWith([entry |-> e, part |->
                                  IF how \in {"written", "unended"} THEN "whole" ELSE how])
                  /\ open' = (how # "written")
    BY DEF Record
<1>2. tried' \in Seq(Tries)
  <2>1. [entry |-> e, how |-> how] \in Tries
      BY DEF Tries
  <2>2. QED
      BY <1>1, <2>1, AppendProperties DEF FileOK, LogTypeOK
<1>3. CASE how = "nothing"
    BY <1>1, <1>2, <1>3 DEF FileOK, LogTypeOK
<1>4. CASE how # "nothing"
  <2>1. lines' \in Seq(Seq(Pieces) \ {<< >>}) /\ lines' # << >> /\ open' \in BOOLEAN
      BY <1>1, <1>4, PieceType, LinesType
  <2>2. QED
      BY <1>2, <2>1 DEF FileOK, LogTypeOK
<1>5. QED
    BY <1>3, <1>4

-----------------------------------------------------------------------------
(* The types, with what makes them inductive: while it runs, the batch has *)
(* not reached its count, and a tag is held once one was connected to.     *)
Busy == {"identify", "write", "record", "count"}

BatchTypes ==
    /\ FileOK
    /\ TypeOK
    /\ pc # "ended" /\ count > 0 => done < count
    /\ pc \in Busy => held \in Tags

LEMMA EntryType ==
    ASSUME NEW t \in Tags \cup {NoTag}, NEW u \in Uids \cup {NoUid}, NEW b \in BOOLEAN
    PROVE  [of |-> t, uid |-> u, ok |-> b] \in Entries
BY BatchAssumption

(* Steps that make no record leave the file as it is.                      *)
LEMMA FileStays ==
    ASSUME FileOK, UNCHANGED logVars
    PROVE  FileOK'
BY DEF FileOK, LogTypeOK, logVars

LEMMA TypesInit == Init => BatchTypes
<1> SUFFICES ASSUME Init
             PROVE  BatchTypes
    OBVIOUS
<1>1. FileOK
    BY EmptySeq DEF Init, LogInit, FileOK, LogTypeOK
<1>2. count \in Nat /\ done = 0 /\ pc = "wait"
    BY BatchAssumption DEF Init
<1>3. /\ count > 0 => done =< count
      /\ pc # "ended" /\ count > 0 => done < count
    BY <1>2
<1>4. moves \in 0 .. MaxMoves /\ glitches \in 0 .. MaxGlitches
    BY BatchAssumption DEF Init
<1>5. live \in BOOLEAN /\ rc \in BOOLEAN
    BY DEF Init
<1>6. TypeOK
    BY <1>1, <1>3, <1>4, <1>5 DEF Init, TypeOK, FileOK
<1>7. QED
    BY <1>1, <1>2, <1>3, <1>6 DEF BatchTypes, Busy

LEMMA BecomesType ==
    ASSUME NEW c \in {"old", "torn", "new"}, NEW now \in Becomes(c)
    PROVE  now \in {"old", "torn", "new"}
BY DEF Becomes

LEMMA TypesMove ==
    ASSUME BatchTypes, NEW tag \in Tags \cup {NoTag}, Move(tag)
    PROVE  BatchTypes'
<1>1. FileOK'
    BY FileStays DEF Move, BatchTypes
<1>2. moves' \in 0 .. MaxMoves
    BY BatchAssumption DEF Move, BatchTypes, TypeOK
<1>3. QED
    BY <1>1, <1>2 DEF Move, BatchTypes, TypeOK, FileOK, Busy, batch

LEMMA TypesOther ==
    ASSUME BatchTypes, Other
    PROVE  BatchTypes'
<1>1. FileOK'
    BY EntryType, RecordType DEF Other, BatchTypes
<1>2. QED
    BY <1>1 DEF Other, BatchTypes, TypeOK, FileOK, Busy, batch, world

LEMMA GlitchType ==
    ASSUME BatchTypes, Glitch
    PROVE  glitches' \in 0 .. MaxGlitches
BY BatchAssumption DEF Glitch, BatchTypes, TypeOK

LEMMA TypesConnect ==
    ASSUME BatchTypes, Connect
    PROVE  BatchTypes'
<1>1. FileOK'
    BY FileStays DEF Connect, BatchTypes
<1>2. QED
    BY <1>1 DEF Connect, BatchTypes, TypeOK, FileOK, Busy, world

LEMMA TypesIdentify ==
    ASSUME BatchTypes, Identify
    PROVE  BatchTypes'
<1>1. FileOK'
    BY FileStays DEF Identify, BatchTypes
<1>2. held \in Tags
    BY DEF Identify, BatchTypes, Busy
<1>3. uid' \in Uids \cup {NoUid} /\ glitches' \in 0 .. MaxGlitches
    BY <1>2, GlitchType, BatchAssumption DEF Identify, BatchTypes, TypeOK
<1>4. QED
    BY <1>1, <1>2, <1>3 DEF Identify, BatchTypes, TypeOK, FileOK, Busy, world

LEMMA TypesWrite ==
    ASSUME BatchTypes, Write
    PROVE  BatchTypes'
<1>1. FileOK'
    BY FileStays DEF Write, BatchTypes
<1>2. held \in Tags
    BY DEF Write, BatchTypes, Busy
<1>3. content' \in [Tags -> {"old", "torn", "new"}]
    BY <1>2, BecomesType DEF Write, BatchTypes, TypeOK
<1>4. QED
    BY <1>1, <1>2, <1>3 DEF Write, BatchTypes, TypeOK, FileOK, Busy

LEMMA TypesRecordWrite ==
    ASSUME BatchTypes, RecordWrite
    PROVE  BatchTypes'
<1>1. held \in Tags
    BY DEF RecordWrite, BatchTypes, Busy
<1>2. FileOK'
    BY <1>1, EntryType, RecordType DEF RecordWrite, BatchTypes, TypeOK
<1>3. QED
    BY <1>1, <1>2 DEF RecordWrite, BatchTypes, TypeOK, FileOK, Busy, world

LEMMA TypesCountWrite ==
    ASSUME BatchTypes, CountWrite
    PROVE  BatchTypes'
<1>1. FileOK'
    BY FileStays DEF CountWrite, BatchTypes
<1>2. count \in Nat /\ done \in Nat /\ failed \in Nat
    BY BatchAssumption DEF BatchTypes, TypeOK
<1>3. /\ done' \in Nat /\ failed' \in Nat
      /\ count > 0 => done' =< count
      /\ pc' # "ended" /\ count > 0 => done' < count
    BY <1>2 DEF CountWrite, BatchTypes, More, Stop
<1>4. seen' \subseteq Uids
    BY DEF CountWrite, BatchTypes, TypeOK
<1>5. QED
    BY <1>1, <1>3, <1>4 DEF CountWrite, BatchTypes, TypeOK, FileOK, Busy, world, Stop

LEMMA TypesRemoved ==
    ASSUME BatchTypes, Removed
    PROVE  BatchTypes'
<1>1. FileOK'
    BY FileStays DEF Removed, BatchTypes
<1>2. glitches' \in 0 .. MaxGlitches
    BY GlitchType DEF Removed, BatchTypes, TypeOK
<1>3. QED
    BY <1>1, <1>2 DEF Removed, BatchTypes, TypeOK, FileOK, Busy, world

(* Raise and Interrupt: where the batch breaks off, only a write in        *)
(* progress leaves a trace.                                                *)
BreakOff ==
    /\ pc # "ended"
    /\ IF pc = "write" THEN \E now \in Becomes(content[held]) :
                              content' = [content EXCEPT ![held] = now]
                       ELSE UNCHANGED content
    /\ pc' = "ended"
    /\ end' \in {"interrupted", "raised"}
    /\ UNCHANGED <<field, moves, glitches, count, live, held, uid, rc, seen, done, failed, logVars>>

LEMMA BreaksOff == Raise \/ Interrupt => BreakOff
BY DEF Raise, Interrupt, Stop, BreakOff

LEMMA TypesBreakOff ==
    ASSUME BatchTypes, BreakOff
    PROVE  BatchTypes'
<1>1. FileOK'
    BY FileStays DEF BreakOff, BatchTypes
<1>2. content' \in [Tags -> {"old", "torn", "new"}]
    BY BecomesType DEF BreakOff, BatchTypes, TypeOK, Busy
<1>3. QED
    BY <1>1, <1>2 DEF BreakOff, BatchTypes, TypeOK, FileOK, Busy

LEMMA TypesStutter ==
    ASSUME BatchTypes, UNCHANGED vars
    PROVE  BatchTypes'
<1>1. FileOK'
    BY FileStays DEF vars, BatchTypes
<1>2. QED
    BY <1>1 DEF BatchTypes, TypeOK, FileOK, Busy, vars, world, batch

LEMMA TypesNext == BatchTypes /\ [Next]_vars => BatchTypes'
BY TypesMove, TypesOther, TypesConnect, TypesIdentify, TypesWrite, TypesRecordWrite,
   TypesCountWrite, TypesRemoved, BreaksOff, TypesBreakOff, TypesStutter DEF Next, Step

LEMMA TypesInvariant == Spec => []BatchTypes
BY TypesInit, TypesNext, PTL DEF Spec

(* A batch keeps its types, and never writes more tags than it was asked   *)
(* to (cli.py:54-110).                                                     *)
THEOREM BatchTypeCorrect == Spec => []TypeOK
<1>1. BatchTypes => TypeOK
    BY DEF BatchTypes
<1>2. QED
    BY <1>1, TypesInvariant, PTL

-----------------------------------------------------------------------------
(* A record of a verified write under a UID that could be read.            *)
Counted(k) == Ours(k) /\ tried[k].entry.ok /\ tried[k].entry.uid # NoUid

(* Every such UID is in the seen set, but for that of the write which is   *)
(* recorded and not yet counted; and what is being written is not in it.   *)
OnceInv ==
    /\ \A k \in DOMAIN tried : Counted(k) =>
          \/ tried[k].entry.uid \in seen
          \/ pc = "count" /\ rc /\ tried[k].entry.uid = uid
          \/ pc = "ended"
    /\ pc \in {"write", "record"} => uid = NoUid \/ uid \notin seen
    /\ WrittenOnce

LEMMA OnceInit == Init => OnceInv
BY DEF Init, LogInit, OnceInv, WrittenOnce

(* A step that makes no record changes nothing of what was recorded.       *)
LEMMA OnceSilent ==
    ASSUME OnceInv, UNCHANGED tried,
           \A k \in DOMAIN tried : Counted(k) =>
               \/ tried[k].entry.uid \in seen'
               \/ pc' = "count" /\ rc' /\ tried[k].entry.uid = uid'
               \/ pc' = "ended",
           pc' \in {"write", "record"} => uid' = NoUid \/ uid' \notin seen'
    PROVE  OnceInv'
BY DEF OnceInv, WrittenOnce, Counted, Ours

LEMMA OnceOther ==
    ASSUME BatchTypes, OnceInv, Other
    PROVE  OnceInv'
<1> DEFINE e == [of |-> NoTag, uid |-> NoUid, ok |-> TRUE]
           n == Len(tried) + 1
<1>1. e \in Entries /\ tried \in Seq(Tries) /\ Record(e)
    BY EntryType DEF Other, BatchTypes, FileOK, LogTypeOK
<1>2. /\ DOMAIN tried' = DOMAIN tried \cup {n}
      /\ \A k \in DOMAIN tried : tried'[k] = tried[k]
      /\ tried'[n].entry = e
    BY <1>1, RecordAppends
<1>3. tried'[n].entry.of = NoTag
    BY <1>2
<1>4. /\ UNCHANGED <<pc, uid, rc, seen>>
    BY DEF Other, batch
<1>5. QED
    BY <1>2, <1>3, <1>4 DEF OnceInv, WrittenOnce, Counted, Ours

LEMMA OnceRecordWrite ==
    ASSUME BatchTypes, OnceInv, RecordWrite
    PROVE  OnceInv'
<1> DEFINE e == [of |-> held, uid |-> uid, ok |-> rc]
           n == Len(tried) + 1
<1>1. e \in Entries /\ tried \in Seq(Tries) /\ Record(e)
    BY EntryType DEF RecordWrite, BatchTypes, TypeOK, FileOK, LogTypeOK
<1>2. /\ DOMAIN tried' = DOMAIN tried \cup {n}
      /\ n \notin DOMAIN tried
      /\ \A k \in DOMAIN tried : tried'[k] = tried[k] /\ k < n
      /\ tried'[n].entry = e
    BY <1>1, RecordAppends
<1>3. tried'[n].entry.uid = uid /\ tried'[n].entry.ok = rc
    BY <1>2
<1>4. pc = "record" /\ pc' = "count" /\ UNCHANGED <<uid, rc, seen>>
    BY DEF RecordWrite
<1>5. \A k \in DOMAIN tried : Counted(k) => tried[k].entry.uid \in seen
    BY <1>4 DEF OnceInv
<1>6. uid = NoUid \/ uid \notin seen
    BY <1>4 DEF OnceInv
<1>7. \A k \in DOMAIN tried' : Counted(k)' =>
          \/ tried'[k].entry.uid \in seen'
          \/ pc' = "count" /\ rc' /\ tried'[k].entry.uid = uid'
    BY <1>2, <1>3, <1>4, <1>5 DEF Counted, Ours
<1>8. WrittenOnce'
  <2> SUFFICES ASSUME NEW j \in DOMAIN tried', NEW k \in DOMAIN tried', j < k,
                      Ours(j)', Ours(k)', tried'[j].entry.ok, tried'[k].entry.ok,
                      tried'[j].entry.uid # NoUid
               PROVE  tried'[j].entry.uid # tried'[k].entry.uid
      BY DEF WrittenOnce
  <2>1. CASE k \in DOMAIN tried /\ j \in DOMAIN tried
      BY <1>2, <2>1 DEF OnceInv, WrittenOnce, Ours
  <2>2. CASE k = n /\ j \in DOMAIN tried
    <3>1. tried[j].entry.uid \in seen
        BY <1>2, <1>5, <2>2 DEF Counted, Ours
    <3>2. QED
        BY <1>2, <1>3, <1>6, <2>2, <3>1
  <2>3. CASE j = n
    <3>1. n \in Nat /\ (k \in DOMAIN tried => k < n) /\ n < k
        BY <1>1, <1>2, <2>3, LenProperties
    <3>2. k \notin DOMAIN tried /\ k # n
        BY <3>1, <1>1, LenProperties
    <3>3. QED
        BY <1>2, <3>2
  <2>4. QED
      BY <1>2, <2>1, <2>2, <2>3
<1>9. QED
    BY <1>4, <1>7, <1>8 DEF OnceInv

LEMMA OnceNext == BatchTypes /\ OnceInv /\ [Next]_vars => OnceInv'
<1> SUFFICES ASSUME BatchTypes, OnceInv, [Next]_vars
             PROVE  OnceInv'
    OBVIOUS
<1>1. CASE \E tag \in Tags \cup {NoTag} : Move(tag)
    BY <1>1, OnceSilent DEF Move, OnceInv, batch, logVars
<1>2. CASE Other
    BY <1>2, OnceOther
<1>3. CASE Connect
    BY <1>3, OnceSilent DEF Connect, OnceInv, logVars
<1>4. CASE Identify
    BY <1>4, OnceSilent DEF Identify, OnceInv, logVars
<1>5. CASE Write
    BY <1>5, OnceSilent DEF Write, OnceInv, logVars
<1>6. CASE RecordWrite
    BY <1>6, OnceRecordWrite
<1>7. CASE CountWrite
  <2>1. \A k \in DOMAIN tried : Counted(k) => tried[k].entry.uid \in seen'
      BY <1>7 DEF CountWrite, OnceInv, Counted
  <2>2. pc' \in {"removal", "ended"} /\ UNCHANGED tried
      BY <1>7 DEF CountWrite, Stop, logVars
  <2>3. QED
      BY <2>1, <2>2, OnceSilent
<1>8. CASE Removed
    BY <1>8, OnceSilent DEF Removed, OnceInv, logVars
<1>9. CASE Raise \/ Interrupt
    BY <1>9, BreaksOff, OnceSilent DEF BreakOff, OnceInv, logVars
<1>10. CASE UNCHANGED vars
    BY <1>10, OnceSilent DEF vars, OnceInv, batch, logVars
<1>11. QED
    BY <1>1, <1>2, <1>3, <1>4, <1>5, <1>6, <1>7, <1>8, <1>9, <1>10 DEF Next, Step

(* No UID is written twice in a batch, in whatever order tags are laid     *)
(* down, exchanged and lifted, with whatever errors, and whatever happens  *)
(* to the log (cli.py:58-59, 73-76, 91-93).                                *)
THEOREM WrittenOnceCorrect == Spec => []WrittenOnce
<1>1. Init => OnceInv
    BY OnceInit
<1>2. OnceInv => WrittenOnce
    BY DEF OnceInv
<1>3. QED
    BY <1>1, <1>2, OnceNext, TypesInvariant, PTL DEF Spec

-----------------------------------------------------------------------------
(* The write that is about to be recorded or counted, if it was verified,  *)
(* is on the tag.                                                          *)
TellInv ==
    /\ RecordsTell
    /\ pc \in {"record", "count"} /\ rc => content[held] = "new"

LEMMA TellInit == Init => TellInv
<1> SUFFICES ASSUME Init
             PROVE  TellInv
    OBVIOUS
<1>1. tried = << >> /\ DOMAIN tried = {} /\ pc = "wait"
    BY DEF Init, LogInit
<1>2. \A t \in Tags : content[t] = "old"
    BY DEF Init
<1>3. QED
    BY <1>1, <1>2 DEF TellInv, RecordsTell

(* What a tag holds changes only where the batch is writing, and what is   *)
(* new stays new.                                                          *)
LEMMA NewStays ==
    ASSUME BatchTypes, held \in Tags, NEW now \in Becomes(content[held]),
           content' = [content EXCEPT ![held] = now]
    PROVE  /\ content'[held] = now
           /\ \A t \in Tags : t # held => content'[t] = content[t]
           /\ \A t \in Tags : content[t] = "new" => content'[t] = "new"
BY DEF BatchTypes, TypeOK, Becomes

LEMMA OfTags ==
    ASSUME BatchTypes, NEW k \in DOMAIN tried, Ours(k)
    PROVE  tried[k].entry.of \in Tags
<1>1. tried \in Seq(Tries)
    BY DEF BatchTypes, FileOK, LogTypeOK
<1>2. tried[k] \in Tries
    BY <1>1, LenProperties, ElementOfSeq
<1>3. tried[k].entry \in Entries
    BY <1>2 DEF Tries
<1>4. QED
    BY <1>3, BatchAssumption DEF Ours

(* A step that leaves the tags and the records alone.                      *)
LEMMA TellSilent ==
    ASSUME TellInv, UNCHANGED <<tried, content>>,
           UNCHANGED held \/ pc = "wait",
           pc = "wait" => end = "running",
           pc' \in {"record", "count"} /\ rc' => content[held'] = "new",
           pc = "record" => pc' = "record" \/ end' \in {"interrupted", "raised"},
           end \in {"interrupted", "raised"} => end' = end
    PROVE  TellInv'
BY DEF TellInv, RecordsTell, Ours

LEMMA TellOther ==
    ASSUME BatchTypes, TellInv, Other
    PROVE  TellInv'
<1> DEFINE e == [of |-> NoTag, uid |-> NoUid, ok |-> TRUE]
           n == Len(tried) + 1
<1>1. e \in Entries /\ tried \in Seq(Tries) /\ Record(e)
    BY EntryType DEF Other, BatchTypes, FileOK, LogTypeOK
<1>2. /\ DOMAIN tried' = DOMAIN tried \cup {n}
      /\ \A k \in DOMAIN tried : tried'[k] = tried[k]
      /\ tried'[n].entry = e
    BY <1>1, RecordAppends
<1>3. tried'[n].entry.of = NoTag
    BY <1>2
<1>4. UNCHANGED <<pc, held, rc, end, content>>
    BY DEF Other, batch, world
<1>5. \A k \in DOMAIN tried' : Ours(k)' /\ tried'[k].entry.ok
                                 => content'[tried'[k].entry.of] = "new"
    BY <1>2, <1>3, <1>4 DEF TellInv, RecordsTell, Ours
<1>6. QED
    BY <1>2, <1>3, <1>4, <1>5, BatchAssumption DEF TellInv, RecordsTell, Ours

LEMMA TellRecordWrite ==
    ASSUME BatchTypes, TellInv, RecordWrite
    PROVE  TellInv'
<1> DEFINE e == [of |-> held, uid |-> uid, ok |-> rc]
           n == Len(tried) + 1
<1>1. e \in Entries /\ tried \in Seq(Tries) /\ Record(e)
    BY EntryType DEF RecordWrite, BatchTypes, TypeOK, FileOK, LogTypeOK
<1>2. /\ DOMAIN tried' = DOMAIN tried \cup {n}
      /\ \A k \in DOMAIN tried : tried'[k] = tried[k]
      /\ tried'[n].entry = e
    BY <1>1, RecordAppends
<1>3. tried'[n].entry.of = held /\ tried'[n].entry.ok = rc
    BY <1>2
<1>4. pc = "record" /\ pc' = "count" /\ UNCHANGED <<held, rc, end, content>>
    BY DEF RecordWrite, world
<1>5. \A k \in DOMAIN tried' : Ours(k)' /\ tried'[k].entry.ok
                                 => content'[tried'[k].entry.of] = "new"
    BY <1>2, <1>3, <1>4 DEF TellInv, RecordsTell, Ours
<1>6. ASSUME NEW t \in Tags, content'[t] # "old", \A k \in DOMAIN tried' : tried'[k].entry.of # t
      PROVE  FALSE
  <2>1. t # held
      BY <1>2, <1>3, <1>6
  <2>2. \A k \in DOMAIN tried : tried[k].entry.of # t
      BY <1>2, <1>6
  <2>3. QED
      BY <1>4, <1>6, <2>1, <2>2 DEF TellInv, RecordsTell
<1>7. QED
    BY <1>4, <1>5, <1>6 DEF TellInv, RecordsTell

(* A write, also one that is broken off.                                   *)
LEMMA TellWritten ==
    ASSUME BatchTypes, TellInv, pc = "write", UNCHANGED <<tried, held>>,
           NEW now \in Becomes(content[held]), content' = [content EXCEPT ![held] = now],
           pc' = "record" \/ end' \in {"interrupted", "raised"},
           pc' \in {"record", "count"} /\ rc' => now = "new"
    PROVE  TellInv'
<1>1. held \in Tags
    BY DEF BatchTypes, Busy
<1>2. /\ content'[held] = now
      /\ \A t \in Tags : t # held => content'[t] = content[t]
      /\ \A t \in Tags : content[t] = "new" => content'[t] = "new"
    BY <1>1, NewStays
<1>3. end = "running"
    BY DEF BatchTypes, TypeOK
<1>4. \A k \in DOMAIN tried : Ours(k) /\ tried[k].entry.ok
                                => content'[tried[k].entry.of] = "new"
    BY <1>2, OfTags DEF TellInv, RecordsTell
<1>5. \A t \in Tags : content'[t] # "old" /\ (\A k \in DOMAIN tried : tried[k].entry.of # t)
                          => t = held
    BY <1>2, <1>3 DEF TellInv, RecordsTell
<1>6. QED
    BY <1>2, <1>4, <1>5 DEF TellInv, RecordsTell, Ours

LEMMA TellNext == BatchTypes /\ TellInv /\ [Next]_vars => TellInv'
<1> SUFFICES ASSUME BatchTypes, TellInv, [Next]_vars
             PROVE  TellInv'
    OBVIOUS
<1>e. (pc = "ended" <=> end # "running") /\ rc \in BOOLEAN
    BY DEF BatchTypes, TypeOK
<1>1. CASE \E tag \in Tags \cup {NoTag} : Move(tag)
    BY <1>e, <1>1, TellSilent DEF Move, TellInv, batch, logVars
<1>2. CASE Other
    BY <1>2, TellOther
<1>3. CASE Connect
    BY <1>e, <1>3, TellSilent DEF Connect, world, logVars
<1>4. CASE Identify
    BY <1>e, <1>4, TellSilent DEF Identify, world, logVars
<1>5. CASE Write
    BY <1>5, TellWritten DEF Write, logVars
<1>6. CASE RecordWrite
    BY <1>6, TellRecordWrite
<1>7. CASE CountWrite
    BY <1>e, <1>7, TellSilent DEF CountWrite, Stop, world, logVars
<1>8. CASE Removed
    BY <1>e, <1>8, TellSilent DEF Removed, world, logVars
<1>9. CASE Raise \/ Interrupt
  <2>1. BreakOff
      BY <1>9, BreaksOff
  <2>2. CASE pc = "write"
      BY <2>1, <2>2, TellWritten DEF BreakOff, logVars
  <2>3. CASE pc # "write"
      BY <1>e, <2>1, <2>3, TellSilent DEF BreakOff, logVars
  <2>4. QED
      BY <2>2, <2>3
<1>10. CASE UNCHANGED vars
    BY <1>e, <1>10, TellSilent DEF vars, TellInv, world, batch, logVars
<1>11. QED
    BY <1>1, <1>2, <1>3, <1>4, <1>5, <1>6, <1>7, <1>8, <1>9, <1>10 DEF Next, Step

(* The records of a batch are true: a tag recorded as written holds the    *)
(* message, and one that changed has a record, but for the one at which    *)
(* the batch was broken off (cli.py:80-90).                                *)
THEOREM RecordsTellCorrect == Spec => []RecordsTell
<1>1. Init => TellInv
    BY TellInit
<1>2. TellInv => RecordsTell
    BY DEF TellInv
<1>3. QED
    BY <1>1, <1>2, TellNext, TypesInvariant, PTL DEF Spec

-----------------------------------------------------------------------------
(* The number reported: every UID in the seen set is that of a tag which   *)
(* holds the message, and done counts those and the visits that were       *)
(* recorded as verified without a UID.                                     *)
NewTags == {t \in Tags : content[t] = "new"}
Blind   == {k \in DOMAIN tried : Ours(k) /\ tried[k].entry.ok /\ tried[k].entry.uid = NoUid}

(* The verified visit without a UID that is recorded and not yet counted.  *)
Pending == IF pc = "count" /\ rc /\ uid = NoUid THEN 1 ELSE 0

SumInv ==
    /\ IsFiniteSet(seen) /\ IsFiniteSet(Blind) /\ IsFiniteSet(NewTags)
    /\ done + Pending =< Cardinality(seen) + Cardinality(Blind)
    /\ \A u \in seen : \E t \in NewTags : UidOf[t] = u
    /\ pc \in {"write", "record", "count"} => uid = NoUid \/ (uid = UidOf[held] /\ uid \notin seen)

LEMMA SumInit == Init => SumInv
<1> SUFFICES ASSUME Init
             PROVE  SumInv
    OBVIOUS
<1>1. Blind = {} /\ NewTags = {} /\ seen = {}
    BY DEF Init, LogInit, Blind, NewTags
<1>2. Pending = 0 /\ done = 0
    BY DEF Init, Pending
<1>3. QED
    BY <1>1, <1>2, FS_EmptySet DEF Init, SumInv

(* The cardinalities are numbers. *)
LEMMA SumNumbers ==
    ASSUME BatchTypes, SumInv
    PROVE  /\ Cardinality(seen) \in Nat /\ Cardinality(Blind) \in Nat
           /\ done \in Nat /\ Pending \in {0, 1}
BY FS_CardinalityType DEF SumInv, BatchTypes, TypeOK, Pending

(* A step that neither records nor counts, and writes at most the tag that *)
(* is held.                                                                *)
LEMMA SumSilent ==
    ASSUME BatchTypes, SumInv, UNCHANGED <<tried, seen, done>>,
           \/ content' = content
           \/ held \in Tags /\ \E now \in Becomes(content[held]) :
                                  content' = [content EXCEPT ![held] = now],
           pc' # "count" \/ UNCHANGED <<pc, rc, uid>>,
           pc' \in {"write", "record", "count"} =>
              uid' = NoUid \/ (uid' = UidOf[held'] /\ uid' \notin seen)
    PROVE  SumInv'
<1>1. Blind' = Blind /\ IsFiniteSet(Blind')
    BY DEF SumInv, Blind, Ours
<1>2. Pending' =< Pending /\ Pending' \in {0, 1}
    BY DEF Pending
<1>3. done' + Pending' =< Cardinality(seen') + Cardinality(Blind')
  <2>1. PICK d \in Nat, s \in Nat, b \in Nat, p \in {0, 1}, q \in {0, 1} :
            /\ d = done /\ s = Cardinality(seen) /\ b = Cardinality(Blind)
            /\ p = Pending /\ q = Pending' /\ q =< p /\ d + p =< s + b
      BY <1>2, SumNumbers DEF SumInv
  <2>2. d + q =< s + b
      BY <2>1
  <2>3. done' = d /\ Cardinality(seen') = s /\ Cardinality(Blind') = b /\ Pending' = q
      BY <1>1, <2>1
  <2>4. QED
      BY <2>2, <2>3
<1>4. NewTags \subseteq NewTags' /\ IsFiniteSet(NewTags')
  <2>1. CASE content' = content
      BY <2>1 DEF SumInv, NewTags
  <2>2. CASE held \in Tags /\ \E now \in Becomes(content[held]) :
                 content' = [content EXCEPT ![held] = now]
    <3>1. /\ \A t \in Tags : t # held => content'[t] = content[t]
          /\ \A t \in Tags : content[t] = "new" => content'[t] = "new"
        BY <2>2, NewStays
    <3>2. NewTags' \in SUBSET (NewTags \cup {held})
        BY <3>1 DEF NewTags
    <3>3. IsFiniteSet(NewTags \cup {held})
        BY FS_AddElement DEF SumInv
    <3>4. QED
        BY <3>1, <3>2, <3>3, FS_Subset DEF NewTags
  <2>3. QED
      BY <2>1, <2>2
<1>5. \A u \in seen' : \E t \in NewTags' : UidOf[t] = u
    BY <1>4 DEF SumInv
<1>6. QED
    BY <1>1, <1>3, <1>4, <1>5 DEF SumInv

LEMMA BlindGrows ==
    ASSUME BatchTypes, IsFiniteSet(Blind), NEW e \in Entries, Record(e)
    PROVE  /\ IsFiniteSet(Blind')
           /\ Cardinality(Blind') = Cardinality(Blind) +
                 IF e.of # NoTag /\ e.ok /\ e.uid = NoUid THEN 1 ELSE 0
<1> DEFINE n == Len(tried) + 1
<1>1. tried \in Seq(Tries)
    BY DEF BatchTypes, FileOK, LogTypeOK
<1>2. /\ DOMAIN tried' = DOMAIN tried \cup {n}
      /\ n \notin DOMAIN tried
      /\ \A k \in DOMAIN tried : tried'[k] = tried[k]
      /\ tried'[n].entry = e
    BY <1>1, RecordAppends
<1> HIDE DEF n
<1>3. Cardinality(Blind) \in Nat
    BY FS_CardinalityType
<1>4. CASE e.of # NoTag /\ e.ok /\ e.uid = NoUid
  <2>1. Blind' = Blind \cup {n} /\ n \notin Blind
      BY <1>2, <1>4 DEF Blind, Ours
  <2>2. QED
      BY <1>4, <2>1, FS_AddElement
<1>5. CASE ~(e.of # NoTag /\ e.ok /\ e.uid = NoUid)
  <2>1. Blind' = Blind
      BY <1>2, <1>5 DEF Blind, Ours
  <2>2. QED
      BY <1>3, <1>5, <2>1
<1>6. QED
    BY <1>4, <1>5

LEMMA SumOther ==
    ASSUME BatchTypes, SumInv, Other
    PROVE  SumInv'
<1> DEFINE e == [of |-> NoTag, uid |-> NoUid, ok |-> TRUE]
<1>1. e \in Entries /\ e.of = NoTag /\ Record(e)
    BY EntryType DEF Other
<1> HIDE DEF e
<1>2. IsFiniteSet(Blind') /\ Cardinality(Blind') = Cardinality(Blind)
  <2>1. Cardinality(Blind) \in Nat
      BY SumNumbers
  <2>2. IsFiniteSet(Blind') /\ Cardinality(Blind') = Cardinality(Blind) + 0
      BY <1>1, BlindGrows DEF SumInv
  <2>3. QED
      BY <2>1, <2>2
<1>3. UNCHANGED <<pc, held, uid, rc, seen, done, content>>
    BY DEF Other, batch, world
<1>4. NewTags' = NewTags /\ Pending' = Pending
    BY <1>3 DEF NewTags, Pending
<1>5. QED
    BY <1>2, <1>3, <1>4 DEF SumInv

LEMMA SumRecordWrite ==
    ASSUME BatchTypes, SumInv, RecordWrite
    PROVE  SumInv'
<1> DEFINE e == [of |-> held, uid |-> uid, ok |-> rc]
<1>1. e \in Entries /\ e.of = held /\ e.uid = uid /\ e.ok = rc /\ Record(e)
    BY EntryType DEF RecordWrite, BatchTypes, TypeOK
<1> HIDE DEF e
<1>2. held # NoTag /\ rc \in BOOLEAN
    BY BatchAssumption DEF RecordWrite, BatchTypes, TypeOK, Busy
<1>3. UNCHANGED <<held, uid, rc, seen, done, content>> /\ pc = "record" /\ pc' = "count"
    BY DEF RecordWrite, world
<1>4. NewTags' = NewTags /\ Pending = 0
    BY <1>3 DEF NewTags, Pending
<1>5. Pending' = IF rc /\ uid = NoUid THEN 1 ELSE 0
    BY <1>3 DEF Pending
<1>6. IsFiniteSet(Blind') /\ Cardinality(Blind') = Cardinality(Blind) + Pending'
    BY <1>1, <1>2, <1>5, BlindGrows DEF SumInv
<1>7. done' + Pending' =< Cardinality(seen') + Cardinality(Blind')
  <2>1. PICK d \in Nat, s \in Nat, b \in Nat, q \in {0, 1} :
            /\ d = done /\ s = Cardinality(seen) /\ b = Cardinality(Blind) /\ q = Pending'
            /\ d + 0 =< s + b
      BY <1>4, <1>5, SumNumbers DEF SumInv
  <2>2. d + q =< s + (b + q)
      BY <2>1
  <2>3. QED
      BY <1>3, <1>6, <2>1, <2>2
<1>8. QED
    BY <1>3, <1>4, <1>6, <1>7 DEF SumInv

LEMMA SumCountWrite ==
    ASSUME BatchTypes, TellInv, SumInv, CountWrite
    PROVE  SumInv'
<1>0. /\ pc = "count" /\ pc' \in {"removal", "ended"} /\ UNCHANGED <<tried, content, held, uid, rc>>
      /\ seen' = IF rc /\ uid # NoUid THEN seen \cup {uid} ELSE seen
      /\ done' = IF rc THEN done + 1 ELSE done
    BY DEF CountWrite, Stop, logVars, world
<1>1. Blind' = Blind /\ NewTags' = NewTags /\ Pending' = 0
    BY <1>0 DEF Blind, Ours, NewTags, Pending
<1>2. PICK d \in Nat, s \in Nat, b \in Nat, p \in {0, 1} :
          /\ d = done /\ s = Cardinality(seen) /\ b = Cardinality(Blind) /\ p = Pending
          /\ d + p =< s + b
    BY SumNumbers DEF SumInv
<1>3. CASE rc /\ uid # NoUid
  <2>1. uid = UidOf[held] /\ uid \notin seen /\ held \in NewTags
      BY <1>0, <1>3 DEF SumInv, TellInv, NewTags, BatchTypes, Busy
  <2>2. IsFiniteSet(seen') /\ Cardinality(seen') = s + 1
      BY <1>0, <1>2, <1>3, <2>1, FS_AddElement DEF SumInv
  <2>3. p = 0 /\ (d + 1) + 0 =< (s + 1) + b
      BY <1>2, <1>3 DEF Pending
  <2>4. done' = d + 1
      BY <1>0, <1>2, <1>3
  <2>5. done' + Pending' =< Cardinality(seen') + Cardinality(Blind')
      BY <1>1, <1>2, <2>2, <2>3, <2>4
  <2>6. \A u \in seen' : \E t \in NewTags' : UidOf[t] = u
      BY <1>0, <1>1, <1>3, <2>1 DEF SumInv
  <2>7. QED
      BY <1>0, <1>1, <2>2, <2>5, <2>6 DEF SumInv
<1>4. CASE rc /\ uid = NoUid
  <2>1. p = 1 /\ done' = d + 1 /\ seen' = seen
      BY <1>0, <1>2, <1>4 DEF Pending
  <2>2. (d + 1) + 0 =< s + b
      BY <1>2, <2>1
  <2>3. done' + Pending' =< Cardinality(seen') + Cardinality(Blind')
      BY <1>1, <1>2, <2>1, <2>2
  <2>4. QED
      BY <1>0, <1>1, <2>1, <2>3 DEF SumInv
<1>5. CASE ~rc
  <2>1. done' = d /\ seen' = seen
      BY <1>0, <1>2, <1>5
  <2>2. d + 0 =< s + b
      BY <1>2
  <2>3. done' + Pending' =< Cardinality(seen') + Cardinality(Blind')
      BY <1>1, <1>2, <2>1, <2>2
  <2>4. QED
      BY <1>0, <1>1, <2>1, <2>3 DEF SumInv
<1>6. QED
    BY <1>3, <1>4, <1>5

LEMMA SumNext == BatchTypes /\ TellInv /\ SumInv /\ [Next]_vars => SumInv'
<1> SUFFICES ASSUME BatchTypes, TellInv, SumInv, [Next]_vars
             PROVE  SumInv'
    OBVIOUS
<1>0. pc \in {"write", "record", "count"} =>
         uid = NoUid \/ (uid = UidOf[held] /\ uid \notin seen)
    BY DEF SumInv
<1>h. pc = "write" => held \in Tags
    BY DEF BatchTypes, Busy
<1>1. CASE \E tag \in Tags \cup {NoTag} : Move(tag)
    BY <1>0, <1>1, SumSilent DEF Move, batch, logVars
<1>2. CASE Other
    BY <1>2, SumOther
<1>3. CASE Connect
    BY <1>3, SumSilent DEF Connect, world, logVars
<1>4. CASE Identify
    BY <1>4, SumSilent DEF Identify, world, logVars
<1>5. CASE Write
    BY <1>0, <1>h, <1>5, SumSilent DEF Write, logVars
<1>6. CASE RecordWrite
    BY <1>6, SumRecordWrite
<1>7. CASE CountWrite
    BY <1>7, SumCountWrite
<1>8. CASE Removed
    BY <1>8, SumSilent DEF Removed, world, logVars
<1>9. CASE Raise \/ Interrupt
    BY <1>h, <1>9, BreaksOff, SumSilent DEF BreakOff, logVars
<1>10. CASE UNCHANGED vars
    BY <1>0, <1>10, SumSilent DEF vars, world, batch, logVars
<1>11. QED
    BY <1>1, <1>2, <1>3, <1>4, <1>5, <1>6, <1>7, <1>8, <1>9, <1>10 DEF Next, Step

(* As many tags hold the message as there are UIDs in the seen set.        *)
LEMMA SeenAreNew ==
    ASSUME SumInv
    PROVE  Cardinality(seen) =< Cardinality(NewTags)
<1> DEFINE tagOf == [u \in seen |-> CHOOSE t \in NewTags : UidOf[t] = u]
<1>1. \A u \in seen : tagOf[u] \in NewTags /\ UidOf[tagOf[u]] = u
    BY DEF SumInv
<1>2. tagOf \in [seen -> NewTags]
    BY <1>1
<1>3. \A u, v \in seen : tagOf[u] = tagOf[v] => u = v
    BY <1>1
<1> HIDE DEF tagOf
<1>4. tagOf \in Injection(seen, NewTags)
    BY <1>2, <1>3 DEF Injection, IsInjective
<1>5. QED
    BY <1>4, FS_Injection DEF SumInv

(* The number a batch reports, however it ends, is at most that of the     *)
(* tags that hold the message, and of the verified visits to a tag whose   *)
(* UID could not be read (cli.py:91-96, 107-109).                          *)
THEOREM CountCorrect == Spec => []CountIsTrue
<1>1. BatchTypes /\ SumInv => CountIsTrue
  <2> SUFFICES ASSUME BatchTypes, SumInv
               PROVE  done =< Cardinality(NewTags) + Cardinality(Blind)
      BY DEF CountIsTrue, NewTags, Blind
  <2>1. PICK d \in Nat, s \in Nat, b \in Nat, p \in {0, 1} :
            /\ d = done /\ s = Cardinality(seen) /\ b = Cardinality(Blind) /\ p = Pending
            /\ d + p =< s + b
      BY SumNumbers DEF SumInv
  <2>2. PICK n \in Nat : n = Cardinality(NewTags) /\ s =< n
      BY <2>1, SeenAreNew, FS_CardinalityType DEF SumInv
  <2>3. d =< n + b
      BY <2>1, <2>2
  <2>4. QED
      BY <2>1, <2>2, <2>3
<1>2. QED
    BY <1>1, SumInit, SumNext, TellInit, TellNext, TypesInvariant, PTL DEF Spec

-----------------------------------------------------------------------------
(* Two sets of numbers are paired in ascending order, when the n-th of one  *)
(* and the n-th of the other have the same value.                           *)
Paired(S, T, f, g) ==
    /\ Cardinality(S) = Cardinality(T)
    /\ \A n \in 1 .. Cardinality(S) : /\ \E k \in S : Rank(S, k) = n
                                      /\ \E k \in T : Rank(T, k) = n
    /\ \A k \in S, j \in T : Rank(S, k) = Rank(T, j) => f[k] = g[j]

(* Only the numbers of the sets count.                                      *)
LEMMA PairedAgree ==
    ASSUME NEW S, NEW T, NEW f, NEW g, NEW p, NEW q, Paired(S, T, f, g),
           \A k \in S : p[k] = f[k], \A k \in T : q[k] = g[k]
    PROVE  Paired(S, T, p, q)
BY DEF Paired

(* A number above the others comes last, and the others stay in place.      *)
LEMMA TopRank ==
    ASSUME NEW S \in SUBSET Nat, IsFiniteSet(S), NEW a \in Nat, \A k \in S : k < a
    PROVE  /\ Cardinality(S) \in Nat
           /\ Cardinality(S \cup {a}) = Cardinality(S) + 1
           /\ Rank(S \cup {a}, a) = Cardinality(S) + 1
           /\ \A k \in S : /\ Rank(S \cup {a}, k) = Rank(S, k)
                           /\ Rank(S, k) \in Nat /\ Rank(S, k) =< Cardinality(S)
<1>1. a \notin S
    OBVIOUS
<1>2. Cardinality(S) \in Nat /\ Cardinality(S \cup {a}) = Cardinality(S) + 1
    BY <1>1, FS_AddElement, FS_CardinalityType
<1>3. {i \in S \cup {a} : i =< a} = S \cup {a}
  <2>1. ASSUME NEW i \in S \cup {a}
        PROVE  i =< a
    <3>1. CASE i \in S
      <4>1. i \in Nat /\ i < a
          BY <3>1
      <4>2. QED
          BY <4>1
    <3>2. QED
        BY <3>1
  <2>2. QED
      BY <2>1
<1>4. ASSUME NEW k \in S
      PROVE  /\ Rank(S \cup {a}, k) = Rank(S, k)
             /\ Rank(S, k) \in Nat /\ Rank(S, k) =< Cardinality(S)
  <2>1. {i \in S \cup {a} : i =< k} = {i \in S : i =< k}
      OBVIOUS
  <2>2. {i \in S : i =< k} \in SUBSET S
      OBVIOUS
  <2>3. QED
      BY <2>1, <2>2, FS_Subset, FS_CardinalityType DEF Rank
<1>5. QED
    BY <1>2, <1>3, <1>4 DEF Rank

(* So two numbers above the others can be added to a pairing and taken out. *)
LEMMA PairedTop ==
    ASSUME NEW S \in SUBSET Nat, IsFiniteSet(S), NEW a \in Nat, \A k \in S : k < a,
           NEW T \in SUBSET Nat, IsFiniteSet(T), NEW b \in Nat, \A k \in T : k < b,
           NEW f, NEW g
    PROVE  Paired(S \cup {a}, T \cup {b}, f, g) <=> Paired(S, T, f, g) /\ f[a] = g[b]
<1>1. PICK s \in Nat : /\ s = Cardinality(S)
                       /\ Cardinality(S \cup {a}) = s + 1 /\ Rank(S \cup {a}, a) = s + 1
                       /\ \A k \in S : /\ Rank(S \cup {a}, k) = Rank(S, k)
                                       /\ Rank(S, k) \in Nat /\ Rank(S, k) =< s
    BY TopRank
<1>2. PICK t \in Nat : /\ t = Cardinality(T)
                       /\ Cardinality(T \cup {b}) = t + 1 /\ Rank(T \cup {b}, b) = t + 1
                       /\ \A k \in T : /\ Rank(T \cup {b}, k) = Rank(T, k)
                                       /\ Rank(T, k) \in Nat /\ Rank(T, k) =< t
    BY TopRank
<1>3. ASSUME Paired(S, T, f, g), f[a] = g[b]
      PROVE  Paired(S \cup {a}, T \cup {b}, f, g)
  <2>1. s = t /\ Cardinality(S \cup {a}) = Cardinality(T \cup {b})
      BY <1>1, <1>2, <1>3 DEF Paired
  <2>2. ASSUME NEW n \in 1 .. s + 1
        PROVE  /\ \E k \in S \cup {a} : Rank(S \cup {a}, k) = n
               /\ \E k \in T \cup {b} : Rank(T \cup {b}, k) = n
    <3>1. CASE n = s + 1
        BY <1>1, <1>2, <2>1, <3>1
    <3>2. CASE n # s + 1
      <4>1. n \in 1 .. s
          BY <3>2
      <4>2. /\ \E k \in S : Rank(S, k) = n
            /\ \E k \in T : Rank(T, k) = n
          BY <1>1, <1>3, <4>1 DEF Paired
      <4>3. QED
          BY <1>1, <1>2, <4>2
    <3>3. QED
        BY <3>1, <3>2
  <2>3. ASSUME NEW k \in S \cup {a}, NEW j \in T \cup {b},
               Rank(S \cup {a}, k) = Rank(T \cup {b}, j)
        PROVE  f[k] = g[j]
    <3>1. CASE k \in S /\ j \in T
        BY <1>1, <1>2, <1>3, <2>3, <3>1 DEF Paired
    <3>2. CASE k = a /\ j = b
        BY <1>3, <3>2
    <3>3. ~(k = a /\ j \in T) /\ ~(k \in S /\ j = b)
        BY <1>1, <1>2, <2>1, <2>3
    <3>4. QED
        BY <3>1, <3>2, <3>3
  <2>4. QED
      BY <1>1, <2>1, <2>2, <2>3 DEF Paired
<1>4. ASSUME Paired(S \cup {a}, T \cup {b}, f, g)
      PROVE  Paired(S, T, f, g) /\ f[a] = g[b]
  <2>1. s = t
      BY <1>1, <1>2, <1>4 DEF Paired
  <2>2. f[a] = g[b]
      BY <1>1, <1>2, <1>4, <2>1 DEF Paired
  <2>3. ASSUME NEW n \in 1 .. s
        PROVE  /\ \E k \in S : Rank(S, k) = n
               /\ \E k \in T : Rank(T, k) = n
    <3>1. n \in 1 .. s + 1 /\ n # s + 1
        OBVIOUS
    <3>2. /\ \E k \in S \cup {a} : Rank(S \cup {a}, k) = n
          /\ \E k \in T \cup {b} : Rank(T \cup {b}, k) = n
        BY <1>1, <1>4, <3>1 DEF Paired
    <3>3. QED
        BY <1>1, <1>2, <2>1, <3>1, <3>2
  <2>4. ASSUME NEW k \in S, NEW j \in T, Rank(S, k) = Rank(T, j)
        PROVE  f[k] = g[j]
      BY <1>1, <1>2, <1>4, <2>4 DEF Paired
  <2>5. QED
      BY <1>1, <1>2, <2>1, <2>2, <2>3, <2>4 DEF Paired
<1>5. QED
    BY <1>3, <1>4

(* What the n-th numbers of two paired sets stand for is the same.          *)
LEMMA PairedInOrder ==
    ASSUME NEW S \in SUBSET Nat, IsFiniteSet(S), NEW T, NEW f, NEW g, Paired(S, T, f, g)
    PROVE  /\ DOMAIN InOrder(S) = 1 .. Cardinality(S)
           /\ DOMAIN InOrder(T) = DOMAIN InOrder(S)
           /\ \A n \in DOMAIN InOrder(S) :
                 InOrder(S)[n] \in S /\ InOrder(T)[n] \in T /\ f[InOrder(S)[n]] = g[InOrder(T)[n]]
<1>1. /\ DOMAIN InOrder(S) = 1 .. Cardinality(S)
      /\ DOMAIN InOrder(T) = 1 .. Cardinality(S)
    BY DEF InOrder, Paired
<1>2. ASSUME NEW n \in 1 .. Cardinality(S)
      PROVE  InOrder(S)[n] \in S /\ InOrder(T)[n] \in T /\ f[InOrder(S)[n]] = g[InOrder(T)[n]]
  <2>1. /\ InOrder(S)[n] = CHOOSE k \in S : Rank(S, k) = n
        /\ InOrder(T)[n] = CHOOSE k \in T : Rank(T, k) = n
      BY <1>1 DEF InOrder, Paired
  <2>2. /\ \E k \in S : Rank(S, k) = n
        /\ \E k \in T : Rank(T, k) = n
      BY DEF Paired
  <2>3. /\ InOrder(S)[n] \in S /\ Rank(S, InOrder(S)[n]) = n
        /\ InOrder(T)[n] \in T /\ Rank(T, InOrder(T)[n]) = n
      BY <2>1, <2>2
  <2>4. QED
      BY <2>3 DEF Paired
<1>3. QED
    BY <1>1, <1>2

-----------------------------------------------------------------------------
(* What the history shows, line by line, and the records that survive are   *)
(* paired; the file is open when the last record that left a trace has no   *)
(* line end, and that record is lost as soon as another one follows.        *)
Good      == {l \in DOMAIN lines : Parses(lines[l]) /\ lines[l][1].entry.uid \in AnyUid}
Survivors == {k \in DOMAIN tried : Survives(k)}
Last(k)   == k \in DOMAIN tried /\ Landed(tried[k]) /\ After(k) = {}
Heads     == [l \in DOMAIN lines |-> lines[l][1].entry]
Said      == [k \in DOMAIN tried |-> tried[k].entry]

DamageInv ==
    /\ Paired(Good, Survivors, Heads, Said)
    /\ ~open => \A k \in Nat : Last(k) => tried[k].how = "written"
    /\ open => \E k \in Nat : /\ Last(k) /\ tried[k].how # "written"
                              /\ Len(lines) \in Good <=> k \in Survivors

LEMMA NumbersOf ==
    ASSUME FileOK
    PROVE  /\ Len(lines) \in Nat /\ DOMAIN lines = 1 .. Len(lines)
           /\ Len(tried) \in Nat /\ DOMAIN tried = 1 .. Len(tried)
           /\ Good \in SUBSET Nat /\ IsFiniteSet(Good)
           /\ Survivors \in SUBSET Nat /\ IsFiniteSet(Survivors)
<1>1. /\ Len(lines) \in Nat /\ DOMAIN lines = 1 .. Len(lines)
      /\ Len(tried) \in Nat /\ DOMAIN tried = 1 .. Len(tried)
    BY LenProperties DEF FileOK, LogTypeOK
<1>2. Good \in SUBSET (1 .. Len(lines)) /\ Survivors \in SUBSET (1 .. Len(tried))
    BY <1>1 DEF Good, Survivors
<1>3. IsFiniteSet(1 .. Len(lines)) /\ IsFiniteSet(1 .. Len(tried))
    BY <1>1, FS_Interval
<1>4. IsFiniteSet(Good) /\ IsFiniteSet(Survivors)
    BY <1>2, <1>3, FS_Subset
<1>5. QED
    BY <1>1, <1>2, <1>4

(* A record that leaves nothing in the file changes neither side.           *)
LEMMA DamageNothing ==
    ASSUME FileOK, DamageInv, NEW e \in Entries,
           tried' = Append(tried, [entry |-> e, how |-> "nothing"]), UNCHANGED <<lines, open>>
    PROVE  DamageInv'
<1>0. PICK t \in Nat : t = Len(tried) + 1
    BY NumbersOf
<1>1. /\ Len(tried) \in Nat /\ DOMAIN tried = 1 .. Len(tried)
      /\ Len(tried') = t /\ DOMAIN tried' = DOMAIN tried \cup {t}
      /\ t \notin DOMAIN tried
      /\ \A k \in DOMAIN tried : tried'[k] = tried[k]
      /\ tried'[t] = [entry |-> e, how |-> "nothing"]
    BY <1>0, NumbersOf, AppendProperties DEF FileOK, LogTypeOK, Tries, Outcomes
<1>2. ~Landed(tried'[t]) /\ tried'[t].how = "nothing"
    BY <1>1 DEF Landed
<1>3. ASSUME NEW k \in DOMAIN tried
      PROVE  Before(k)' = Before(k) /\ After(k)' = After(k)
  <2>1. /\ k \in Nat /\ k =< Len(tried)
        /\ 1 .. k - 1 \subseteq DOMAIN tried
        /\ \A j \in 1 .. k - 1 : j + 1 .. k - 1 \subseteq DOMAIN tried
        /\ k + 1 .. Len(tried') = (k + 1 .. Len(tried)) \cup {t}
        /\ k + 1 .. Len(tried) \subseteq DOMAIN tried
      BY <1>1
  <2>2. Before(k)' = Before(k)
      BY <1>1, <2>1 DEF Before, Landed
  <2>3. After(k)' = After(k)
      BY <1>1, <1>2, <2>1 DEF After, Landed
  <2>4. QED
      BY <2>2, <2>3
<1>4. ASSUME NEW k \in Nat
      PROVE  Last(k)' <=> Last(k)
    BY <1>1, <1>2, <1>3 DEF Last, Landed
<1>5. ASSUME NEW k \in DOMAIN tried
      PROVE  Survives(k)' <=> Survives(k)
  <2>1. Before(k) \subseteq DOMAIN tried
      BY <1>1 DEF Before
  <2>2. QED
      BY <1>1, <1>3, <2>1 DEF Survives
<1>6. ~Survives(t)'
    BY <1>1, <1>2 DEF Survives
<1>7. Survivors' = Survivors
    BY <1>1, <1>5, <1>6 DEF Survivors
<1>8. Good' = Good /\ Heads' = Heads
    BY DEF Good, Heads, Parses
<1>9. \A k \in Survivors : Said'[k] = Said[k]
    BY <1>1 DEF Said, Survivors
<1>10. Paired(Good, Survivors, Heads, Said')
    BY <1>9, PairedAgree DEF DamageInv
<1>11. QED
    BY <1>1, <1>4, <1>7, <1>8, <1>10 DEF DamageInv, Last

(* A record that leaves a trace is the last one. It costs the one before it *)
(* that has no line end, and survives itself if there is none such.         *)
Torn(k) == Last(k) /\ tried[k].how # "written"

LEMMA TraceLands ==
    ASSUME FileOK, NEW e \in Entries, NEW how \in Outcomes, how # "nothing",
           tried' = Append(tried, [entry |-> e, how |-> how]),
           NEW t \in Nat, t = Len(tried) + 1
    PROVE  /\ t \in DOMAIN tried' /\ tried'[t].how = how /\ Said'[t] = e
           /\ \A k \in Survivors : k < t /\ Said'[k] = Said[k]
           /\ \A k \in Nat : Last(k)' <=> k = t
           /\ \A k \in DOMAIN tried : k \in Survivors' <=> k \in Survivors /\ ~Torn(k)
           /\ t \in Survivors' <=> how \in {"written", "unended"} /\ \A k \in Nat : ~Torn(k)
           /\ \A k \in Survivors' : k \in DOMAIN tried \cup {t}
<1>1. /\ Len(tried) \in Nat /\ DOMAIN tried = 1 .. Len(tried)
      /\ Len(tried') = t /\ DOMAIN tried' = DOMAIN tried \cup {t}
      /\ t \notin DOMAIN tried
      /\ \A k \in DOMAIN tried : tried'[k] = tried[k] /\ k < t
      /\ tried'[t] = [entry |-> e, how |-> how]
    BY NumbersOf, AppendProperties DEF FileOK, LogTypeOK, Tries, Outcomes
<1>2. Landed(tried'[t]) /\ tried'[t].how = how /\ Said'[t] = e
    BY <1>1 DEF Landed, Said
<1>3. ASSUME NEW k \in DOMAIN tried
      PROVE  Before(k)' = Before(k) /\ After(k)' = After(k) \cup {t}
  <2>1. /\ k \in Nat /\ k =< Len(tried)
        /\ 1 .. k - 1 \subseteq DOMAIN tried
        /\ \A j \in 1 .. k - 1 : j + 1 .. k - 1 \subseteq DOMAIN tried
        /\ k + 1 .. Len(tried') = (k + 1 .. Len(tried)) \cup {t}
        /\ k + 1 .. Len(tried) \subseteq DOMAIN tried
      BY <1>1
  <2>2. Before(k)' = Before(k)
      BY <1>1, <2>1 DEF Before, Landed
  <2>3. After(k)' = After(k) \cup {t}
      BY <1>1, <1>2, <2>1 DEF After, Landed
  <2>4. QED
      BY <2>2, <2>3
<1>4. After(t)' = {}
  <2>1. t + 1 .. Len(tried') = {}
      BY <1>1
  <2>2. QED
      BY <2>1 DEF After
<1>5. \A j : j \in Before(t)' <=> Last(j)
  <2>1. t - 1 = Len(tried)
      BY <1>1
  <2>2. Before(t)' = {j \in DOMAIN tried : /\ Landed(tried[j])
                                          /\ \A i \in j + 1 .. Len(tried) : ~Landed(tried[i])}
    <3>1. \A j \in 1 .. Len(tried) : j + 1 .. Len(tried) \subseteq DOMAIN tried
        BY <1>1
    <3>2. QED
        BY <1>1, <2>1, <3>1 DEF Before, Landed
  <2>3. QED
      BY <2>2 DEF Last, After
<1>6. ASSUME NEW k \in DOMAIN tried
      PROVE  Survives(k)' <=> Survives(k) /\ ~Torn(k)
  <2>1. Before(k) \subseteq DOMAIN tried
      BY <1>1 DEF Before
  <2>2. Survives(k)' <=> tried[k].how = "written" /\ \A j \in Before(k) : tried[j].how = "written"
      BY <1>1, <1>3, <2>1 DEF Survives
  <2>3. QED
      BY <2>2 DEF Survives, Torn, Last, Landed
<1>7. Survives(t)' <=> how \in {"written", "unended"} /\ \A k \in Nat : ~Torn(k)
  <2>1. \A j \in Before(t)' : tried'[j] = tried[j] /\ j \in Nat
      BY <1>1, <1>5 DEF Last
  <2>2. (\A j \in Before(t)' : tried'[j].how = "written") <=> \A k \in Nat : ~Torn(k)
      BY <1>5, <2>1 DEF Torn
  <2>3. Survives(t)' <=> /\ tried'[t].how = "written" \/ tried'[t].how = "unended"
                        /\ \A j \in Before(t)' : tried'[j].how = "written"
      BY <1>4 DEF Survives
  <2>4. QED
      BY <1>2, <2>2, <2>3
<1>8. ASSUME NEW k \in Nat
      PROVE  Last(k)' <=> k = t
    BY <1>1, <1>2, <1>3, <1>4 DEF Last
<1>9. QED
    BY <1>1, <1>2, <1>6, <1>7, <1>8 DEF Survivors, Said

(* On a line of its own, it is shown when it is complete.                   *)
LEMMA DamageOwnLine ==
    ASSUME FileOK, DamageInv, ~open, NEW e \in Entries, NEW how \in Outcomes, how # "nothing",
           tried' = Append(tried, [entry |-> e, how |-> how]), open' = (how # "written"),
           NEW p \in Pieces, p.entry = e,
           p.part = "whole" <=> how \in {"written", "unended"},
           lines' = Append(lines, <<p>>)
    PROVE  DamageInv'
<1>1. PICK t \in Nat, l \in Nat : t = Len(tried) + 1 /\ l = Len(lines) + 1
    BY NumbersOf
<1>2. \A k \in Nat : ~Torn(k)
    BY DEF DamageInv, Torn
<1>3. /\ Said'[t] = e
      /\ \A k \in Survivors : k < t /\ Said'[k] = Said[k]
      /\ \A k \in Nat : Last(k)' <=> k = t
      /\ tried'[t].how = how
      /\ Survivors' = IF how \in {"written", "unended"} THEN Survivors \cup {t} ELSE Survivors
  <2>1. /\ t \in DOMAIN tried' /\ tried'[t].how = how /\ Said'[t] = e
        /\ \A k \in Survivors : k < t /\ Said'[k] = Said[k]
        /\ \A k \in Nat : Last(k)' <=> k = t
        /\ \A k \in DOMAIN tried : k \in Survivors' <=> k \in Survivors /\ ~Torn(k)
        /\ t \in Survivors' <=> how \in {"written", "unended"} /\ \A k \in Nat : ~Torn(k)
        /\ \A k \in Survivors' : k \in DOMAIN tried \cup {t}
      BY <1>1, TraceLands
  <2>2. Survivors \subseteq DOMAIN tried /\ DOMAIN tried \subseteq Nat
      BY NumbersOf DEF Survivors
  <2>3. /\ \A k \in Survivors' : k \in Survivors \/ k = t
        /\ \A k \in Survivors : k \in Survivors'
        /\ t \in Survivors' <=> how \in {"written", "unended"}
      BY <1>2, <2>1, <2>2
  <2>4. Survivors' = IF how \in {"written", "unended"} THEN Survivors \cup {t} ELSE Survivors
    <3>1. CASE how \in {"written", "unended"}
        BY <2>3, <3>1
    <3>2. CASE how \notin {"written", "unended"}
      <4>1. t \notin Survivors'
          BY <2>3, <3>2
      <4>2. \A k : k \in Survivors' <=> k \in Survivors
          BY <2>3, <4>1
      <4>3. Survivors' = Survivors
          BY <4>2
      <4>4. QED
          BY <3>2, <4>3
    <3>3. QED
        BY <3>1, <3>2
  <2>5. QED
      BY <2>1, <2>4
<1>4. /\ Heads'[l] = e
      /\ \A k \in Good : k < l /\ Heads'[k] = Heads[k]
      /\ Len(lines') = l
      /\ Good' = IF how \in {"written", "unended"} THEN Good \cup {l} ELSE Good
  <2>1. /\ DOMAIN lines = 1 .. Len(lines) /\ Len(lines) \in Nat
        /\ Len(lines') = l /\ DOMAIN lines' = DOMAIN lines \cup {l} /\ l \notin DOMAIN lines
        /\ \A k \in DOMAIN lines : lines'[k] = lines[k] /\ k < l
        /\ lines'[l] = <<p>>
    <3>1. <<p>> \in Seq(Pieces) \ {<< >>} /\ lines \in Seq(Seq(Pieces) \ {<< >>})
        BY DEF FileOK, LogTypeOK
    <3>2. QED
        BY <1>1, <3>1, NumbersOf, AppendProperties
  <2>2. e.uid \in AnyUid
      BY LogAssumption DEF AnyUid
  <2>3. Parses(<<p>>) <=> how \in {"written", "unended"}
      BY DEF Parses
  <2>4. QED
      BY <2>1, <2>2, <2>3 DEF Good, Heads
<1>5. Paired(Good, Survivors, Heads', Said')
    BY <1>3, <1>4, PairedAgree DEF DamageInv
<1>6. Paired(Good', Survivors', Heads', Said')
  <2>1. Good \in SUBSET Nat /\ IsFiniteSet(Good) /\ Survivors \in SUBSET Nat /\ IsFiniteSet(Survivors)
      BY NumbersOf
  <2>2. CASE how \in {"written", "unended"}
    <3>1. \A k \in Good : k < l
        BY <1>4
    <3>2. \A k \in Survivors : k < t
        BY <1>3
    <3>3. Paired(Good \cup {l}, Survivors \cup {t}, Heads', Said')
        BY <1>3, <1>4, <1>5, <2>1, <3>1, <3>2, PairedTop
    <3>4. QED
        BY <1>3, <1>4, <2>2, <3>3
  <2>3. QED
      BY <1>3, <1>4, <1>5, <2>2
<1>7. l \in Good' <=> t \in Survivors'
    BY <1>1, <1>3, <1>4
<1>8. ~open' => \A k \in Nat : Last(k)' => tried'[k].how = "written"
    BY <1>3
<1>9. open' => \E k \in Nat : /\ Last(k)' /\ tried'[k].how # "written"
                              /\ Len(lines') \in Good' <=> k \in Survivors'
    BY <1>3, <1>4, <1>7
<1>10. QED
    BY <1>6, <1>8, <1>9 DEF DamageInv

(* Behind a record without a line end, both are lost, and no other.         *)
LEMMA DamageSharedLine ==
    ASSUME FileOK, DamageInv, open, NEW e \in Entries, NEW how \in Outcomes, how # "nothing",
           tried' = Append(tried, [entry |-> e, how |-> how]), open' = (how # "written"),
           NEW p \in Pieces,
           lines' = [lines EXCEPT ![Len(lines)] = Append(@, p)]
    PROVE  DamageInv'
<1>1. PICK t \in Nat, l \in Nat : t = Len(tried) + 1 /\ l = Len(lines)
  <2>1. Len(tried) + 1 \in Nat /\ Len(lines) \in Nat
      BY NumbersOf
  <2>2. QED
      BY <2>1
<1>2. PICK m \in Nat : Torn(m) /\ (l \in Good <=> m \in Survivors)
    BY <1>1 DEF DamageInv, Torn
<1>3. \A k \in Nat : k \in Survivors /\ k # m => k < m /\ ~Torn(k)
  <2> SUFFICES ASSUME NEW k \in Survivors, k # m
               PROVE  k < m /\ ~Torn(k)
      OBVIOUS
  <2>1. k \in 1 .. Len(tried) /\ m \in 1 .. Len(tried) /\ Len(tried) \in Nat
      BY <1>2, NumbersOf DEF Survivors, Torn, Last
  <2>2. Landed(tried[k]) /\ Landed(tried[m]) /\ After(m) = {}
      BY <1>2 DEF Survivors, Survives, Landed, Torn, Last
  <2>3. ~(k > m)
      BY <2>1, <2>2 DEF After
  <2>4. k < m
      BY <2>1, <2>3
  <2>5. m \in k + 1 .. Len(tried)
      BY <2>1, <2>4
  <2>6. m \in After(k)
      BY <2>2, <2>5 DEF After
  <2>7. QED
      BY <2>4, <2>6 DEF Torn, Last
<1>4. /\ \A k \in Survivors : Said'[k] = Said[k]
      /\ \A k \in Nat : Last(k)' <=> k = t
      /\ tried'[t].how = how
      /\ Survivors' = Survivors \ {m} /\ t \notin Survivors'
  <2>1. /\ t \in DOMAIN tried' /\ tried'[t].how = how /\ Said'[t] = e
        /\ \A k \in Survivors : k < t /\ Said'[k] = Said[k]
        /\ \A k \in Nat : Last(k)' <=> k = t
        /\ \A k \in DOMAIN tried : k \in Survivors' <=> k \in Survivors /\ ~Torn(k)
        /\ t \in Survivors' <=> how \in {"written", "unended"} /\ \A k \in Nat : ~Torn(k)
        /\ \A k \in Survivors' : k \in DOMAIN tried \cup {t}
      BY <1>1, TraceLands
  <2>2. Survivors \subseteq DOMAIN tried /\ DOMAIN tried \subseteq Nat
      BY NumbersOf DEF Survivors
  <2>3. QED
      BY <1>2, <1>3, <2>1, <2>2
<1>5. /\ \A k \in Good \ {l} : k < l /\ Heads'[k] = Heads[k]
      /\ Len(lines') = l
      /\ Good' = Good \ {l}
  <2>1. /\ lines \in Seq(Seq(Pieces) \ {<< >>}) /\ l \in DOMAIN lines
        /\ DOMAIN lines = 1 .. l /\ Len(lines) = l
        /\ lines[l] \in Seq(Pieces) /\ lines[l] # << >>
      BY <1>1, NumbersOf, EmptySeq, ElementOfSeq DEF FileOK, LogTypeOK
  <2>2. /\ DOMAIN lines' = DOMAIN lines
        /\ \A k \in DOMAIN lines : k # l => lines'[k] = lines[k]
        /\ lines'[l] = Append(lines[l], p)
      BY <1>1, <2>1
  <2>3. Len(lines') = l
    <3>1. lines' \in Seq(Seq(Pieces) \ {<< >>})
      <4>1. Append(lines[l], p) \in Seq(Pieces) \ {<< >>}
          BY <2>1, AppendProperties
      <4>2. QED
          BY <1>1, <2>1, <4>1, ExceptSeq
    <3>2. Len(lines') \in Nat /\ DOMAIN lines' = 1 .. Len(lines')
        BY <3>1, LenProperties
    <3>3. QED
        BY <1>1, <2>1, <2>2, <3>2
  <2>4. ~Parses(lines'[l])
    <3>1. Len(lines[l]) \in Nat /\ Len(lines[l]) # 0
        BY <2>1, EmptySeq, LenProperties
    <3>2. Len(lines'[l]) = Len(lines[l]) + 1
        BY <2>1, <2>2, AppendProperties
    <3>3. QED
        BY <3>1, <3>2 DEF Parses
  <2>5. Good' = Good \ {l}
      BY <2>2, <2>4 DEF Good
  <2>6. \A k \in Good \ {l} : k < l /\ Heads'[k] = Heads[k]
      BY <1>1, <2>1, <2>2 DEF Good, Heads
  <2>7. QED
      BY <2>3, <2>5, <2>6
<1>6. Paired(Good \ {l}, Survivors \ {m}, Heads, Said)
  <2>1. CASE l \in Good
    <3>1. Good = (Good \ {l}) \cup {l} /\ Survivors = (Survivors \ {m}) \cup {m}
        BY <1>2, <2>1
    <3>2. /\ Good \ {l} \in SUBSET Nat /\ IsFiniteSet(Good \ {l})
          /\ Survivors \ {m} \in SUBSET Nat /\ IsFiniteSet(Survivors \ {m})
        BY NumbersOf, FS_RemoveElement
    <3>3. Paired((Good \ {l}) \cup {l}, (Survivors \ {m}) \cup {m}, Heads, Said)
        BY <3>1 DEF DamageInv
    <3>4. /\ \A k \in Good \ {l} : k < l
          /\ \A k \in Survivors \ {m} : k < m
        BY <1>3, <1>5, <3>2
    <3>5. QED
        BY <3>2, <3>3, <3>4, PairedTop
  <2>2. CASE l \notin Good
    <3>1. Good \ {l} = Good /\ Survivors \ {m} = Survivors
        BY <1>2, <2>2
    <3>2. QED
        BY <3>1 DEF DamageInv
  <2>3. QED
      BY <2>1, <2>2
<1>7. Paired(Good', Survivors', Heads', Said')
  <2>1. /\ \A k \in Good \ {l} : Heads'[k] = Heads[k]
        /\ \A k \in Survivors \ {m} : Said'[k] = Said[k]
      BY <1>4, <1>5
  <2>2. Paired(Good \ {l}, Survivors \ {m}, Heads', Said')
      BY <1>6, <2>1, PairedAgree
  <2>3. QED
      BY <1>4, <1>5, <2>2
<1>8. l \notin Good'
    BY <1>5
<1>9. ~open' => \A k \in Nat : Last(k)' => tried'[k].how = "written"
    BY <1>4
<1>10. open' => \E k \in Nat : /\ Last(k)' /\ tried'[k].how # "written"
                               /\ Len(lines') \in Good' <=> k \in Survivors'
    BY <1>4, <1>5, <1>8
<1>11. QED
    BY <1>7, <1>9, <1>10 DEF DamageInv

-----------------------------------------------------------------------------
LEMMA DamageInit == Init => DamageInv
<1> SUFFICES ASSUME Init
             PROVE  DamageInv
    OBVIOUS
<1>1. Good = {} /\ Survivors = {} /\ ~open /\ \A k : ~Last(k)
    BY DEF Init, LogInit, Good, Survivors, Last
<1>2. Paired({}, {}, Heads, Said)
    BY FS_EmptySet DEF Paired
<1>3. QED
    BY <1>1, <1>2 DEF DamageInv

LEMMA DamageRecord ==
    ASSUME FileOK, DamageInv, NEW e \in Entries, Record(e)
    PROVE  DamageInv'
<1>1. PICK how \in Outcomes :
          /\ tried' = Append(tried, [entry |-> e, how |-> how])
          /\ IF how = "nothing" THEN UNCHANGED <<lines, open>>
             ELSE /\ lines' = LinesWith([entry |-> e, part |->
                                  IF how \in {"written", "unended"} THEN "whole" ELSE how])
                  /\ open' = (how # "written")
    BY DEF Record
<1>2. CASE how = "nothing"
    BY <1>1, <1>2, DamageNothing
<1>3. CASE how # "nothing"
  <2>1. PICK p \in Pieces : /\ p.entry = e
                            /\ p.part = "whole" <=> how \in {"written", "unended"}
                            /\ lines' = LinesWith(p)
    <3>1. PICK p : p = [entry |-> e, part |->
                            IF how \in {"written", "unended"} THEN "whole" ELSE how]
        OBVIOUS
    <3>2. p \in Pieces /\ p.entry = e
        BY <1>3, <3>1, PieceType
    <3>3. p.part = "whole" <=> how \in {"written", "unended"}
        BY <3>1 DEF Outcomes
    <3>4. QED
        BY <1>1, <1>3, <3>1, <3>2, <3>3
  <2>2. CASE open
    <3>1. lines' = [lines EXCEPT ![Len(lines)] = Append(@, p)]
        BY <2>1, <2>2 DEF LinesWith
    <3>2. QED
        BY <1>1, <1>3, <2>1, <2>2, <3>1, DamageSharedLine
  <2>3. CASE ~open
    <3>1. lines' = Append(lines, <<p>>)
        BY <2>1, <2>3 DEF LinesWith
    <3>2. QED
        BY <1>1, <1>3, <2>1, <2>3, <3>1, DamageOwnLine
  <2>4. QED
      BY <2>2, <2>3
<1>4. QED
    BY <1>2, <1>3

LEMMA DamageStays ==
    ASSUME DamageInv, UNCHANGED logVars
    PROVE  DamageInv'
<1>1. /\ Good' = Good /\ Survivors' = Survivors /\ Heads' = Heads /\ Said' = Said
      /\ \A k : Last(k)' <=> Last(k)
    BY DEF logVars, Good, Survivors, Heads, Said, Last, Parses, Survives, After, Before, Landed
<1>2. QED
    BY <1>1 DEF logVars, DamageInv

LEMMA DamageNext == BatchTypes /\ DamageInv /\ [Next]_vars => DamageInv'
<1> SUFFICES ASSUME BatchTypes, DamageInv, [Next]_vars
             PROVE  DamageInv'
    OBVIOUS
<1>1. CASE Other
  <2>1. [of |-> NoTag, uid |-> NoUid, ok |-> TRUE] \in Entries
      BY EntryType
  <2>2. QED
      BY <1>1, <2>1, DamageRecord DEF Other, BatchTypes
<1>2. CASE RecordWrite
  <2>1. [of |-> held, uid |-> uid, ok |-> rc] \in Entries
      BY EntryType DEF BatchTypes, TypeOK
  <2>2. QED
      BY <1>2, <2>1, DamageRecord DEF RecordWrite, BatchTypes
<1>3. CASE ~Other /\ ~RecordWrite
  <2>1. UNCHANGED logVars
      BY <1>3 DEF Next, Step, vars, Move, Connect, Identify, Write, CountWrite, Removed,
                  Raise, Interrupt
  <2>2. QED
      BY <2>1, DamageStays
<1>4. QED
    BY <1>1, <1>2, <1>3

(* A bad append costs itself and the next record, and nothing else: what   *)
(* history reads is made of the other records, in their order, for every   *)
(* number of bad appends of every kind (audit.py:89-120).                  *)
THEOREM DamageCorrect == Spec => []DamageIsLocal
<1>1. BatchTypes /\ DamageInv => DamageIsLocal
  <2> SUFFICES ASSUME BatchTypes, DamageInv
               PROVE  DamageIsLocal
      OBVIOUS
  <2>1. /\ Good \in SUBSET (1 .. Len(lines)) /\ Good \in SUBSET Nat /\ IsFiniteSet(Good)
      BY NumbersOf DEF BatchTypes, Good
  <2>2. /\ DOMAIN InOrder(Survivors) = DOMAIN InOrder(Good)
        /\ DOMAIN InOrder(Good) = 1 .. Cardinality(Good)
        /\ \A n \in DOMAIN InOrder(Good) :
              /\ InOrder(Good)[n] \in Good /\ InOrder(Survivors)[n] \in Survivors
              /\ Heads[InOrder(Good)[n]] = Said[InOrder(Survivors)[n]]
      BY <2>1, PairedInOrder DEF DamageInv
  <2>3. \A n \in DOMAIN InOrder(Good) :
            lines[InOrder(Good)[n]][1].entry = tried[InOrder(Survivors)[n]].entry
      BY <2>2 DEF Heads, Said, Good, Survivors
  <2>4. EntriesOf(Good) = [n \in DOMAIN InOrder(Survivors) |->
                              tried[InOrder(Survivors)[n]].entry]
      BY <2>2, <2>3 DEF EntriesOf
  <2>5. History = EntriesOf(Good)
    <3>1. 0 \notin 1 .. Len(EntriesOf(Good))
        OBVIOUS
    <3>2. QED
        BY <3>1 DEF History, Read, Newest, Good
  <2>6. QED
      BY <2>4, <2>5 DEF DamageIsLocal, Survivors
<1>2. QED
    BY <1>1, DamageInit, DamageNext, TypesInvariant, PTL DEF Spec
=============================================================================
