------------------------------ MODULE BatchWrite ------------------------------
(***************************************************************************)
(* write-url and write-text with --count (cli.py, _write_to_tags): the     *)
(* same payload written to one tag after another, while people lay tags on *)
(* the reader and lift them, the reader's calls fail in passing, somebody  *)
(* presses Ctrl-C, and other programs append to the same audit log.        *)
(*                                                                         *)
(* A write is one step, with the outcomes that NdefStore allows.           *)
(***************************************************************************)
EXTENDS AuditLog

CONSTANTS
    Tags,           \* the tags at hand
    UidOf,          \* the UID of each; clones may share one
    NoTag,
    Counts,         \* what --count may be; 0 is endless
    MaxMoves,       \* bound on the times a tag is laid down or lifted
    MaxGlitches,    \* bound on the passing errors that do not end the batch
    MaxOthers       \* bound on the records that other programs make

ASSUME BatchAssumption ==
    /\ UidOf \in [Tags -> Uids]
    /\ NoTag \notin Tags
    /\ NoUid \notin Uids
    /\ Counts \subseteq Nat
    /\ {MaxMoves, MaxGlitches, MaxOthers} \subseteq Nat
    /\ Entries = [of : Tags \cup {NoTag}, uid : Uids \cup {NoUid}, ok : BOOLEAN]

VARIABLES
    field,      \* the tag on the reader, or NoTag
    moves,
    glitches,
    content,    \* what each tag holds: the "old" message, the "new" one, or neither
    count,      \* --count
    pc,         \* where _write_to_tags is
    held,       \* the tag it connected to last
    live,       \* that tag has not been lifted since
    uid,        \* info.uid
    rc,         \* what _write_payload returned: 0 is TRUE
    seen, done, failed,
    end         \* "running", or how it ended: "finished", "interrupted", "raised"

world == <<field, moves, content>>
batch == <<count, pc, held, uid, rc, seen, done, failed, end>>
vars  == <<world, glitches, live, batch, logVars>>

TypeOK ==
    /\ LogTypeOK
    /\ field \in Tags \cup {NoTag} /\ held \in Tags \cup {NoTag}
    /\ moves \in 0 .. MaxMoves /\ glitches \in 0 .. MaxGlitches
    /\ content \in [Tags -> {"old", "torn", "new"}]
    /\ pc \in {"wait", "identify", "write", "record", "count", "removal", "ended"}
    /\ live \in BOOLEAN /\ rc \in BOOLEAN
    /\ uid \in Uids \cup {NoUid}
    /\ seen \subseteq Uids
    /\ done \in Nat /\ failed \in Nat
    /\ count \in Counts
    /\ count > 0 => done =< count
    /\ end \in {"running", "finished", "interrupted", "raised"}
    /\ pc = "ended" <=> end # "running"

Init ==
    /\ LogInit
    /\ field \in Tags \cup {NoTag}
    /\ moves = 0 /\ glitches = 0
    /\ content = [t \in Tags |-> "old"]
    /\ count \in Counts
    /\ pc = "wait" /\ held = NoTag /\ live = FALSE
    /\ uid = NoUid /\ rc = FALSE
    /\ seen = {} /\ done = 0 /\ failed = 0
    /\ end = "running"

-----------------------------------------------------------------------------
(* People lay a tag down, lift it, or exchange it between two polls.        *)
Move(tag) ==
    /\ pc # "ended"
    /\ moves < MaxMoves
    /\ moves' = moves + 1
    /\ tag # field
    /\ field' = tag
    /\ live' = FALSE
    /\ UNCHANGED <<content, glitches, batch, logVars>>

(* The web server, or another command, makes a record.                      *)
Other ==
    /\ pc # "ended"
    /\ Cardinality({k \in DOMAIN tried : tried[k].entry.of = NoTag}) < MaxOthers
    /\ Record([of |-> NoTag, uid |-> NoUid, ok |-> TRUE])
    /\ UNCHANGED <<world, glitches, live, batch>>

Glitch == glitches < MaxGlitches /\ glitches' = glitches + 1

Stop(how) == pc' = "ended" /\ end' = how

(* wait_for_tag: connects, or gives up at its deadline.                     *)
Connect ==
    /\ pc = "wait"
    /\ field # NoTag
    /\ pc' = "identify" /\ held' = field /\ live' = TRUE
    /\ UNCHANGED <<world, glitches, count, uid, rc, seen, done, failed, end, logVars>>

(* Mutant: any tag but the last one is taken.                               *)
IdentifyLastOnly ==
    /\ pc = "identify"
    /\ \/ uid' = UidOf[held] /\ live /\ UNCHANGED glitches
       \/ uid' = NoUid /\ (IF live THEN Glitch ELSE UNCHANGED glitches)
    /\ pc' = IF uid' # NoUid /\ uid' = uid THEN "removal" ELSE "write"
    /\ UNCHANGED <<world, count, live, held, rc, seen, done, failed, end, logVars>>

(* identify_tag passes over a UID that is refused; a tag seen before is not *)
(* written again.                                                           *)
Identify ==
    /\ pc = "identify"
    /\ \/ uid' = UidOf[held] /\ live /\ UNCHANGED glitches
       \/ uid' = NoUid /\ (IF live THEN Glitch ELSE UNCHANGED glitches)
    /\ pc' = IF uid' # NoUid /\ uid' \in seen THEN "removal" ELSE "write"
    /\ UNCHANGED <<world, count, live, held, rc, seen, done, failed, end, logVars>>

(* A message changes at most from old to torn to new.                       *)
Becomes(was) == IF was = "new" THEN {"new"} ELSE {was, "torn", "new"}

(* _write_payload returns: verified, or refused, or read back differently.  *)
Write ==
    /\ pc = "write"
    /\ \E now \in Becomes(content[held]) :
          /\ content' = [content EXCEPT ![held] = now]
          /\ \/ rc' = TRUE  /\ now = "new" /\ live
             \/ rc' = FALSE /\ now # "new" /\ live
             \/ rc' = FALSE /\ now = content[held]
    /\ pc' = "record"
    /\ UNCHANGED <<field, moves, glitches, count, live, held, uid, seen, done, failed, end, logVars>>

(* Mutant: the record says what was meant to be, not what came of it.       *)
RecordWriteAsMeant ==
    /\ pc = "record"
    /\ Record([of |-> held, uid |-> uid, ok |-> TRUE])
    /\ pc' = "count"
    /\ UNCHANGED <<world, glitches, count, live, held, uid, rc, seen, done, failed, end>>

RecordWrite ==
    /\ pc = "record"
    /\ Record([of |-> held, uid |-> uid, ok |-> rc])
    /\ pc' = "count"
    /\ UNCHANGED <<world, glitches, count, live, held, uid, rc, seen, done, failed, end>>

More == count = 0 \/ done' < count

(* Mutant: every visit counts.                                              *)
CountVisits ==
    /\ pc = "count"
    /\ seen' = IF rc /\ uid # NoUid THEN seen \cup {uid} ELSE seen
    /\ done' = done + 1
    /\ failed' = IF rc THEN failed ELSE failed + 1
    /\ IF More THEN pc' = "removal" /\ UNCHANGED end ELSE Stop("finished")
    /\ UNCHANGED <<world, glitches, count, live, held, uid, rc, logVars>>

CountWrite ==
    /\ pc = "count"
    /\ seen' = IF rc /\ uid # NoUid THEN seen \cup {uid} ELSE seen
    /\ done' = IF rc THEN done + 1 ELSE done
    /\ failed' = IF rc THEN failed ELSE failed + 1
    /\ IF More THEN pc' = "removal" /\ UNCHANGED end ELSE Stop("finished")
    /\ UNCHANGED <<world, glitches, count, live, held, uid, rc, logVars>>

(* wait_for_removal returns when there is no tag, or on any passing error.  *)
Removed ==
    /\ pc = "removal"
    /\ \/ field = NoTag /\ UNCHANGED glitches
       \/ field # NoTag /\ Glitch
    /\ pc' = "wait"
    /\ UNCHANGED <<world, count, live, held, uid, rc, seen, done, failed, end, logVars>>

(* Mutant: nothing is raised while the tag stays where it is.               *)
RaiseUnlessLeft ==
    /\ pc \in {"wait", "identify", "write"}
    /\ IF pc = "write" THEN \E now \in Becomes(content[held]) : content' = [content EXCEPT ![held] = now]
                       ELSE UNCHANGED content
    /\ Stop("raised")
    /\ UNCHANGED <<field, moves, glitches, count, live, held, uid, rc, seen, done, failed, logVars>>

(* The deadline of wait_for_tag, or of wait_for_removal with the tag still  *)
(* there; an exception out of identify_tag or of the write, which may have  *)
(* got anywhere.                                                            *)
Raise ==
    /\ pc \in {"wait", "identify", "write"} \/ (pc = "removal" /\ field # NoTag)
    /\ IF pc = "write" THEN \E now \in Becomes(content[held]) : content' = [content EXCEPT ![held] = now]
                       ELSE UNCHANGED content
    /\ Stop("raised")
    /\ UNCHANGED <<field, moves, glitches, count, live, held, uid, rc, seen, done, failed, logVars>>

(* Ctrl-C, anywhere.                                                        *)
Interrupt ==
    /\ pc # "ended"
    /\ IF pc = "write" THEN \E now \in Becomes(content[held]) : content' = [content EXCEPT ![held] = now]
                       ELSE UNCHANGED content
    /\ Stop("interrupted")
    /\ UNCHANGED <<field, moves, glitches, count, live, held, uid, rc, seen, done, failed, logVars>>

Step == Connect \/ Identify \/ Write \/ RecordWrite \/ CountWrite \/ Removed \/ Raise

Next == \/ \E tag \in Tags \cup {NoTag} : Move(tag)
        \/ Other
        \/ Step
        \/ Interrupt

(* The program runs, and every wait of it has a deadline.                   *)
Spec == Init /\ [][Next]_vars /\ WF_vars(Step)

-----------------------------------------------------------------------------
Ours(k) == tried[k].entry.of # NoTag

(* No UID is written twice in a batch, whatever is laid down in which order *)
(* and however often: two verified visits had different UIDs, or one of the *)
(* two UIDs could not be read (cli.py:58-59, 73-76, 91-93).                 *)
WrittenOnce ==
    \A j, k \in DOMAIN tried :
        /\ j < k /\ Ours(j) /\ Ours(k)
        /\ tried[j].entry.ok /\ tried[k].entry.ok
        /\ tried[j].entry.uid # NoUid
        => tried[j].entry.uid # tried[k].entry.uid

(* The number reported at the end, however it ends, is that of the tags     *)
(* that hold the message; only one whose UID could not be read may have     *)
(* been counted again (cli.py:91-96, 107-109).                              *)
CountIsTrue ==
    LET blind == {k \in DOMAIN tried : Ours(k) /\ tried[k].entry.ok /\ tried[k].entry.uid = NoUid}
    IN  done =< Cardinality({t \in Tags : content[t] = "new"}) + Cardinality(blind)

(* The records tell what became of the tags: a tag recorded as written      *)
(* holds the message, and one that changed has a record, but for the tag at *)
(* which the batch was broken off (cli.py:80-90).                           *)
RecordsTell ==
    /\ \A k \in DOMAIN tried : Ours(k) /\ tried[k].entry.ok => content[tried[k].entry.of] = "new"
    /\ \A t \in Tags :
          content[t] # "old" /\ (\A k \in DOMAIN tried : tried[k].entry.of # t)
             => t = held /\ (pc = "record" \/ end \in {"interrupted", "raised"})

(* A batch ends, even an endless one and even when a tag is left lying      *)
(* there, once nobody moves a tag any more (reader.py:101-146).             *)
BatchEnds == <>(pc = "ended")
===============================================================================
