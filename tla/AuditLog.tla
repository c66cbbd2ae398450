------------------------------- MODULE AuditLog -------------------------------
(***************************************************************************)
(* The audit log (audit.py): a JSON Lines file that the command line and   *)
(* the web server append to, each record in one write of a few hundred     *)
(* bytes, and that "history" reads back.                                   *)
(*                                                                         *)
(* What a record says is an entry; what counts here is how much of it got  *)
(* into the file.  A write that stops short, because the disk is full or   *)
(* the machine stops, leaves a piece of a line without a line end, and the *)
(* next record goes on behind it.                                          *)
(***************************************************************************)
EXTENDS Naturals, Sequences, FiniteSets

CONSTANTS
    Entries,    \* what records say: of these, the uid and the outcome
    Uids,       \* the UIDs that tags can have
    NoUid,      \* a UID that could not be read
    Wide,       \* records hold characters of more than one byte
    MaxTears    \* bound on the appends that go wrong

ASSUME LogAssumption ==
    /\ \A e \in Entries : e.uid \in Uids \cup {NoUid} /\ e.ok \in BOOLEAN
    /\ Wide \in BOOLEAN
    /\ MaxTears \in Nat

VARIABLES
    lines,      \* the file: a line is a sequence of pieces of records
    open,       \* its last line has no line end
    tried       \* the records made so far, and how the append of each went

logVars == <<lines, open, tried>>

(* An append writes it all, all but the line end, a part that ends between  *)
(* two characters or inside one, or nothing: logging is off, or the file    *)
(* cannot be opened.                                                        *)
Outcomes == {"written", "unended", "cut", "nothing"} \cup IF Wide THEN {"split"} ELSE {}

Tries  == [entry : Entries, how : Outcomes]
Pieces == [entry : Entries, part : {"whole", "cut", "split"}]

LogTypeOK ==
    /\ lines \in Seq(Seq(Pieces) \ {<< >>})
    /\ open \in BOOLEAN
    /\ tried \in Seq(Tries)

LogInit == lines = << >> /\ open = FALSE /\ tried = << >>

Landed(try) == try.how # "nothing"
Tears       == Cardinality({k \in DOMAIN tried : tried[k].how # "written"})

(* Opened for appending, the file only grows at its end.                    *)
LinesWith(piece) ==
    IF open THEN [lines EXCEPT ![Len(lines)] = Append(@, piece)]
    ELSE Append(lines, <<piece>>)

(* record: an error of the file system is swallowed, the caller goes on.    *)
Record(entry) ==
    \E how \in Outcomes :
        LET part == IF how \in {"written", "unended"} THEN "whole" ELSE how IN
        /\ how # "written" => Tears < MaxTears
        /\ tried' = Append(tried, [entry |-> entry, how |-> how])
        /\ IF how = "nothing" THEN UNCHANGED <<lines, open>>
           ELSE /\ lines' = LinesWith([entry |-> entry, part |-> part])
                /\ open' = (how # "written")

-----------------------------------------------------------------------------
(* read decodes the file as UTF-8, and nothing catches what that raises.    *)
Decodes == \A l \in DOMAIN lines : \A p \in DOMAIN lines[l] : lines[l][p].part # "split"

(* A line is JSON when it is one record and all of it.                      *)
Parses(line) == Len(line) = 1 /\ line[1].part = "whole"

(* The numbers of a set in ascending order: for those of lines, the order   *)
(* in which a loop over the file comes by them.                             *)
Rank(S, k) == Cardinality({i \in S : i =< k})
InOrder(S) == [n \in 1 .. Cardinality(S) |-> CHOOSE k \in S : Rank(S, k) = n]

EntriesOf(S) == [n \in DOMAIN InOrder(S) |-> lines[InOrder(S)[n]][1].entry]

Newest(limit, s) == IF limit \in 1 .. Len(s) THEN SubSeq(s, Len(s) - limit + 1, Len(s)) ELSE s

(* Mutant: reading ends at the first line that does not parse.              *)
ReadUpToDamage(limit, uids) ==
    Newest(limit, EntriesOf({l \in DOMAIN lines : /\ \A m \in 1 .. l : Parses(lines[m])
                                                 /\ lines[l][1].entry.uid \in uids}))

(* read: the newest entries of the lines that parse, of a UID or of any.    *)
Read(limit, uids) ==
    Newest(limit, EntriesOf({l \in DOMAIN lines : /\ Parses(lines[l])
                                                 /\ lines[l][1].entry.uid \in uids}))

AnyUid  == Uids \cup {NoUid}
History == Read(0, AnyUid)

-----------------------------------------------------------------------------
(* The record appended next before the k-th one, if any.                    *)
Before(k) == {j \in 1 .. k - 1 : Landed(tried[j]) /\ \A i \in j + 1 .. k - 1 : ~Landed(tried[i])}
After(k)  == {j \in k + 1 .. Len(tried) : Landed(tried[j])}

(* It all got into the file, on a line of its own.                          *)
Survives(k) ==
    /\ \/ tried[k].how = "written"
       \/ tried[k].how = "unended" /\ After(k) = {}
    /\ \A j \in Before(k) : tried[j].how = "written"

(* As long as no character was split, what a bad append costs is itself and *)
(* the next record, never one that was complete before it and never one     *)
(* that comes later: the history is made of the others, in their order      *)
(* (audit.py:89-120).                                                       *)
DamageIsLocal ==
    Decodes => LET kept == InOrder({k \in DOMAIN tried : Survives(k)})
               IN  History = [n \in DOMAIN kept |-> tried[kept[n]].entry]

(* audit.py:7-9, of the file: "That survives an interrupted write (a        *)
(* truncated last line is the only damage possible)"; test_audit.py: "the   *)
(* rest must still be readable".                                            *)
WrittenIsReadable ==
    \A k \in DOMAIN tried :
        tried[k].how = "written" => Decodes /\ \E n \in DOMAIN History : History[n] = tried[k].entry
===============================================================================
