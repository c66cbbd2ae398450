------------------------------ MODULE NdefStore ------------------------------
(***************************************************************************)
(* What write_ndef promises its callers, the command line and the web UI:  *)
(* a request changes the stored message at most from the old one to the    *)
(* new one, it may be interrupted on the way and leave a torn message, but *)
(* the outcome it reports is true of the tag.  Where a reader spills, that *)
(* is all that is left of the promise: a refusal may have cost something.  *)
(***************************************************************************)
VARIABLES
    content,   \* the tag: the "old" message, the "new" one, or neither
    outcome,   \* what the request reported, "none" until it returns
    spills     \* the reader writes more than it is told to

TypeOK == /\ content \in {"old", "torn", "new"}
          /\ outcome \in {"none", "refused", "mismatch", "error", "ok"}
          /\ spills \in BOOLEAN

Init == content = "old" /\ outcome = "none" /\ spills \in BOOLEAN

(* Some of the new message reaches the tag; what is new stays new.          *)
Change == /\ outcome = "none"
          /\ content # "new"
          /\ content' \in {"torn", "new"}
          /\ UNCHANGED <<outcome, spills>>

Report(o) == /\ outcome = "none"
             /\ outcome' = o
             /\ UNCHANGED <<content, spills>>

(* Refused before anything was written.                                     *)
Refuse   == (content = "old" \/ spills) /\ Report("refused")

(* The read-back agrees, or does not, with what was to be stored.           *)
Confirm  == content = "new" /\ Report("ok")
Mismatch == content # "new" /\ Report("mismatch")

(* An error on the way says nothing of what is on the tag.                  *)
Fail     == Report("error")

Next == Change \/ Refuse \/ Confirm \/ Mismatch \/ Fail

Safe == Init /\ [][Next]_<<content, outcome, spills>>

Spec == Safe /\ WF_<<content, outcome, spills>>(Refuse \/ Confirm \/ Mismatch \/ Fail)
=============================================================================
