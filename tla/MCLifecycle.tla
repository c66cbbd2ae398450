---------------------------- MODULE MCLifecycle -----------------------------
(***************************************************************************)
(* The products of tags.py with their real CC size bytes and capacities:   *)
(* Ultralight (6), NTAG213 (18), NTAG215 (62) and NTAG216 (109).  The tag  *)
(* is one of the first three; an NTAG216 is an NTAG215 with more pages.    *)
(* Format is given its default, 144 bytes, 150, which its CC rounds down   *)
(* to the same 18 and its walk does not, 176, what the whole memory of an  *)
(* NTAG213 comes to, or 504.                                               *)
(***************************************************************************)
EXTENDS Lifecycle

MCCapacity   == [s \in {6, 18, 62, 109} |->
                    CASE s = 6 -> 48 [] s = 18 -> 144 [] s = 62 -> 504 [] s = 109 -> 888]
MCLockLayout == {18, 62, 109}
MCChips      == {6, 18, 62}
MCFormats    == {144, 150, 176, 504}
=============================================================================
