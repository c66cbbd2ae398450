---------------------------- MODULE MCTagMonitor ----------------------------
(***************************************************************************)
(* Two tags, a write request and a browser, with the tags and the reader   *)
(* moved up to MaxEvents times.                                            *)
(***************************************************************************)
EXTENDS TagMonitor
=============================================================================
