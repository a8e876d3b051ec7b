---------------------------- MODULE MCAsyncReads ----------------------------
(* Two lookups and a scan on a pool of two threads. *)
EXTENDS AsyncReads
=============================================================================
