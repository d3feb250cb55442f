---------------------------- MODULE MCEntryNodes ----------------------------
(* Model checking instances of EntryNodes; the values of the constants are *)
(* in the entry_*.cfg files.                                               *)
EXTENDS EntryNodes
=============================================================================
