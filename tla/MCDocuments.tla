---------------------------- MODULE MCDocuments ----------------------------
(* Documents for TLC: one knowledge base, its administrator and a reader.   *)
EXTENDS Documents, TLC
=============================================================================
