--------------------------- MODULE MC_Connection ---------------------------
(* Instances of Connection for TLC; the .cfg files choose the faults. *)
EXTENDS Connection
=============================================================================
