----------------------------- MODULE MC_Driver -----------------------------
(* Instances of Driver for TLC; the .cfg files choose faults and bounds. *)
EXTENDS Driver

MCQuery ==
    {StartQuery(t, n) : t \in Token, n \in Runs} \cup {ContinueQuery(t) : t \in Token}
MCResponse ==
    [type : Types, token : Token, term : Runs \cup {NoTerm}, part : Parts]
=============================================================================
