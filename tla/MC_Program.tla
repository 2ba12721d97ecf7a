---------------------------- MODULE MC_Program ----------------------------
(* The two programs that build terms, one of them at work in each behaviour: *)
(* one that calls the builders in any order, or the loop of the example.     *)
EXTENDS Program, Repl

VARIABLE part
vars == <<part, programVars, replVars>>

\* Which default databases there are matters to the builders only.
Init ==
    /\ ProgramInit
    /\ ReplInit
    /\ \/ part = "builders"
       \/ part = "loop" /\ databases = CHOOSE d \in [Conns -> DefaultDbs] : TRUE

Next ==
    /\ UNCHANGED part
    /\ \/ part = "builders" /\ BoundedNext /\ UNCHANGED replVars
       \/ part = "loop" /\ ReplNext /\ UNCHANGED programVars

\* At the end of input no question waits for anybody, and run() ends.
ProgramsSpec == Init /\ [][Next]_vars /\ WF_vars(part = "loop" /\ eof /\ Next)
=============================================================================
