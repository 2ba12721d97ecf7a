---------------------------- MODULE QueryService ----------------------------
(***************************************************************************)
(* What the caller of RQL::run() may rely on.  The server takes up the     *)
(* query of a call at most once.  A call that returns, returns the whole   *)
(* answer; one that throws an error of the server has been taken up; after *)
(* a connection_exception nobody knows, and the server may still take up   *)
(* the query at any later time, between or after later calls.              *)
(***************************************************************************)
EXTENDS Naturals

CONSTANTS
    MaxCalls,   \* calls the caller makes
    MaxBatches  \* batches an answer may come in

VARIABLES
    calls,     \* the number of calls so far
    state,     \* of the last call: "none", "busy", "ok" or what it threw
    answer,    \* what it returned
    executed   \* how often the server has taken up the query of each call

serviceVars == <<calls, state, answer, executed>>

ServerErrors == {"runtime_error_exception", "compile_error_exception"}

\* The answer to the n-th call in k batches.
WholeAnswer(n, k) == [i \in 1 .. k |-> [of |-> n, part |-> i, last |-> i = k]]

Init ==
    /\ calls = 0
    /\ state = "none"
    /\ answer = <<>>
    /\ executed = [n \in 1 .. MaxCalls |-> 0]

Call ==
    /\ state # "busy"
    /\ calls < MaxCalls
    /\ calls' = calls + 1
    /\ state' = "busy"
    /\ answer' = <<>>
    /\ UNCHANGED executed

Execute(n) ==
    /\ executed[n] = 0
    /\ executed' = [executed EXCEPT ![n] = 1]
    /\ UNCHANGED <<calls, state, answer>>

Return ==
    /\ state = "busy"
    /\ executed[calls] = 1
    /\ \E k \in 1 .. MaxBatches : answer' = WholeAnswer(calls, k)
    /\ state' = "ok"
    /\ UNCHANGED <<calls, executed>>

ThrowServerError ==
    /\ state = "busy"
    /\ executed[calls] = 1
    /\ state' \in ServerErrors
    /\ UNCHANGED <<calls, answer, executed>>

ThrowConnection ==
    /\ state = "busy"
    /\ state' = "connection_exception"
    /\ UNCHANGED <<calls, answer, executed>>

Next ==
    \/ Call \/ Return \/ ThrowServerError \/ ThrowConnection
    \/ \E n \in 1 .. calls : Execute(n)

Spec == Init /\ [][Next]_serviceVars
=============================================================================
