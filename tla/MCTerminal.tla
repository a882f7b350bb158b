---------------------------- MODULE MCTerminal ----------------------------
(* Waits for the first line, for a prompt, for the exit, for silence and for   *)
(* a regular expression that does not compile.                              *)
EXTENDS Terminal

MCConditions == {[kind |-> "output", line |-> 1], [kind |-> "prompt"],
                 [kind |-> "exit"], [kind |-> "idle"], [kind |-> "invalid"]}
=============================================================================
