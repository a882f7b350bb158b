--------------------------- MODULE MCTmuxSession ---------------------------
(* Two sessions, the name of one the beginning of the name of the other;   *)
(* two sends, beside what the attached client types.                       *)
EXTENDS TmuxSession

CONSTANTS build, build2, s1, s2

MCLonger == [s \in Session |-> IF s = build THEN {build2} \cap Session ELSE {}]
\* The screen has two rows, and tmux prints the empty ones below the output too.
MCEndsInPrompt(text) == Len(text) >= 2 /\ Last(text) = <<Shell, 1>>
MCInputs == {<<"text", "Enter">>}
=============================================================================
