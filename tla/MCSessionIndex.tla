-------------------------- MODULE MCSessionIndex --------------------------
(* An id opened as a pty, one opened with tmux and one with either; forks  *)
(* of the first, with and without a copy, and of itself; for the run with  *)
(* a counterexample, two ids with tmux.                                    *)
EXTENDS SessionIndex, TLC

CONSTANTS s1, s2, s3

MCOpens == {<<s1, "pty">>, <<s2, "tmux">>, <<s3, "pty">>, <<s3, "tmux">>}
MCForks == {<<s1, s3, TRUE>>, <<s1, s3, FALSE>>, <<s1, s1, TRUE>>}
MCTmuxOpens == {<<s1, "tmux">>, <<s2, "tmux">>}
Symmetry == Permutations(Thread) \cup Permutations(Child)
=============================================================================
