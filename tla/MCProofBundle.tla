--------------------------- MODULE MCProofBundle ---------------------------
(* Two proofs beside commands, two git snapshots that share a path, a      *)
(* refused command, and observations with and without a screen.            *)
EXTENDS ProofBundle, TLC

CONSTANTS d1, d2

Dirty == [status |-> {<<"a", "M">>, <<"b", "A">>}, diff |-> d1]
Staged == [status |-> {<<"a", "D">>}, diff |-> d2]

MCContent == {
  [NoContent EXCEPT !.type = "send", !.text = "ls", !.git = Dirty],
  [NoContent EXCEPT !.type = "send", !.git = Staged],
  [NoContent EXCEPT !.type = "denied", !.text = "rm"],
  [NoContent EXCEPT !.type = "observation", !.screen = "top", !.stdout = "out",
                    !.git = Staged],
  [NoContent EXCEPT !.type = "observation", !.exit = 1]}

Symmetry == Permutations(Prover)
=============================================================================
