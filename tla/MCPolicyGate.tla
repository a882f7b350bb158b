--------------------------- MODULE MCPolicyGate ---------------------------
(* One configured rule in front of a built-in one: "tidy" is allowed by    *)
(* the configuration although the built-in rule gates it, "apply" is gated,*)
(* "wipe" is denied by the configuration, and "plain" matches nothing.     *)
EXTENDS PolicyGate

CONSTANTS t1, t2, t3, p1, p2

MCCustomRules ==
  << [matches |-> {"tidy"}, label |-> "allow tidy", action |-> "allow"],
     [matches |-> {"wipe"}, label |-> "deny wipe", action |-> "deny"] >>
MCBuiltinRules ==
  << [matches |-> {"tidy", "apply", "wipe"}, label |-> "gate",
      action |-> "require_approval"] >>

MCOneProcess == [t \in Thread |-> p1]
MCTwoProcesses == [t \in Thread |-> IF t = t1 THEN p1 ELSE p2]
=============================================================================
