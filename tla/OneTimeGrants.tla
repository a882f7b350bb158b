--------------------------- MODULE OneTimeGrants ---------------------------
(***************************************************************************)
(* What the policy gate promises of an approval, whatever the threads, the *)
(* file, its mutex and the failures behind it: a grant is made once and is *)
(* never lost; a client is told of it only when it exists; only a grant a  *)
(* client was told of is spent, and once; a spent grant is recorded once,  *)
(* and what it was recorded for then goes through once, in that session    *)
(* and with that command.  A grant may stop at any of these points and     *)
(* never goes back.  PolicyGate implements this specification for the      *)
(* threads of one process.                                                 *)
(***************************************************************************)

CONSTANT Grant

VARIABLES
  state,          \* per grant: not made, unused or used
  told,           \* the grants clients know
  records,        \* per grant: the places where its use is recorded
  throughs        \* per grant: the places where a command went through with it

grantVars == <<state, told, records, throughs>>

Init == /\ state = [g \in Grant |-> "none"]
        /\ told = {}
        /\ records = [g \in Grant |-> {}]
        /\ throughs = [g \in Grant |-> {}]

Make(g) == /\ state[g] = "none"
           /\ state' = [state EXCEPT ![g] = "unused"]
           /\ UNCHANGED <<told, records, throughs>>

Tell(g) == /\ state[g] # "none"
           /\ told' = told \cup {g}
           /\ UNCHANGED <<state, records, throughs>>

Spend(g) == /\ state[g] = "unused"
            /\ g \in told
            /\ state' = [state EXCEPT ![g] = "used"]
            /\ UNCHANGED <<told, records, throughs>>

\* Any new place will do; a place is [session, command, at].
Record(g) == /\ state[g] = "used"
             /\ records[g] = {}
             /\ \E place \in records'[g] : records' = [records EXCEPT ![g] = {place}]
             /\ UNCHANGED <<state, told, throughs>>

LetThrough(g) ==
  /\ throughs[g] = {}
  /\ \E place \in throughs'[g], record \in records[g] :
       /\ place.session = record.session
       /\ place.command = record.command
       /\ throughs' = [throughs EXCEPT ![g] = {place}]
  /\ UNCHANGED <<state, told, records>>

Next == \E g \in Grant : Make(g) \/ Tell(g) \/ Spend(g) \/ Record(g) \/ LetThrough(g)

Spec == Init /\ [][Next]_grantVars
=============================================================================
