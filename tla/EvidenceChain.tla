--------------------------- MODULE EvidenceChain ---------------------------
(***************************************************************************)
(* What an evidence log promises to its callers, whatever the threads, the *)
(* processes and the locks behind it: every append call adds its event at  *)
(* most once, at the end of one common chain, at one instant between the   *)
(* call and its return; Ok is returned only for an event that is there;    *)
(* nothing is ever taken out.  One thing may spoil this, once: an append   *)
(* behind a line that lacks only its newline takes that line, whose own    *)
(* append failed, out of the chain and is itself answered with Ok for      *)
(* nothing.  EvidenceLog implements this specification.                    *)
(***************************************************************************)
EXTENDS Naturals, Sequences

CONSTANT Event            \* the identifiers (uuids) the append calls may use

VARIABLES
  chain,                  \* the identifiers in the log, oldest first
  fate,                   \* what has become of the append call of an event
  spoilt                  \* the last line of the file is unreadable for good

chainVars == <<chain, fate, spoilt>>

Present == {chain[i] : i \in DOMAIN chain}

Init == /\ chain = << >>
        /\ fate = [e \in Event |-> "new"]
        /\ spoilt = FALSE

Begin(e) == /\ fate[e] = "new"
            /\ fate' = [fate EXCEPT ![e] = "open"]
            /\ UNCHANGED <<chain, spoilt>>

Commit(e) == /\ fate[e] = "open"
             /\ e \notin Present
             /\ ~spoilt
             /\ chain' = Append(chain, e)
             /\ UNCHANGED <<fate, spoilt>>

\* The newest event goes, and nothing is added any more.  Nobody was told that
\* it is there.
Spoil == /\ ~spoilt
         /\ chain # << >>
         /\ fate[chain[Len(chain)]] = "err"
         /\ chain' = SubSeq(chain, 1, Len(chain) - 1)
         /\ spoilt' = TRUE
         /\ UNCHANGED fate

Confirm(e) == /\ fate[e] = "open"
              /\ e \in Present \/ spoilt
              /\ fate' = [fate EXCEPT ![e] = "ok"]
              /\ UNCHANGED <<chain, spoilt>>

\* The calls of S end without an answer of Ok: each may have committed or not.
Abandon(S) == /\ \A e \in S : fate[e] = "open"
              /\ fate' = [e \in Event |-> IF e \in S THEN "err" ELSE fate[e]]
              /\ UNCHANGED <<chain, spoilt>>

Next == \/ \E e \in Event : Begin(e) \/ Commit(e) \/ Confirm(e)
        \/ Spoil
        \/ \E S \in SUBSET Event : Abandon(S)

Spec == Init /\ [][Next]_chainVars
=============================================================================
