--------------------------- MODULE MCEvidenceLog ---------------------------
(* Three threads in two processes: two of them share a mutex, the third    *)
(* meets them only at the flock.                                           *)
EXTENDS EvidenceLog

CONSTANTS t1, t2, t3, p1, p2

MCThread == {t1, t2, t3}
MCProcess == {p1, p2}
MCProcOf == [t \in MCThread |-> IF t = t3 THEN p2 ELSE p1]
=============================================================================
