------------------------ MODULE DaemonSocket_proofs ------------------------
(***************************************************************************)
(* What holds of the socket path and its daemons for every number of       *)
(* daemons, clients and faults.                                            *)
(***************************************************************************)
EXTENDS DaemonSocket, TLAPS

----------------------------------------------------------------------------
(* The inductive invariant.                                                *)

OverlapSeen == \A d, e \in Daemon : Running(d) /\ Running(e) /\ d # e => overlap

\* The path names a daemon that listens, or one that crashed.
PathOwner == socket # NoDaemon =>
               pc[socket] \in {"bound", "check", "accept", "leave", "crashed"}

\* Where a request to stop has come to.
StopTraced ==
  /\ \A c \in Client : stage[c] \in {"handled", "answered"} /\ request[c] = "stop"
                          => conn[c] \in stopped
  /\ \A d \in Daemon : shutdown[d] => d \in stopped

\* What a daemon that never met another one knows of the path.
PathKnown ==
  ~overlap => \A d \in Daemon : /\ pc[d] = "remove" => socket # NoDaemon
                                /\ pc[d] = "bind" => socket = NoDaemon
                                /\ pc[d] \in {"bound", "check", "accept"} => socket = d

IInv == /\ TypeOK
        /\ OverlapSeen
        /\ PathOwner
        /\ StopTraced
        /\ EndsOnlyWhenAsked
        /\ PathKnown
        /\ StartsAfterCrash

----------------------------------------------------------------------------

\* Nothing runs at first.
LEMMA InitIInv == Init => IInv
<1> SUFFICES ASSUME Init PROVE IInv
  OBVIOUS
<1> USE SocketAssumption DEF Init
<1>1. TypeOK
  <2>1. shutdown \in [Daemon -> BOOLEAN]
    BY Zenon
  <2>2. faults \in 0..MaxFaults
    BY SMT
  <2>3. /\ socket \in Daemon \cup {NoDaemon}
        /\ overlap \in BOOLEAN /\ stopped \in SUBSET Daemon
    BY Zenon
  <2>4. /\ pc \in [Daemon -> {"off", "remove", "bind", "bound", "check", "accept",
                             "leave", "exit", "ended", "failed", "crashed"}]
        /\ conn \in [Client -> Daemon \cup {NoDaemon}]
        /\ request \in [Client -> {"none", "stop", "other"}]
        /\ stage \in [Client -> {"idle", "done", "answered"} \cup Pending]
        /\ result \in [Client -> {"none", "ok", "error"}]
    BY DEF Pending
  <2>5. \A c \in Client : stage[c] \in Pending => conn[c] \in Daemon
    BY DEF Pending
  <2> QED BY <2>1, <2>2, <2>3, <2>4, <2>5 DEF TypeOK
<1>2. OverlapSeen /\ PathOwner /\ StopTraced /\ EndsOnlyWhenAsked /\ PathKnown
      /\ StartsAfterCrash
  BY DEF OverlapSeen, Running, PathOwner, StopTraced, EndsOnlyWhenAsked, PathKnown,
         StartsAfterCrash
<1> QED BY <1>1, <1>2 DEF IInv

\* One step per action; under it, one per part of the invariant.
LEMMA NextIInv == IInv /\ [Next]_vars => IInv'
<1> SUFFICES ASSUME IInv, [Next]_vars PROVE IInv'
  OBVIOUS
<1> USE SocketAssumption
<1> USE DEF IInv
<1>1. ASSUME NEW d \in Daemon, Serve(d) PROVE IInv'
  <2> USE <1>1 DEF Serve, Goto, clientVars
  <2>1. TypeOK'  BY DEF TypeOK, Pending
  <2>2. OverlapSeen'  BY DEF OverlapSeen, Running, TypeOK
  <2>3. PathOwner'  BY DEF PathOwner, TypeOK
  <2>4. StopTraced'  BY DEF StopTraced, TypeOK
  <2>5. EndsOnlyWhenAsked'  BY DEF EndsOnlyWhenAsked, TypeOK
  <2>6. PathKnown'  BY DEF PathKnown, TypeOK
  <2>7. StartsAfterCrash'  BY DEF StartsAfterCrash, TypeOK
  <2> QED BY <2>1, <2>2, <2>3, <2>4, <2>5, <2>6, <2>7
<1>2. ASSUME NEW d \in Daemon, RemoveStale(d) PROVE IInv'
  <2> USE <1>2 DEF RemoveStale, Goto, clientVars, history
  <2>1. TypeOK'  BY DEF TypeOK, Pending
  <2>2. OverlapSeen'  BY DEF OverlapSeen, Running, TypeOK
  <2>3. PathOwner'  BY DEF PathOwner, TypeOK
  <2>4. StopTraced'  BY DEF StopTraced, TypeOK
  <2>5. EndsOnlyWhenAsked'  BY DEF EndsOnlyWhenAsked, TypeOK
  <2>6. PathKnown'  BY DEF PathKnown, TypeOK, OverlapSeen, Running
  <2>7. StartsAfterCrash'  BY DEF StartsAfterCrash, TypeOK, PathKnown
  <2> QED BY <2>1, <2>2, <2>3, <2>4, <2>5, <2>6, <2>7
<1>3. ASSUME NEW d \in Daemon, Bind(d) PROVE IInv'
  <2> USE <1>3 DEF Bind, Goto, clientVars, history
  <2>1. TypeOK'  BY DEF TypeOK, Pending
  <2>2. OverlapSeen'  BY DEF OverlapSeen, Running, TypeOK
  <2>3. PathOwner'  BY DEF PathOwner, TypeOK
  <2>4. StopTraced'  BY DEF StopTraced, TypeOK
  <2>5. EndsOnlyWhenAsked'  BY DEF EndsOnlyWhenAsked, TypeOK
  <2>6. PathKnown'  BY DEF PathKnown, TypeOK, OverlapSeen, Running
  <2>7. StartsAfterCrash'  BY DEF StartsAfterCrash, TypeOK, PathKnown
  <2> QED BY <2>1, <2>2, <2>3, <2>4, <2>5, <2>6, <2>7
<1>4. ASSUME NEW d \in Daemon, Ready(d) PROVE IInv'
  <2> USE <1>4 DEF Ready, Goto, clientVars, history
  <2>1. TypeOK'  BY DEF TypeOK, Pending
  <2>2. OverlapSeen'  BY DEF OverlapSeen, Running, TypeOK
  <2>3. PathOwner'  BY DEF PathOwner, TypeOK
  <2>4. StopTraced'  BY DEF StopTraced, TypeOK
  <2>5. EndsOnlyWhenAsked'  BY DEF EndsOnlyWhenAsked, TypeOK
  <2>6. PathKnown'  BY DEF PathKnown, TypeOK
  <2>7. StartsAfterCrash'  BY DEF StartsAfterCrash, TypeOK
  <2> QED BY <2>1, <2>2, <2>3, <2>4, <2>5, <2>6, <2>7
<1>5. ASSUME NEW d \in Daemon, CheckShutdown(d) PROVE IInv'
  <2> USE <1>5 DEF CheckShutdown, Goto, clientVars, history
  <2>1. TypeOK'  BY DEF TypeOK, Pending
  <2>2. OverlapSeen'  BY DEF OverlapSeen, Running, TypeOK
  <2>3. PathOwner'  BY DEF PathOwner, TypeOK
  <2>4. StopTraced'  BY DEF StopTraced, TypeOK
  <2>5. EndsOnlyWhenAsked'  BY DEF EndsOnlyWhenAsked, TypeOK, StopTraced
  <2>6. PathKnown'  BY DEF PathKnown, TypeOK
  <2>7. StartsAfterCrash'  BY DEF StartsAfterCrash, TypeOK
  <2> QED BY <2>1, <2>2, <2>3, <2>4, <2>5, <2>6, <2>7
<1>6. ASSUME NEW d \in Daemon, Accept(d) PROVE IInv'
  <2> USE <1>6 DEF Accept, Goto, Move, history
  <2>1. TypeOK'  BY DEF TypeOK, Pending
  <2>2. OverlapSeen'  BY DEF OverlapSeen, Running, TypeOK
  <2>3. PathOwner'  BY DEF PathOwner, TypeOK
  <2>4. StopTraced'  BY DEF StopTraced, TypeOK
  <2>5. EndsOnlyWhenAsked'  BY DEF EndsOnlyWhenAsked, TypeOK
  <2>6. PathKnown'  BY DEF PathKnown, TypeOK
  <2>7. StartsAfterCrash'  BY DEF StartsAfterCrash, TypeOK
  <2> QED BY <2>1, <2>2, <2>3, <2>4, <2>5, <2>6, <2>7
<1>7. ASSUME NEW d \in Daemon, Leave(d) PROVE IInv'
  <2> USE <1>7 DEF Leave, Goto, clientVars, history
  <2>1. TypeOK'  BY DEF TypeOK, Pending
  <2>2. OverlapSeen'  BY DEF OverlapSeen, Running, TypeOK
  <2>3. PathOwner'  BY DEF PathOwner, TypeOK
  <2>4. StopTraced'  BY DEF StopTraced, TypeOK
  <2>5. EndsOnlyWhenAsked'  BY DEF EndsOnlyWhenAsked, TypeOK
  <2>6. PathKnown'  BY DEF PathKnown, TypeOK, OverlapSeen, Running
  <2>7. StartsAfterCrash'  BY DEF StartsAfterCrash, TypeOK
  <2> QED BY <2>1, <2>2, <2>3, <2>4, <2>5, <2>6, <2>7
<1>8. ASSUME NEW d \in Daemon, Exit(d) PROVE IInv'
  <2> USE <1>8 DEF Exit, End, Goto, history
  <2>1. TypeOK'  BY DEF TypeOK, Pending
  <2>2. OverlapSeen'  BY DEF OverlapSeen, Running, TypeOK
  <2>3. PathOwner'  BY DEF PathOwner, TypeOK
  <2>4. StopTraced'  BY DEF StopTraced, TypeOK
  <2>5. EndsOnlyWhenAsked'  BY DEF EndsOnlyWhenAsked, TypeOK
  <2>6. PathKnown'  BY DEF PathKnown, TypeOK
  <2>7. StartsAfterCrash'  BY DEF StartsAfterCrash, TypeOK
  <2> QED BY <2>1, <2>2, <2>3, <2>4, <2>5, <2>6, <2>7
<1>9. ASSUME NEW d \in Daemon, Crash(d) PROVE IInv'
  <2> USE <1>9 DEF Crash, End, Goto, history
  <2>1. TypeOK'  BY DEF TypeOK, Pending
  <2>2. OverlapSeen'  BY DEF OverlapSeen, Running, TypeOK
  <2>3. PathOwner'  BY DEF PathOwner, TypeOK
  <2>4. StopTraced'  BY DEF StopTraced, TypeOK
  <2>5. EndsOnlyWhenAsked'  BY DEF EndsOnlyWhenAsked, TypeOK
  <2>6. PathKnown'  BY DEF PathKnown, TypeOK
  <2>7. StartsAfterCrash'  BY DEF StartsAfterCrash, TypeOK
  <2> QED BY <2>1, <2>2, <2>3, <2>4, <2>5, <2>6, <2>7
<1>10. ASSUME NEW c \in Client, NEW r \in {"stop", "other"}, Connect(c, r) PROVE IInv'
  <2> USE <1>10 DEF Connect, Move, daemonVars, history
  <2>1. TypeOK'  BY DEF TypeOK, Pending
  <2>2. OverlapSeen' /\ PathOwner' /\ PathKnown' /\ StartsAfterCrash' /\ EndsOnlyWhenAsked'
    BY DEF OverlapSeen, Running, PathOwner, PathKnown, StartsAfterCrash, EndsOnlyWhenAsked
  <2>3. StopTraced'  BY DEF StopTraced, TypeOK
  <2> QED BY <2>1, <2>2, <2>3
<1>11. ASSUME NEW c \in Client, Handle(c) PROVE IInv'
  <2> USE <1>11 DEF Handle, Move, daemonVars
  <2>1. TypeOK'  BY DEF TypeOK, Pending
  <2>2. OverlapSeen' /\ PathOwner' /\ PathKnown' /\ StartsAfterCrash' /\ EndsOnlyWhenAsked'
    BY DEF OverlapSeen, Running, PathOwner, PathKnown, StartsAfterCrash, EndsOnlyWhenAsked
  <2>3. StopTraced'  BY DEF StopTraced, TypeOK
  <2> QED BY <2>1, <2>2, <2>3
<1>12. ASSUME NEW c \in Client, Answer(c) PROVE IInv'
  <2> USE <1>12 DEF Answer, Move, daemonVars, history
  <2>1. TypeOK'  BY DEF TypeOK, Pending
  <2>2. OverlapSeen' /\ PathOwner' /\ PathKnown' /\ StartsAfterCrash' /\ EndsOnlyWhenAsked'
    BY DEF OverlapSeen, Running, PathOwner, PathKnown, StartsAfterCrash, EndsOnlyWhenAsked
  <2>3. StopTraced'  BY DEF StopTraced, TypeOK
  <2> QED BY <2>1, <2>2, <2>3
<1>13. ASSUME NEW c \in Client, HangUp(c) PROVE IInv'
  <2> USE <1>13 DEF HangUp, Move, daemonVars, history
  <2>1. TypeOK'  BY DEF TypeOK, Pending
  <2>2. OverlapSeen' /\ PathOwner' /\ PathKnown' /\ StartsAfterCrash' /\ EndsOnlyWhenAsked'
    BY DEF OverlapSeen, Running, PathOwner, PathKnown, StartsAfterCrash, EndsOnlyWhenAsked
  <2>3. StopTraced'  BY DEF StopTraced, TypeOK
  <2> QED BY <2>1, <2>2, <2>3
<1>14. ASSUME NEW c \in Client, Notify(c) PROVE IInv'
  <2> USE <1>14 DEF Notify, Move, history
  <2>1. TypeOK'  BY DEF TypeOK, Pending
  <2>2. OverlapSeen' /\ PathOwner' /\ PathKnown' /\ StartsAfterCrash' /\ EndsOnlyWhenAsked'
    BY DEF OverlapSeen, Running, PathOwner, PathKnown, StartsAfterCrash, EndsOnlyWhenAsked
  <2>3. StopTraced'  BY DEF StopTraced, TypeOK
  <2> QED BY <2>1, <2>2, <2>3
<1>15. CASE UNCHANGED vars
  BY <1>15 DEF vars, TypeOK, Pending, OverlapSeen, Running, PathOwner, StopTraced,
               EndsOnlyWhenAsked, PathKnown, StartsAfterCrash
<1> QED BY <1>1, <1>2, <1>3, <1>4, <1>5, <1>6, <1>7, <1>8, <1>9, <1>10, <1>11, <1>12,
           <1>13, <1>14, <1>15 DEF Next, DaemonStep, HandlerStep

\* The inductive invariant holds in every reachable state.
THEOREM InvariantHolds == Spec => []IInv
<1> QED BY InitIInv, NextIInv, PTL DEF Spec

\* Every variable stays in its type, and a request under way has a daemon.
THEOREM TypeCorrect == Spec => []TypeOK
<1>1. IInv => TypeOK  BY DEF IInv
<1> QED BY <1>1, InvariantHolds, PTL

\* A daemon that met no other one is reached through the path while it serves,
\* whatever crashed before it was started.
THEOREM ReachableAlone == Spec => []ReachableUnlessOverlap
<1>1. IInv => ReachableUnlessOverlap
  BY DEF IInv, PathKnown, ReachableUnlessOverlap, ServingIsReachable, Serving
<1> QED BY <1>1, InvariantHolds, PTL

\* A daemon that ended by itself never leaves its socket behind, in whatever
\* order serve commands were started.
THEOREM SocketRemoved == Spec => []NoStaleSocket
<1>1. IInv => NoStaleSocket
  BY SocketAssumption DEF IInv, TypeOK, PathOwner, NoStaleSocket
<1> QED BY <1>1, InvariantHolds, PTL

\* A daemon ends by itself only when a client asked it to, never because of a
\* request to another daemon at the same path.
THEOREM EndsWhenAsked == Spec => []EndsOnlyWhenAsked
<1>1. IInv => EndsOnlyWhenAsked  BY DEF IInv
<1> QED BY <1>1, InvariantHolds, PTL

\* What a crash left behind never keeps a serve without a rival from starting.
THEOREM CrashLeavesNoObstacle == Spec => []StartsAfterCrash
<1>1. IInv => StartsAfterCrash  BY DEF IInv
<1> QED BY <1>1, InvariantHolds, PTL
=============================================================================
