--------------------------- MODULE DaemonSocket ---------------------------
(***************************************************************************)
(* The life of a daemon behind its unix socket (src/daemon.rs:             *)
(* serve_unix_with_policy, handle_stream, request_unix).                   *)
(*                                                                         *)
(* A daemon removes what it finds at the socket path, binds, serves every  *)
(* connection in a thread of its own and, once the thread of a shutdown    *)
(* request has signalled the accept loop, removes the path and ends.  The  *)
(* path is a name that every daemon started with it shares; it is tested,  *)
(* removed and bound in separate steps.  A daemon is one serve command, a  *)
(* client one command that sends a request.                                *)
(***************************************************************************)
EXTENDS Integers, FiniteSets

CONSTANTS
  Daemon,        \* serve commands
  Client,        \* commands that send one request
  NoDaemon,      \* nothing at the path, no connection
  WaitForStop,   \* a serve follows the answer to the stop of every earlier one
  MaxFaults      \* bound: crashes of daemons and clients that hang up

ASSUME SocketAssumption ==
  /\ NoDaemon \notin Daemon
  /\ WaitForStop \in BOOLEAN
  /\ MaxFaults \in Nat

VARIABLES
  socket,        \* the daemon whose listener the socket path names
  pc,            \* per daemon: where it is
  shutdown,      \* per daemon: shutdown_rx holds a message
  conn,          \* per client: the daemon it is connected to
  request,       \* per client: what it asks for
  stage,         \* per client: how far its request is
  result,        \* per client: what it returned
  overlap,       \* a serve was started while another daemon ran (history)
  stopped,       \* daemons a thread of which handled a shutdown request (history)
  faults

daemonVars == <<socket, pc, shutdown>>
clientVars == <<conn, request, stage, result>>
history == <<overlap, stopped>>
vars == <<socket, pc, shutdown, conn, request, stage, result, overlap, stopped, faults>>

Init ==
  /\ socket = NoDaemon
  /\ pc = [d \in Daemon |-> "off"]
  /\ shutdown = [d \in Daemon |-> FALSE]
  /\ conn = [c \in Client |-> NoDaemon]
  /\ request = [c \in Client |-> "none"]
  /\ stage = [c \in Client |-> "idle"]
  /\ result = [c \in Client |-> "none"]
  /\ overlap = FALSE
  /\ stopped = {}
  /\ faults = 0

Running(d) == pc[d] \notin {"off", "ended", "failed", "crashed"}
Listening(d) == pc[d] \in {"bound", "check", "accept", "leave", "exit"}

Goto(d, label) == pc' = [pc EXCEPT ![d] = label]
Move(c, label) == stage' = [stage EXCEPT ![c] = label]

Pending == {"queued", "accepted", "handled"}

\* The process ends: clients it has not answered read the end of the stream,
\* and its threads are gone.
End(d, how) ==
  /\ Goto(d, how)
  /\ stage' = [c \in Client |-> IF conn[c] = d THEN "done" ELSE stage[c]]
  /\ result' = [c \in Client |-> IF conn[c] = d /\ stage[c] \in Pending
                                 THEN "error" ELSE result[c]]
  /\ UNCHANGED <<shutdown, conn, request>>

----------------------------------------------------------------------------
(* serve: startup                                                          *)

Answered(d) == \E c \in Client : /\ conn[c] = d /\ request[c] = "stop"
                                 /\ result[c] = "ok"

\* Mutant: bound without a look at the path that a crash left behind.
Serve_NoCheck(d) ==
  /\ pc[d] = "off"
  /\ WaitForStop => \A e \in Daemon \ {d} : Running(e) => Answered(e)
  /\ Goto(d, "bind")
  /\ overlap' = (overlap \/ \E e \in Daemon : Running(e))
  /\ UNCHANGED <<socket, shutdown, clientVars, stopped, faults>>

\* socket_path.exists()
Serve(d) ==
  /\ pc[d] = "off"
  /\ WaitForStop => \A e \in Daemon \ {d} : Running(e) => Answered(e)
  /\ Goto(d, IF socket = NoDaemon THEN "bind" ELSE "remove")
  /\ overlap' = (overlap \/ \E e \in Daemon : Running(e))
  /\ UNCHANGED <<socket, shutdown, clientVars, stopped, faults>>

\* remove_file fails when the path has gone since.
RemoveStale(d) ==
  /\ pc[d] = "remove"
  /\ socket' = NoDaemon
  /\ Goto(d, IF socket = NoDaemon THEN "failed" ELSE "bind")
  /\ UNCHANGED <<shutdown, clientVars, history, faults>>

\* bind fails when the path has come back since.
Bind(d) ==
  /\ pc[d] = "bind"
  /\ IF socket = NoDaemon
     THEN socket' = d /\ Goto(d, "bound")
     ELSE Goto(d, "failed") /\ UNCHANGED socket
  /\ UNCHANGED <<shutdown, clientVars, history, faults>>

\* Mutant: the stale path is removed after the bind.
Ready_RemovesSocket(d) ==
  /\ pc[d] = "bound"
  /\ Goto(d, "check")
  /\ socket' = NoDaemon
  /\ UNCHANGED <<shutdown, clientVars, history, faults>>

\* SessionManager::new_with_policy; clients connect already.
Ready(d) ==
  /\ pc[d] = "bound"
  /\ Goto(d, "check")
  /\ UNCHANGED <<socket, shutdown, clientVars, history, faults>>

----------------------------------------------------------------------------
(* serve: the accept loop                                                  *)

\* shutdown_rx.try_recv()
CheckShutdown(d) ==
  /\ pc[d] = "check"
  /\ Goto(d, IF shutdown[d] THEN "leave" ELSE "accept")
  /\ UNCHANGED <<socket, shutdown, clientVars, history, faults>>

\* Mutant: the listener blocks.
Accept_Blocks(d) ==
  LET waiting == {c \in Client : conn[c] = d /\ stage[c] = "queued"} IN
  /\ pc[d] = "accept"
  /\ \E c \in waiting : Move(c, "accepted")
  /\ Goto(d, "check")
  /\ UNCHANGED <<socket, shutdown, conn, request, result, history, faults>>

\* accept, and a thread for the connection, or 25 ms of sleep without one.
Accept(d) ==
  LET waiting == {c \in Client : conn[c] = d /\ stage[c] = "queued"} IN
  /\ pc[d] = "accept"
  /\ \/ \E c \in waiting : Move(c, "accepted")
     \/ waiting = {} /\ UNCHANGED stage
  /\ Goto(d, "check")
  /\ UNCHANGED <<socket, shutdown, conn, request, result, history, faults>>

\* Mutant: the socket is left behind.
Leave_KeepsSocket(d) ==
  /\ pc[d] = "leave"
  /\ Goto(d, "exit")
  /\ UNCHANGED <<socket, shutdown, clientVars, history, faults>>

\* remove_file of the path, whatever it names; an error is ignored.
Leave(d) ==
  /\ pc[d] = "leave"
  /\ socket' = NoDaemon
  /\ Goto(d, "exit")
  /\ UNCHANGED <<shutdown, clientVars, history, faults>>

\* Mutant: the loop ends and the process with its connections does not.
Exit_KeepsConnections(d) ==
  /\ pc[d] = "exit"
  /\ Goto(d, "ended")
  /\ UNCHANGED <<socket, shutdown, clientVars, history, faults>>

\* serve_unix_with_policy returns and main ends the process.
Exit(d) ==
  /\ pc[d] = "exit"
  /\ End(d, "ended")
  /\ UNCHANGED <<socket, history, faults>>

\* A signal, or an error of accept: the path stays.
Crash(d) ==
  /\ Running(d)
  /\ faults < MaxFaults
  /\ faults' = faults + 1
  /\ End(d, "crashed")
  /\ UNCHANGED <<socket, history>>

----------------------------------------------------------------------------
(* request_unix and handle_stream                                          *)

\* A path that is missing or whose daemon is gone refuses the connection.
Connect(c, r) ==
  /\ stage[c] = "idle"
  /\ request' = [request EXCEPT ![c] = r]
  /\ IF socket # NoDaemon /\ Listening(socket)
     THEN /\ conn' = [conn EXCEPT ![c] = socket]
          /\ Move(c, "queued")
          /\ UNCHANGED result
     ELSE /\ result' = [result EXCEPT ![c] = "error"]
          /\ Move(c, "done")
          /\ UNCHANGED conn
  /\ UNCHANGED <<daemonVars, history, faults>>

\* The thread reads the request and carries it out.
Handle(c) ==
  /\ stage[c] = "accepted"
  /\ Move(c, "handled")
  /\ stopped' = IF request[c] = "stop" THEN stopped \cup {conn[c]} ELSE stopped
  /\ UNCHANGED <<daemonVars, conn, request, result, overlap, faults>>

\* The response is written before the accept loop is told.
Answer(c) ==
  /\ stage[c] = "handled"
  /\ result' = [result EXCEPT ![c] = "ok"]
  /\ Move(c, "answered")
  /\ UNCHANGED <<daemonVars, conn, request, history, faults>>

\* The client is gone: the write fails, and with it the shutdown.
HangUp(c) ==
  /\ stage[c] \in Pending
  /\ faults < MaxFaults
  /\ faults' = faults + 1
  /\ result' = [result EXCEPT ![c] = "error"]
  /\ Move(c, "done")
  /\ UNCHANGED <<daemonVars, conn, request, history>>

\* Mutant: the loop is told about every request.
Notify_Always(c) ==
  /\ stage[c] = "answered"
  /\ shutdown' = [shutdown EXCEPT ![conn[c]] = TRUE]
  /\ Move(c, "done")
  /\ UNCHANGED <<socket, pc, conn, request, result, history, faults>>

\* shutdown_tx.send(())
Notify(c) ==
  /\ stage[c] = "answered"
  /\ shutdown' = [shutdown EXCEPT ![conn[c]] = @ \/ request[c] = "stop"]
  /\ Move(c, "done")
  /\ UNCHANGED <<socket, pc, conn, request, result, history, faults>>

----------------------------------------------------------------------------

DaemonStep(d) ==
  \/ RemoveStale(d) \/ Bind(d) \/ Ready(d)
  \/ CheckShutdown(d) \/ Accept(d) \/ Leave(d) \/ Exit(d)

HandlerStep(c) == Handle(c) \/ Answer(c) \/ Notify(c)

Next ==
  \/ \E d \in Daemon : Serve(d) \/ DaemonStep(d) \/ Crash(d)
  \/ \E c \in Client : \/ \E r \in {"stop", "other"} : Connect(c, r)
                       \/ HandlerStep(c)
                       \/ HangUp(c)

Spec == Init /\ [][Next]_vars

\* The loop polls every 25 ms and a thread is not held up for ever: a request
\* ends by itself, a wait by its timeout.  An attachment, which lasts as long as
\* its client likes, is not among the requests here.
FairSpec == /\ Spec
            /\ \A d \in Daemon : WF_vars(DaemonStep(d))
            /\ \A c \in Client : WF_vars(HandlerStep(c))

----------------------------------------------------------------------------
(* Properties                                                              *)

\* Every variable stays in its type.
TypeOK ==
  /\ socket \in Daemon \cup {NoDaemon}
  /\ pc \in [Daemon -> {"off", "remove", "bind", "bound", "check", "accept", "leave",
                        "exit", "ended", "failed", "crashed"}]
  /\ shutdown \in [Daemon -> BOOLEAN]
  /\ conn \in [Client -> Daemon \cup {NoDaemon}]
  /\ request \in [Client -> {"none", "stop", "other"}]
  /\ stage \in [Client -> {"idle", "done", "answered"} \cup Pending]
  /\ result \in [Client -> {"none", "ok", "error"}]
  /\ \A c \in Client : stage[c] \in Pending => conn[c] \in Daemon
  /\ overlap \in BOOLEAN
  /\ stopped \in SUBSET Daemon
  /\ faults \in 0..MaxFaults

\* A daemon that serves, and was not asked to stop, is the one the path names,
\* so that every client reaches it (README, Session Backends: after stop and
\* serve a client reaches the fresh daemon).
Serving(d) == pc[d] \in {"bound", "check", "accept"} /\ d \notin stopped
ServingIsReachable == \A d \in Daemon : Serving(d) => socket = d

\* ... as long as no serve is started before the daemon before it has ended.
ReachableUnlessOverlap == ~overlap => ServingIsReachable

\* A daemon that ended by itself left no path behind that refuses connections
\* (tests/lifecycle_cli.rs waits for the removal).
NoStaleSocket == \A d \in Daemon : socket = d => pc[d] # "ended"

\* A daemon ends, short of a crash, only when a client asked it to.
EndsOnlyWhenAsked == \A d \in Daemon : pc[d] \in {"leave", "exit", "ended"} => d \in stopped

\* What a crash left at the path never keeps a serve from starting, when no
\* other serve is under way.
StartsAfterCrash == \A d \in Daemon : pc[d] = "failed" => overlap

\* A daemon whose client was told that it stopped does stop.
StopEnds == \A d \in Daemon : Answered(d) ~> pc[d] \in {"ended", "crashed"}

\* Every client that connects returns, also when the daemon ends meanwhile.
ClientsReturn == \A c \in Client : stage[c] = "queued" ~> stage[c] = "done"
=============================================================================
