---------------------------- MODULE Transports ----------------------------
(***************************************************************************)
(* How requests come in and what they leave in traces.jsonl                *)
(* (src/http.rs, src/mcp.rs, handle_request and handle_stream of           *)
(* src/daemon.rs, append_trace of src/session.rs).                         *)
(*                                                                         *)
(* The unix socket and HTTP servers run each connection on a thread of its *)
(* own and answer one request on it; the MCP server reads its standard     *)
(* input line by line.  The three are processes of their own over one log  *)
(* directory.  handle_request carries a request out and appends one trace  *)
(* event to a file that all of them have open for appending: serde_json    *)
(* writes an event piece by piece, without a lock, and errors are ignored. *)
(*                                                                         *)
(* Limits: what a request does, and the accept loop of the unix socket, is *)
(* the subject of the other modules; a header line is not told from the    *)
(* rest of a request.                                                      *)
(***************************************************************************)
EXTENDS Integers, Sequences, SequencesExt, FiniteSets

CONSTANTS
  Request,       \* the requests, and the lines on the input of the MCP server
  Servers,       \* the servers each may come to
  Pieces,        \* writes per trace event; the last one is the newline
  Null,          \* the id of an answer that names no request
  MaxFaults      \* bound: failed writes and dead servers

Transport == {"unix", "http", "mcp"}

ASSUME TransportsAssumption ==
  /\ Servers \in [Request -> SUBSET Transport]
  /\ Pieces \in Nat \ {0, 1}
  /\ Null \notin Request
  /\ MaxFaults \in Nat

VARIABLES
  up,            \* the servers that run
  over,          \* per request: the server it came to
  pc,            \* per request: how far it has come
  called,        \* the requests that got to handle_request
  result,        \* per request: what came of it
  answer,        \* per request: what its client got
  stdin,         \* the lines the MCP server has not read
  lines,         \* the lines that were written to it (history)
  stdout,        \* its answers: the id they carry and the line they are for
  traces,        \* the pieces in traces.jsonl
  written,       \* per request: pieces of its event that are written
  mixed,         \* requests that traced behind an unfinished event (history)
  faults         \* failed writes and dead servers so far

vars == <<up, over, pc, called, result, answer, stdin, lines, stdout, traces, written,
          mixed, faults>>
handleVars == <<called, result>>
mcpVars == <<stdin, lines, stdout>>
traceVars == <<traces, written, mixed>>

Init ==
  /\ up = Transport
  /\ over = [r \in Request |-> "none"]
  /\ pc = [r \in Request |-> "new"]
  /\ called = {}
  /\ result = [r \in Request |-> "none"]
  /\ answer = [r \in Request |-> "none"]
  /\ stdin = << >> /\ lines = << >> /\ stdout = << >>
  /\ traces = << >>
  /\ written = [r \in Request |-> 0]
  /\ mixed = {}
  /\ faults = 0

Go(r, label) == pc' = [pc EXCEPT ![r] = label]
Ends(r, what) == answer' = [answer EXCEPT ![r] = what] /\ Go(r, "done")

----------------------------------------------------------------------------
(* What arrives                                                            *)

\* serve_http_listener, serve_unix: a thread for each connection.
Connect(r) ==
  /\ pc[r] = "new"
  /\ \E server \in (up \cap Servers[r]) \ {"mcp"} : over' = [over EXCEPT ![r] = server]
  /\ Go(r, "read")
  /\ UNCHANGED <<up, handleVars, answer, mcpVars, traceVars, faults>>

WriteLine(r) ==
  /\ pc[r] = "new" /\ "mcp" \in up \cap Servers[r]
  /\ over' = [over EXCEPT ![r] = "mcp"]
  /\ stdin' = Append(stdin, r) /\ lines' = Append(lines, r)
  /\ Go(r, "queued")
  /\ UNCHANGED <<up, handleVars, answer, stdout, traceVars, faults>>

\* A request for handle_request; its outcome is in the other modules.
Call(r) == Go(r, "handle") /\ UNCHANGED <<answer, result>>

\* No JSON request, or not POST /request: WireResponse::error.
Refuse(r) == Ends(r, "refused") /\ UNCHANGED result

\* Attach and shutdown, which the unix socket serves without handle_request.
Stream(r) == over[r] = "unix" /\ Ends(r, "ok") /\ UNCHANGED result

\* No end of the header, no number in content-length, or too few bytes.
Cut(r) == over[r] = "http" /\ Ends(r, "closed") /\ UNCHANGED result

\* Mutant: the end of the stream in a header is not looked at.
ReadRequest_NoEof(r) ==
  /\ pc[r] = "read"
  /\ \/ Call(r)
     \/ Refuse(r)
     \/ Stream(r)
     \/ over[r] = "http" /\ Go(r, "stuck") /\ UNCHANGED <<answer, result>>
  /\ UNCHANGED <<up, over, called, mcpVars, traceVars, faults>>

\* handle_stream of both servers and handle_http_request, up to handle_request.
ReadRequest(r) ==
  /\ pc[r] = "read"
  /\ \/ Call(r)
     \/ Refuse(r)
     \/ Stream(r)
     \/ Cut(r)
  /\ UNCHANGED <<up, over, called, mcpVars, traceVars, faults>>

\* initialize and tools/list.
Local(r) == Go(r, "answer") /\ result' = [result EXCEPT ![r] = "ok"] /\ UNCHANGED answer

\* An unknown method or tool, an argument that is missing, a notification.
Unusable(r) ==
  Go(r, "answer") /\ result' = [result EXCEPT ![r] = "error"] /\ UNCHANGED answer

\* What the loop of serve_mcp_stdio does with a line.  A blank one is passed
\* over; one that is no JSON ends the server.
TakeLine(r) ==
  \/ Call(r) /\ UNCHANGED up
  \/ Local(r) /\ UNCHANGED up
  \/ Unusable(r) /\ UNCHANGED up
  \/ Ends(r, "nothing") /\ UNCHANGED <<up, result>>
  \/ Ends(r, "closed") /\ up' = up \ {"mcp"} /\ UNCHANGED result

\* Mutant: the loop reads on while a call is carried out.
ReadLine_Ahead ==
  /\ stdin # << >> /\ "mcp" \in up
  /\ stdin' = Tail(stdin)
  /\ TakeLine(Head(stdin))
  /\ UNCHANGED <<over, called, lines, stdout, traceVars, faults>>

\* The server carries out one line at a time.
ReadLine ==
  /\ stdin # << >> /\ "mcp" \in up
  /\ \A r \in Request : over[r] = "mcp" => pc[r] \in {"queued", "done"}
  /\ stdin' = Tail(stdin)
  /\ TakeLine(Head(stdin))
  /\ UNCHANGED <<over, called, lines, stdout, traceVars, faults>>

----------------------------------------------------------------------------
(* handle_request                                                          *)

Handle(r) ==
  /\ pc[r] = "handle"
  /\ \E outcome \in {"ok", "error"} : result' = [result EXCEPT ![r] = outcome]
  /\ called' = called \cup {r}
  /\ Go(r, "trace")
  /\ UNCHANGED <<up, over, answer, mcpVars, traceVars, faults>>

\* Other events that were begun and not finished, some of them for ever.
Unfinished(r) == {q \in Request \ {r} : written[q] \in 1..(Pieces - 1)}

\* Mutant: the file is opened for writing instead of appending.
WritePiece_Truncates(r) ==
  /\ pc[r] = "trace"
  /\ traces' = Append(IF written[r] = 0 THEN << >> ELSE traces,
                      [of |-> r, piece |-> written[r] + 1, status |-> result[r]])
  /\ written' = [written EXCEPT ![r] = @ + 1]
  /\ mixed' = IF Unfinished(r) = {} THEN mixed ELSE mixed \cup Unfinished(r) \cup {r}
  /\ Go(r, IF written[r] + 1 = Pieces THEN "answer" ELSE "trace")
  /\ UNCHANGED <<up, over, handleVars, answer, mcpVars, faults>>

\* append_trace: one write of serde_json::to_writer, or the newline behind.
WritePiece(r) ==
  /\ pc[r] = "trace"
  /\ traces' = Append(traces, [of |-> r, piece |-> written[r] + 1, status |-> result[r]])
  /\ written' = [written EXCEPT ![r] = @ + 1]
  /\ mixed' = IF Unfinished(r) = {} THEN mixed ELSE mixed \cup Unfinished(r) \cup {r}
  /\ Go(r, IF written[r] + 1 = Pieces THEN "answer" ELSE "trace")
  /\ UNCHANGED <<up, over, handleVars, answer, mcpVars, faults>>

\* Mutant: an error of append_trace is the answer of the request.
TraceFails_Reported(r) ==
  /\ pc[r] = "trace"
  /\ faults < MaxFaults /\ faults' = faults + 1
  /\ result' = [result EXCEPT ![r] = "error"]
  /\ Go(r, "answer")
  /\ UNCHANGED <<up, over, called, answer, mcpVars, traceVars>>

\* The file cannot be opened or written: let _ = append_trace(..).
TraceFails(r) ==
  /\ pc[r] = "trace"
  /\ faults < MaxFaults /\ faults' = faults + 1
  /\ Go(r, "answer")
  /\ UNCHANGED <<up, over, handleVars, answer, mcpVars, traceVars>>

----------------------------------------------------------------------------
(* Answers                                                                 *)

\* Results of the MCP server carry the id of their message, errors none.
McpAnswer(r) == [id |-> IF result[r] = "error" THEN Null ELSE r, line |-> r]

Answer(r) ==
  /\ pc[r] = "answer"
  /\ Ends(r, result[r])
  /\ stdout' = IF over[r] = "mcp" THEN Append(stdout, McpAnswer(r)) ELSE stdout
  /\ UNCHANGED <<up, over, handleVars, stdin, lines, traceVars, faults>>

\* The client is gone.  A closed output ends the MCP server.
AnswerFails(r) ==
  /\ pc[r] = "answer"
  /\ Ends(r, "closed")
  /\ up' = up \ ({"mcp"} \cap {over[r]})
  /\ UNCHANGED <<over, handleVars, mcpVars, traceVars, faults>>

\* accept returns an error, the input of the MCP server ends, or a process is
\* killed: its threads stop where they are.
Dies(server) ==
  /\ server \in up
  /\ faults < MaxFaults /\ faults' = faults + 1
  /\ up' = up \ {server}
  /\ LET stopped == {r \in Request : over[r] = server /\ pc[r] # "done"} IN
     /\ pc' = [r \in Request |-> IF r \in stopped THEN "done" ELSE pc[r]]
     /\ answer' = [r \in Request |-> IF r \in stopped THEN "closed" ELSE answer[r]]
  /\ UNCHANGED <<over, handleVars, mcpVars, traceVars>>

\* Nobody reads the lines behind the end of the MCP server.
EndOfInput(r) ==
  /\ pc[r] = "queued" /\ "mcp" \notin up
  /\ Ends(r, "closed")
  /\ UNCHANGED <<up, over, handleVars, mcpVars, traceVars, faults>>

----------------------------------------------------------------------------

RequestStep(r) == \/ ReadRequest(r) \/ Handle(r) \/ WritePiece(r) \/ TraceFails(r)
                  \/ Answer(r) \/ AnswerFails(r) \/ EndOfInput(r)

Next == \/ \E r \in Request : Connect(r) \/ WriteLine(r) \/ RequestStep(r)
        \/ ReadLine
        \/ \E server \in Transport : Dies(server)

Spec == Init /\ [][Next]_vars

\* Threads run on; the handlers of other modules return.
FairSpec == Spec /\ WF_vars(ReadLine) /\ \A r \in Request : WF_vars(RequestStep(r))

----------------------------------------------------------------------------
(* Properties                                                              *)

\* Where the pieces of a request are in the trace log, and all of its event.
PiecesOf(r) == {i \in DOMAIN traces : traces[i].of = r}
WholeEvent(r) ==
  [i \in 1..Pieces |-> [of |-> r, piece |-> i, status |-> result[r]]]

\* A request has its trace event in the file before its client has an answer,
\* with the outcome the client is told (README.md:92 "trace events for daemon
\* requests"); only a failed write or a dead server leaves less, never more: the
\* pieces in the file are the first ones, in their order and each once.
TracedBeforeAnswered ==
  \A r \in called :
    /\ \A i \in PiecesOf(r) :
         /\ traces[i].status = result[r] /\ traces[i].piece <= Pieces
         /\ \A k \in 1..traces[i].piece : \E j \in PiecesOf(r) : traces[j].piece = k
    /\ \A i, j \in PiecesOf(r) : i < j => traces[i].piece < traces[j].piece
    /\ answer[r] \in {"ok", "error"} =>
         /\ answer[r] = result[r]
         /\ faults = 0 => \E i \in PiecesOf(r) : traces[i].piece = Pieces

\* An event is a line by itself unless it was written behind one that was not
\* finished: no file access but appending spoils traces.jsonl, and a request that
\* never reached handle_request leaves nothing in it.
TraceLinesWhole ==
  /\ \A i \in DOMAIN traces : traces[i].of \in called
  /\ \A r \in called \ mixed : written[r] = Pieces =>
       \E i \in 0..(Len(traces) - Pieces) :
         /\ SubSeq(traces, i + 1, i + Pieces) = WholeEvent(r)
         /\ i > 0 => traces[i].piece = Pieces

\* The answers of the MCP server are for the lines that want one, in their order
\* and each once, so that a client can tell by counting what an error without an
\* id belongs to; and nothing is carried out behind a line that is open.
Place(r) == CHOOSE i \in DOMAIN lines : lines[i] = r
AnsweredLines == {r \in Range(lines) : answer[r] \in {"ok", "error"}}

McpAnswersInOrder ==
  /\ {stdout[i].line : i \in DOMAIN stdout} = AnsweredLines
  /\ \A i, j \in DOMAIN stdout : i < j => Place(stdout[i].line) < Place(stdout[j].line)
  /\ \A i \in DOMAIN stdout : stdout[i].id \in {stdout[i].line, Null}
  /\ \A i, j \in DOMAIN lines :
       i < j /\ pc[lines[j]] \in {"handle", "trace", "answer"} => pc[lines[i]] = "done"

\* Every connection and every line comes to an end.
RequestsEnd == \A r \in Request : pc[r] # "new" ~> pc[r] = "done"

----------------------------------------------------------------------------
(* Types                                                                   *)

TypeOK ==
  /\ up \subseteq Transport
  /\ over \in [Request -> Transport \cup {"none"}]
  /\ pc \in [Request -> {"new", "queued", "read", "handle", "trace", "answer", "done"}]
  /\ called \subseteq Request
  /\ result \in [Request -> {"none", "ok", "error"}]
  /\ answer \in [Request -> {"none", "ok", "error", "refused", "closed", "nothing"}]
  /\ stdin \in Seq(Request) /\ lines \in Seq(Request)
  /\ stdout \in Seq([id : Request \cup {Null}, line : Request])
  /\ traces \in Seq([of : Request, piece : 1..Pieces, status : {"none", "ok", "error"}])
  /\ written \in [Request -> 0..Pieces] /\ mixed \subseteq Request
  /\ faults \in 0..MaxFaults
=============================================================================
