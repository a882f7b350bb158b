------------------------- MODULE Transports_proofs -------------------------
(***************************************************************************)
(* Proofs about Transports, for any requests, servers and pieces of an     *)
(* event, and any number of failed writes and dead servers.                *)
(***************************************************************************)
EXTENDS Transports, SequenceTheorems, TLAPS

----------------------------------------------------------------------------
(* The inductive invariant.                                                *)

\* What is known of a request from where it is.
PathHeld(r) ==
  /\ pc[r] = "new" => over[r] = "none"
  /\ pc[r] = "read" => over[r] \in {"unix", "http"}
  /\ pc[r] \in {"new", "queued", "read", "handle"} => written[r] = 0 /\ r \notin called
  /\ pc[r] = "trace" => r \in called /\ written[r] < Pieces
  /\ pc[r] \in {"trace", "answer"} => result[r] \in {"ok", "error"}
  /\ pc[r] # "done" => answer[r] = "none"
  /\ written[r] > 0 => r \in called
  /\ r \in called /\ answer[r] \in {"ok", "error"} => answer[r] = result[r]
  /\ faults = 0 /\ r \in called /\ (pc[r] = "answer" \/ answer[r] \in {"ok", "error"}) =>
       written[r] = Pieces

\* The MCP server takes the lines in their order, one at a time; those it has not
\* taken are in its input, and nobody is served when it is down.
Taken == Len(lines) - Len(stdin)
LineHeld(i) ==
  /\ over[lines[i]] = "mcp"
  /\ i < Taken => pc[lines[i]] = "done"
  /\ i = Taken => pc[lines[i]] \in {"handle", "trace", "answer", "done"}
  /\ i > Taken => pc[lines[i]] = "queued" \/ (pc[lines[i]] = "done" /\ "mcp" \notin up)
  /\ i > Taken => answer[lines[i]] \in {"none", "closed"}
  /\ pc[lines[i]] \in {"handle", "trace", "answer"} => "mcp" \in up
LinesHeld ==
  /\ \A i, j \in DOMAIN lines : lines[i] = lines[j] => i = j
  /\ \A r \in Request : over[r] = "mcp" => \E i \in DOMAIN lines : lines[i] = r
  /\ Len(stdin) <= Len(lines)
  /\ \A i \in DOMAIN stdin : stdin[i] = lines[Taken + i]
  /\ \A i \in DOMAIN lines : LineHeld(i)

\* The pieces of a request that are written are the first ones, each once.
PiecesHeld(r) ==
  /\ \A i \in PiecesOf(r) : traces[i].status = result[r] /\ traces[i].piece <= written[r]
  /\ \A k \in 1..written[r] : \E i \in PiecesOf(r) : traces[i].piece = k
  /\ \A i, j \in PiecesOf(r) : i < j => traces[i].piece < traces[j].piece

\* The newest piece in the file is the newest of its request, and an event that
\* is not mixed with others is in one row, at the end until it is finished.
NewestHeld == traces # << >> => traces[Len(traces)].piece = written[traces[Len(traces)].of]
RowHeld(r) ==
  r \notin mixed /\ written[r] > 0 =>
    \E i \in 0..(Len(traces) - written[r]) :
      /\ \A j \in 1..written[r] : traces[i + j] = [of |-> r, piece |-> j, status |-> result[r]]
      /\ i > 0 => traces[i].piece = Pieces
      /\ written[r] < Pieces => i + written[r] = Len(traces)

StdoutHeld ==
  /\ {stdout[i].line : i \in DOMAIN stdout} = AnsweredLines
  /\ \A i, j \in DOMAIN stdout : i < j => Place(stdout[i].line) < Place(stdout[j].line)
  /\ \A i \in DOMAIN stdout : stdout[i].id \in {stdout[i].line, Null}

IInv ==
  /\ TypeOK
  /\ \A r \in Request : PathHeld(r)
  /\ LinesHeld
  /\ \A r \in Request : PiecesHeld(r)
  /\ NewestHeld
  /\ \A r \in Request : RowHeld(r)
  /\ StdoutHeld

----------------------------------------------------------------------------
(* Types.                                                                  *)

Piece == [of : Request, piece : 1..Pieces, status : {"none", "ok", "error"}]
AnswerLine == [id : Request \cup {Null}, line : Request]

\* What an append does to a sequence.
LEMMA Appends ==
  ASSUME NEW S, NEW s \in Seq(S), NEW e \in S
  PROVE  /\ Append(s, e) \in Seq(S) /\ Len(Append(s, e)) = Len(s) + 1 /\ Len(s) \in Nat
         /\ DOMAIN Append(s, e) = 1..(Len(s) + 1) /\ DOMAIN s = 1..Len(s)
         /\ \A i \in DOMAIN s : i \in DOMAIN Append(s, e) /\ Append(s, e)[i] = s[i]
         /\ \A i \in DOMAIN Append(s, e) : i \in DOMAIN s \/ i = Len(s) + 1
         /\ Append(s, e)[Len(s) + 1] = e
OBVIOUS

\* A line that the MCP server takes is one that is in its input.
LEMMA HeadOfInput ==
  ASSUME TypeOK, stdin # << >>
  PROVE  Head(stdin) \in Request /\ Head(stdin) = stdin[1] /\ Tail(stdin) \in Seq(Request)
BY DEF TypeOK

\* The parts of TypeOK a step can disturb.
StateTypes ==
  /\ up \subseteq Transport
  /\ over \in [Request -> Transport \cup {"none"}]
  /\ pc \in [Request -> {"new", "queued", "read", "handle", "trace", "answer", "done"}]
  /\ called \subseteq Request
  /\ result \in [Request -> {"none", "ok", "error"}]
  /\ answer \in [Request -> {"none", "ok", "error", "refused", "closed", "nothing"}]
  /\ faults \in 0..MaxFaults
RowTypes ==
  /\ stdin \in Seq(Request) /\ lines \in Seq(Request)
  /\ stdout \in Seq(AnswerLine)
  /\ traces \in Seq(Piece)
  /\ written \in [Request -> 0..Pieces] /\ mixed \subseteq Request

\* They are all of it.
LEMMA Split == TypeOK <=> StateTypes /\ RowTypes
BY DEF TypeOK, StateTypes, RowTypes, Piece, AnswerLine

\* Steps keep the types of what belongs to a request.
LEMMA StateTypesStep ==
  ASSUME TypeOK, Next
  PROVE  StateTypes'
<1> USE DEF StateTypes
<1>1. StateTypes
  BY Split
<1>2. CASE \E r \in Request : Connect(r) \/ WriteLine(r)
  <2>1. PICK r \in Request : Connect(r) \/ WriteLine(r)
    BY <1>2
  <2>2. UNCHANGED <<up, handleVars, answer, faults>>
    BY <2>1 DEF Connect, WriteLine
  <2>3. PICK server \in Transport : over' = [over EXCEPT ![r] = server]
    BY <1>1, <2>1 DEF Connect, WriteLine, Transport
  <2>4. pc' \in [Request -> {"new", "queued", "read", "handle", "trace", "answer", "done"}]
    BY <1>1, <2>1 DEF Connect, WriteLine, Go
  <2> QED BY <1>1, <2>2, <2>3, <2>4 DEF handleVars
<1>3. CASE \E r \in Request : ReadRequest(r)
  BY <1>1, <1>3 DEF ReadRequest, Call, Refuse, Stream, Cut, Ends, Go
<1>4. CASE \E r \in Request : Handle(r) \/ WritePiece(r)
  BY <1>1, <1>4 DEF Handle, WritePiece, Go, handleVars
<1>5. CASE \E r \in Request : TraceFails(r) \/ Answer(r) \/ AnswerFails(r) \/ EndOfInput(r)
  BY <1>1, <1>5, TransportsAssumption
     DEF TraceFails, Answer, AnswerFails, EndOfInput, Ends, Go, handleVars
<1>6. CASE ReadLine
  <2>1. Head(stdin) \in Request
    BY <1>6, HeadOfInput DEF ReadLine
  <2> QED BY <1>1, <1>6, <2>1 DEF ReadLine, TakeLine, Call, Local, Unusable, Ends, Go
<1>7. CASE \E server \in Transport : Dies(server)
  BY <1>1, <1>7, TransportsAssumption DEF Dies, handleVars
<1> QED BY <1>2, <1>3, <1>4, <1>5, <1>6, <1>7 DEF Next, RequestStep

\* Steps keep the types of what they write.
LEMMA RowTypesStep ==
  ASSUME TypeOK, Next, \A r \in Request : pc[r] = "trace" => written[r] < Pieces
  PROVE  RowTypes'
<1> USE DEF RowTypes
<1>1. StateTypes /\ RowTypes
  BY Split
<1>2. CASE \E r \in Request : WriteLine(r)
  <2>1. PICK r \in Request : WriteLine(r)
    BY <1>2
  <2>2. stdin' \in Seq(Request) /\ lines' \in Seq(Request)
    BY <1>1, <2>1, Appends DEF WriteLine
  <2> QED BY <1>1, <2>1, <2>2 DEF WriteLine, traceVars
<1>3. CASE \E r \in Request : WritePiece(r)
  <2>1. PICK r \in Request : WritePiece(r)
    BY <1>3
  <2> DEFINE p == [of |-> r, piece |-> written[r] + 1, status |-> result[r]]
  <2>2. written[r] \in 0..Pieces /\ written[r] < Pieces /\ Pieces \in Nat
    BY <1>1, <2>1, TransportsAssumption DEF WritePiece
  <2>3. written[r] + 1 \in 1..Pieces /\ written[r] + 1 \in 0..Pieces
    BY <2>2
  <2>4. p \in Piece
    BY <1>1, <2>3 DEF Piece, StateTypes
  <2>5. traces' = Append(traces, p)
    BY <2>1 DEF WritePiece
  <2> HIDE DEF p, Piece
  <2>6. traces' \in Seq(Piece)
    BY <1>1, <2>4, <2>5, Appends
  <2>7. written' \in [Request -> 0..Pieces] /\ mixed' \subseteq Request
    BY <1>1, <2>1, <2>3 DEF WritePiece, Unfinished
  <2> QED BY <1>1, <2>1, <2>6, <2>7 DEF WritePiece, mcpVars
<1>4. CASE \E r \in Request : Answer(r)
  <2>1. PICK r \in Request : Answer(r)
    BY <1>4
  <2>2. McpAnswer(r) \in AnswerLine
    BY DEF McpAnswer, AnswerLine
  <2> HIDE DEF AnswerLine
  <2>3. stdout' \in Seq(AnswerLine)
    BY <1>1, <2>1, <2>2, Appends DEF Answer
  <2> QED BY <1>1, <2>1, <2>3 DEF Answer, traceVars
<1>5. CASE ReadLine
  BY <1>1, <1>5, HeadOfInput DEF ReadLine, traceVars
<1>6. CASE UNCHANGED <<mcpVars, traceVars>>
  BY <1>1, <1>6 DEF mcpVars, traceVars
<1> QED BY <1>2, <1>3, <1>4, <1>5, <1>6 DEF Next, RequestStep, Connect, ReadRequest, Handle,
           TraceFails, AnswerFails, EndOfInput, Dies

----------------------------------------------------------------------------
(* The way of a request.                                                   *)

Open == {"handle", "trace", "answer"}

\* The line the MCP server takes has not been served, and all before it have.
LEMMA TakenLine ==
  ASSUME TypeOK, LinesHeld, ReadLine
  PROVE  /\ Head(stdin) \in Request /\ pc[Head(stdin)] = "queued" /\ over[Head(stdin)] = "mcp"
         /\ Taken \in Nat /\ Taken + 1 \in DOMAIN lines /\ Head(stdin) = lines[Taken + 1]
         /\ \A i \in DOMAIN lines : i <= Taken => pc[lines[i]] = "done"
         /\ "mcp" \in up
<1>1. Head(stdin) \in Request /\ Head(stdin) = stdin[1]
  BY HeadOfInput DEF ReadLine
<1>2. /\ Len(lines) \in Nat /\ Len(stdin) \in Nat /\ DOMAIN lines = 1..Len(lines)
      /\ DOMAIN stdin = 1..Len(stdin) /\ \A i \in DOMAIN lines : lines[i] \in Request
  BY DEF TypeOK
<1>3. stdin # << >> /\ "mcp" \in up
      /\ \A r \in Request : over[r] = "mcp" => pc[r] \in {"queued", "done"}
  BY DEF ReadLine
<1>4. Len(stdin) > 0 /\ Len(stdin) <= Len(lines)
  BY <1>2, <1>3, EmptySeq DEF LinesHeld, TypeOK
<1>5. Taken \in Nat /\ Taken + 1 \in DOMAIN lines /\ 1 \in DOMAIN stdin
  BY <1>2, <1>4 DEF Taken
<1>6. Head(stdin) = lines[Taken + 1]
  BY <1>1, <1>5 DEF LinesHeld
<1>7. LineHeld(Taken + 1)
  BY <1>5 DEF LinesHeld
<1>8. pc[Head(stdin)] = "queued" /\ over[Head(stdin)] = "mcp"
  <2>1. Taken + 1 > Taken
    BY <1>5
  <2> QED BY <1>3, <1>6, <1>7, <2>1 DEF LineHeld
<1>9. \A i \in DOMAIN lines : i <= Taken => pc[lines[i]] = "done"
  <2> SUFFICES ASSUME NEW i \in DOMAIN lines, i <= Taken PROVE pc[lines[i]] = "done"
    OBVIOUS
  <2>1. LineHeld(i) /\ (i < Taken \/ i = Taken)
    BY <1>2, <1>5 DEF LinesHeld
  <2>2. pc[lines[i]] \in {"queued", "done"}
    BY <1>2, <1>3, <2>1 DEF LineHeld
  <2> QED BY <2>1, <2>2 DEF LineHeld
<1> QED BY <1>1, <1>3, <1>5, <1>6, <1>8, <1>9

\* What is known of a request from where it is stays true.
LEMMA PathStep ==
  ASSUME IInv, Next, NEW r \in Request
  PROVE  PathHeld(r)'
<1>1. TypeOK /\ PathHeld(r) /\ LinesHeld /\ Pieces \in Nat \ {0, 1}
  BY TransportsAssumption DEF IInv
<1>2. CASE \E q \in Request : Connect(q) \/ WriteLine(q)
  <2>1. PICK q \in Request : Connect(q) \/ WriteLine(q)
    BY <1>2
  <2>2. UNCHANGED <<up, called, result, answer, traces, written, mixed, faults>>
    BY <2>1 DEF Connect, WriteLine, handleVars, traceVars
  <2>3. CASE q # r
    <3>1. pc'[r] = pc[r] /\ over'[r] = over[r]
      BY <1>1, <2>1, <2>3 DEF Connect, WriteLine, Go, TypeOK
    <3> QED BY <1>1, <2>2, <3>1 DEF PathHeld
  <2>4. CASE q = r
    <3>1. /\ pc[r] = "new"
          /\ \/ pc'[r] = "read" /\ over'[r] \in {"unix", "http"}
             \/ pc'[r] = "queued"
      BY <1>1, <2>1, <2>4 DEF Connect, WriteLine, Go, TypeOK, Transport
    <3> QED BY <1>1, <2>2, <3>1 DEF PathHeld
  <2> QED BY <2>3, <2>4
<1>3. CASE \E q \in Request : ReadRequest(q)
  <2>1. PICK q \in Request : ReadRequest(q)
    BY <1>3
  <2>2. UNCHANGED <<over, called, result, written, faults>>
    BY <2>1 DEF ReadRequest, traceVars, Call, Refuse, Stream, Cut
  <2>3. CASE q # r
    <3>1. pc'[r] = pc[r] /\ answer'[r] = answer[r]
      BY <1>1, <2>1, <2>3 DEF ReadRequest, Call, Refuse, Stream, Cut, Ends, Go, TypeOK
    <3> QED BY <1>1, <2>2, <3>1 DEF PathHeld
  <2>4. CASE q = r
    <3>1. /\ pc[r] = "read"
          /\ \/ pc'[r] = "handle" /\ answer' = answer
             \/ pc'[r] = "done"
      BY <1>1, <2>1, <2>4 DEF ReadRequest, Call, Refuse, Stream, Cut, Ends, Go, TypeOK
    <3> QED BY <1>1, <2>2, <3>1 DEF PathHeld, TypeOK
  <2> QED BY <2>3, <2>4
<1>4. CASE ReadLine
  <2> DEFINE q == Head(stdin)
  <2>1. q \in Request /\ pc[q] = "queued" /\ over[q] = "mcp"
    BY <1>1, <1>4, TakenLine
  <2>2. UNCHANGED <<over, called, written, faults>> /\ TakeLine(q)
    BY <1>4 DEF ReadLine, traceVars
  <2> HIDE DEF q
  <2>3. CASE q # r
    <3>1. pc'[r] = pc[r] /\ answer'[r] = answer[r] /\ result'[r] = result[r]
      BY <1>1, <2>2, <2>3 DEF TakeLine, Call, Local, Unusable, Ends, Go, TypeOK
    <3> QED BY <1>1, <2>2, <3>1 DEF PathHeld
  <2>4. CASE q = r
    <3>1. \/ pc'[r] = "handle" /\ answer' = answer
          \/ pc'[r] = "answer" /\ answer' = answer /\ result'[r] \in {"ok", "error"}
          \/ pc'[r] = "done"
      BY <1>1, <2>1, <2>2, <2>4 DEF TakeLine, Call, Local, Unusable, Ends, Go, TypeOK
    <3> QED BY <1>1, <2>1, <2>2, <2>4, <3>1 DEF PathHeld, TypeOK
  <2> QED BY <2>3, <2>4
<1>5. CASE \E q \in Request : Handle(q)
  BY <1>1, <1>5 DEF Handle, Go, PathHeld, TypeOK, traceVars
<1>6. CASE \E q \in Request : WritePiece(q)
  <2>1. PICK q \in Request : WritePiece(q)
    BY <1>6
  <2>2. UNCHANGED <<over, called, result, answer, faults>>
    BY <2>1 DEF WritePiece, handleVars
  <2>3. CASE q # r
    <3>1. pc'[r] = pc[r] /\ written'[r] = written[r]
      BY <1>1, <2>1, <2>3 DEF WritePiece, Go, TypeOK
    <3> QED BY <1>1, <2>2, <3>1 DEF PathHeld
  <2>4. CASE q = r
    <3>1. /\ pc[r] = "trace" /\ written'[r] = written[r] + 1
          /\ pc'[r] = (IF written[r] + 1 = Pieces THEN "answer" ELSE "trace")
      BY <1>1, <2>1, <2>4 DEF WritePiece, Go, TypeOK
    <3>2. written[r] \in 0..Pieces /\ written[r] < Pieces /\ r \in called
      BY <1>1, <3>1 DEF PathHeld, TypeOK
    <3>3. written'[r] > 0 /\ (written[r] + 1 # Pieces => written'[r] < Pieces)
      BY <1>1, <3>1, <3>2
    <3> QED BY <1>1, <2>2, <3>1, <3>2, <3>3 DEF PathHeld
  <2> QED BY <2>3, <2>4
<1>7. CASE \E q \in Request : TraceFails(q)
  BY <1>1, <1>7 DEF TraceFails, Go, PathHeld, TypeOK, handleVars, traceVars
<1>8. CASE \E q \in Request : Answer(q) \/ AnswerFails(q) \/ EndOfInput(q)
  BY <1>1, <1>8 DEF Answer, AnswerFails, EndOfInput, Ends, Go, PathHeld, TypeOK, handleVars,
     traceVars
<1>9. CASE \E server \in Transport : Dies(server)
  <2>1. PICK server \in Transport : Dies(server)
    BY <1>9
  <2>2. UNCHANGED <<over, called, result, written>> /\ faults' # 0
    BY <1>1, <2>1 DEF Dies, handleVars, traceVars, TypeOK
  <2>3. \/ pc'[r] = pc[r] /\ answer'[r] = answer[r]
        \/ pc'[r] = "done" /\ answer'[r] = "closed"
    BY <2>1 DEF Dies
  <2> QED BY <1>1, <2>2, <2>3 DEF PathHeld
<1> QED BY <1>2, <1>3, <1>4, <1>5, <1>6, <1>7, <1>8, <1>9 DEF Next, RequestStep

----------------------------------------------------------------------------
(* The lines of the MCP server.                                            *)

\* What a step may do to a line that was written, when none is written or taken:
\* leave it, serve the one that is open, or end it with the server.
Left(i) == /\ pc'[lines[i]] = pc[lines[i]] /\ answer'[lines[i]] = answer[lines[i]]
           /\ pc[lines[i]] \in Open => "mcp" \in up'
Served(i) == /\ pc[lines[i]] \in Open /\ pc'[lines[i]] \in Open \cup {"done"}
             /\ pc'[lines[i]] \in Open => "mcp" \in up'
Ended(i) == pc'[lines[i]] = "done" /\ answer'[lines[i]] = "closed" /\ "mcp" \notin up'

\* Such a step keeps the lines in order.
LEMMA LinesStay ==
  ASSUME LinesHeld, lines' = lines, stdin' = stdin, up' \subseteq up,
         \A r \in Request : over'[r] = "mcp" => over[r] = "mcp",
         \A i \in DOMAIN lines : over'[lines[i]] = "mcp" /\ (Left(i) \/ Served(i) \/ Ended(i)),
         Taken \in Int, DOMAIN lines \subseteq Nat
  PROVE  LinesHeld'
<1>1. Taken' = Taken
  BY DEF Taken
<1>2. ASSUME NEW i \in DOMAIN lines PROVE LineHeld(i)'
  <2>1. LineHeld(i) /\ over'[lines[i]] = "mcp"
    BY DEF LinesHeld
  <2>2. CASE Left(i)
    BY <1>1, <2>1, <2>2 DEF LineHeld, Left, Open
  <2>3. CASE Served(i)
    <3>1. i = Taken
      <4>1. ~(i < Taken) /\ ~(i > Taken)
        BY <2>1, <2>3 DEF LineHeld, Served, Open
      <4> QED BY <4>1
    <3> QED BY <1>1, <2>1, <2>3, <3>1 DEF LineHeld, Served, Open
  <2>4. CASE Ended(i)
    BY <1>1, <2>1, <2>4 DEF LineHeld, Ended
  <2> QED BY <1>2, <2>2, <2>3, <2>4
<1> QED BY <1>1, <1>2 DEF LinesHeld

\* A line that is written is the last, and was not written before.
LEMMA LinesWritten ==
  ASSUME TypeOK, LinesHeld, NEW r \in Request, PathHeld(r), WriteLine(r)
  PROVE  LinesHeld'
<1>1. /\ pc[r] = "new" /\ "mcp" \in up /\ up' = up /\ answer' = answer
      /\ over' = [over EXCEPT ![r] = "mcp"] /\ pc' = [pc EXCEPT ![r] = "queued"]
      /\ stdin' = Append(stdin, r) /\ lines' = Append(lines, r)
  BY DEF WriteLine, Go
<1>2. over[r] = "none" /\ answer[r] = "none"
  BY <1>1 DEF PathHeld
<1>3. /\ Len(lines) \in Nat /\ DOMAIN lines = 1..Len(lines)
      /\ \A i \in DOMAIN lines : lines[i] \in Request
      /\ Len(stdin) \in Nat /\ DOMAIN stdin = 1..Len(stdin)
  BY DEF TypeOK
<1>4. /\ Len(lines') = Len(lines) + 1 /\ DOMAIN lines' = 1..(Len(lines) + 1)
      /\ \A i \in DOMAIN lines : i \in DOMAIN lines' /\ lines'[i] = lines[i]
      /\ \A i \in DOMAIN lines' : i \in DOMAIN lines \/ i = Len(lines) + 1
      /\ lines'[Len(lines) + 1] = r
  BY <1>1, Appends DEF TypeOK
<1>5. /\ Len(stdin') = Len(stdin) + 1 /\ DOMAIN stdin' = 1..(Len(stdin) + 1)
      /\ \A i \in DOMAIN stdin : i \in DOMAIN stdin' /\ stdin'[i] = stdin[i]
      /\ \A i \in DOMAIN stdin' : i \in DOMAIN stdin \/ i = Len(stdin) + 1
      /\ stdin'[Len(stdin) + 1] = r
  BY <1>1, Appends DEF TypeOK
<1>6. Taken' = Taken /\ Taken \in Nat /\ Taken <= Len(lines)
      /\ Taken + Len(stdin) = Len(lines) /\ Len(stdin) <= Len(lines)
  BY <1>3, <1>4, <1>5 DEF Taken, LinesHeld
<1>7. \A i \in DOMAIN lines : LineHeld(i) /\ lines[i] # r
  BY <1>2 DEF LinesHeld, LineHeld
<1>8. \A i \in DOMAIN lines : LineHeld(i)'
  <2> TAKE i \in DOMAIN lines
  <2>1. lines'[i] = lines[i] /\ lines[i] # r /\ LineHeld(i) /\ lines[i] \in Request
    BY <1>3, <1>4, <1>7
  <2>2. /\ pc'[lines[i]] = pc[lines[i]] /\ over'[lines[i]] = over[lines[i]]
        /\ answer'[lines[i]] = answer[lines[i]]
    BY <1>1, <2>1 DEF TypeOK
  <2> QED BY <1>1, <1>6, <2>1, <2>2 DEF LineHeld
<1> PICK n \in Nat : n = Len(lines) + 1
  BY <1>3
<1>9. LineHeld(n)'
  <2>1. n > Taken
    BY <1>3, <1>6
  <2>2. pc'[r] = "queued" /\ over'[r] = "mcp" /\ answer'[r] = "none"
    BY <1>1, <1>2 DEF TypeOK
  <2>3. ~(n < Taken) /\ n # Taken
    BY <1>3, <1>6
  <2> QED BY <1>4, <1>6, <2>1, <2>2, <2>3 DEF LineHeld
<1>10. \A i, j \in DOMAIN lines' : lines'[i] = lines'[j] => i = j
  BY <1>4, <1>7 DEF LinesHeld
<1>11. \A q \in Request : over'[q] = "mcp" => \E i \in DOMAIN lines' : lines'[i] = q
  <2> SUFFICES ASSUME NEW q \in Request, over'[q] = "mcp" PROVE \E i \in DOMAIN lines' : lines'[i] = q
    OBVIOUS
  <2>1. CASE q = r
    <3>1. Len(lines) + 1 \in DOMAIN lines'
      BY <1>3, <1>4
    <3> QED BY <1>4, <2>1, <3>1
  <2>2. CASE q # r
    <3>1. over[q] = "mcp"
      BY <1>1, <2>2 DEF TypeOK
    <3> QED BY <1>4, <3>1 DEF LinesHeld
  <2> QED BY <2>1, <2>2
<1>12. \A i \in DOMAIN stdin' : stdin'[i] = lines'[Taken' + i]
  <2> TAKE i \in DOMAIN stdin'
  <2>1. CASE i \in DOMAIN stdin
    <3>1. i \in 1..Len(stdin)
      BY <1>3, <2>1
    <3>2. Taken + i \in DOMAIN lines
      BY <1>3, <1>6, <3>1
    <3> QED BY <1>4, <1>5, <1>6, <2>1, <3>2 DEF LinesHeld
  <2>2. CASE i = Len(stdin) + 1
    <3>1. Taken + i = Len(lines) + 1
      BY <1>3, <1>6, <2>2
    <3> QED BY <1>4, <1>5, <1>6, <2>2, <3>1
  <2> QED BY <1>5, <2>1, <2>2
<1>13. Len(stdin') <= Len(lines')
  BY <1>3, <1>4, <1>5, <1>6
<1> QED BY <1>4, <1>8, <1>9, <1>10, <1>11, <1>12, <1>13 DEF LinesHeld

\* A line that is taken is the next, and all before it were served.
LEMMA LinesTaken ==
  ASSUME TypeOK, LinesHeld, ReadLine
  PROVE  LinesHeld'
<1> DEFINE q == Head(stdin)
<1>1. /\ q \in Request /\ pc[q] = "queued" /\ over[q] = "mcp"
      /\ Taken \in Nat /\ Taken + 1 \in DOMAIN lines /\ q = lines[Taken + 1]
      /\ \A i \in DOMAIN lines : i <= Taken => pc[lines[i]] = "done"
      /\ "mcp" \in up
  BY TakenLine
<1>2. /\ lines' = lines /\ over' = over /\ stdin' = Tail(stdin) /\ TakeLine(q)
  BY DEF ReadLine
<1>3. /\ Len(lines) \in Nat /\ DOMAIN lines = 1..Len(lines)
      /\ \A i \in DOMAIN lines : lines[i] \in Request
      /\ Len(stdin) \in Nat /\ DOMAIN stdin = 1..Len(stdin) /\ stdin # << >>
  BY DEF TypeOK, ReadLine
<1>4. /\ Len(stdin') = Len(stdin) - 1 /\ DOMAIN stdin' = 1..(Len(stdin) - 1)
      /\ \A i \in DOMAIN stdin' : i + 1 \in DOMAIN stdin /\ stdin'[i] = stdin[i + 1]
  BY <1>2, <1>3 DEF TypeOK
<1>5. Taken' = Taken + 1
  BY <1>2, <1>3, <1>4 DEF Taken
<1> HIDE DEF q
<1>6. \/ pc'[q] \in Open /\ up' = up
      \/ pc'[q] = "done"
  BY <1>1, <1>2 DEF TakeLine, Call, Local, Unusable, Ends, Go, TypeOK, Open
<1>7. \A r \in Request \ {q} : pc'[r] = pc[r] /\ answer'[r] = answer[r]
  BY <1>1, <1>2 DEF TakeLine, Call, Local, Unusable, Ends, Go, TypeOK
<1>8. up' \subseteq up
  BY <1>2 DEF TakeLine
<1>9. ASSUME NEW i \in DOMAIN lines PROVE LineHeld(i)'
  <2>1. LineHeld(i) /\ lines[i] \in Request /\ i \in Nat
    BY <1>3 DEF LinesHeld
  <2>2. CASE i = Taken + 1
    <3>1. lines[i] = q /\ i = Taken' /\ ~(i < Taken') /\ ~(i > Taken')
      BY <1>1, <1>5, <2>1, <2>2
    <3>2. pc'[q] \in Open \cup {"done"} /\ (pc'[q] \in Open => "mcp" \in up')
      BY <1>1, <1>6 DEF Open
    <3> QED BY <1>1, <1>2, <3>1, <3>2 DEF LineHeld, Open
  <2>3. CASE i # Taken + 1
    <3>1. lines[i] # q
      BY <1>1, <2>3 DEF LinesHeld
    <3>2. pc'[lines[i]] = pc[lines[i]] /\ answer'[lines[i]] = answer[lines[i]]
      BY <1>7, <2>1, <3>1
    <3>3. CASE i <= Taken
      <4>1. pc[lines[i]] = "done" /\ i < Taken' /\ ~(i > Taken') /\ i # Taken'
        BY <1>1, <1>5, <2>1, <3>3
      <4> QED BY <1>2, <2>1, <3>2, <4>1 DEF LineHeld
    <3>4. CASE i > Taken
      <4>1. i > Taken' /\ ~(i < Taken') /\ i # Taken'
        BY <1>1, <1>5, <2>1, <2>3, <3>4
      <4>2. pc[lines[i]] \in {"queued", "done"}
        BY <2>1, <3>4 DEF LineHeld
      <4> QED BY <1>2, <1>8, <2>1, <3>2, <3>4, <4>1, <4>2 DEF LineHeld
    <3> QED BY <1>1, <2>1, <3>3, <3>4
  <2> QED BY <2>2, <2>3
<1>10. \A i \in DOMAIN stdin' : stdin'[i] = lines[Taken' + i]
  <2> TAKE i \in DOMAIN stdin'
  <2>1. i \in Nat
    BY <1>3, <1>4
  <2>2. stdin[i + 1] = lines[Taken + (i + 1)]
    BY <1>4 DEF LinesHeld
  <2>3. Taken + (i + 1) = Taken' + i
    BY <1>1, <1>5, <2>1
  <2> QED BY <1>4, <2>2, <2>3
<1>11. Len(stdin') <= Len(lines')
  BY <1>2, <1>3, <1>4 DEF LinesHeld
<1> QED BY <1>2, <1>9, <1>10, <1>11 DEF LinesHeld

\* Every step keeps the lines in order.
LEMMA LinesStep ==
  ASSUME IInv, Next
  PROVE  LinesHeld'
<1>1. TypeOK /\ LinesHeld /\ \A r \in Request : PathHeld(r)
  BY DEF IInv
<1>2. /\ Taken \in Int /\ DOMAIN lines \subseteq Nat
      /\ \A i \in DOMAIN lines : lines[i] \in Request /\ over[lines[i]] = "mcp" /\ LineHeld(i)
  BY <1>1 DEF TypeOK, Taken, LinesHeld, LineHeld
<1>3. CASE \E r \in Request : Connect(r)
  <2>1. PICK r \in Request : Connect(r)
    BY <1>3
  <2>2. /\ pc[r] = "new" /\ pc' = [pc EXCEPT ![r] = "read"]
        /\ UNCHANGED <<up, answer, lines, stdin>>
    BY <2>1 DEF Connect, Go, mcpVars
  <2>3. PICK server \in Transport \ {"mcp"} : over' = [over EXCEPT ![r] = server]
    BY <1>1, <2>1 DEF Connect, TypeOK
  <2>4. over[r] = "none"
    BY <1>1, <2>2 DEF PathHeld
  <2>5. \A q \in Request : over'[q] = "mcp" => over[q] = "mcp"
    BY <1>1, <2>3 DEF TypeOK
  <2>6. \A i \in DOMAIN lines : over'[lines[i]] = "mcp" /\ Left(i)
    BY <1>1, <1>2, <2>2, <2>3, <2>4 DEF LineHeld, Left, Open, TypeOK
  <2> QED BY <1>1, <1>2, <2>2, <2>5, <2>6, LinesStay
<1>4. CASE \E r \in Request : ReadRequest(r)
  <2>1. PICK r \in Request : ReadRequest(r)
    BY <1>4
  <2>2. pc[r] = "read" /\ UNCHANGED <<up, over, lines, stdin>>
    BY <2>1 DEF ReadRequest, mcpVars
  <2>3. over[r] # "mcp"
    BY <1>1, <2>2 DEF PathHeld
  <2>4. \A q \in Request \ {r} : pc'[q] = pc[q] /\ answer'[q] = answer[q]
    BY <1>1, <2>1 DEF ReadRequest, Call, Refuse, Stream, Cut, Ends, Go, TypeOK
  <2>5. \A i \in DOMAIN lines : Left(i)
    BY <1>2, <2>2, <2>3, <2>4 DEF LineHeld, Left, Open
  <2> QED BY <1>1, <1>2, <2>2, <2>5, LinesStay
<1>5. CASE \E r \in Request : Handle(r) \/ WritePiece(r) \/ TraceFails(r) \/ Answer(r)
  <2>1. PICK r \in Request : Handle(r) \/ WritePiece(r) \/ TraceFails(r) \/ Answer(r)
    BY <1>5
  <2>2. UNCHANGED <<up, over, lines, stdin>>
    BY <2>1 DEF Handle, WritePiece, TraceFails, Answer, mcpVars
  <2>3. pc[r] \in Open /\ pc'[r] \in Open \cup {"done"}
    BY <1>1, <2>1 DEF Handle, WritePiece, TraceFails, Answer, Ends, Go, Open, TypeOK
  <2>4. \A q \in Request \ {r} : pc'[q] = pc[q] /\ answer'[q] = answer[q]
    BY <1>1, <2>1 DEF Handle, WritePiece, TraceFails, Answer, Ends, Go, TypeOK
  <2>5. \A i \in DOMAIN lines : Left(i) \/ Served(i)
    BY <1>2, <2>2, <2>3, <2>4 DEF LineHeld, Left, Served, Open
  <2> QED BY <1>1, <1>2, <2>2, <2>5, LinesStay
<1>6. CASE \E r \in Request : AnswerFails(r)
  <2>1. PICK r \in Request : AnswerFails(r)
    BY <1>6
  <2>2. /\ pc[r] = "answer" /\ pc'[r] = "done" /\ UNCHANGED <<over, lines, stdin>>
        /\ up' = up \ ({"mcp"} \cap {over[r]})
    BY <1>1, <2>1 DEF AnswerFails, Ends, Go, mcpVars, TypeOK
  <2>3. \A q \in Request \ {r} : pc'[q] = pc[q] /\ answer'[q] = answer[q]
    BY <1>1, <2>1 DEF AnswerFails, Ends, Go, TypeOK
  <2>4. ASSUME NEW i \in DOMAIN lines PROVE Left(i) \/ Served(i)
    <3>1. CASE lines[i] = r
      BY <2>2, <3>1 DEF Served, Open
    <3>2. CASE lines[i] # r /\ over[r] # "mcp"
      BY <1>2, <2>2, <2>3, <3>2 DEF Left, LineHeld, Open
    <3>3. CASE lines[i] # r /\ over[r] = "mcp"
      <4>1. PICK k \in DOMAIN lines : lines[k] = r
        BY <1>1, <3>3 DEF LinesHeld
      <4>2. k = Taken
        <5>1. ~(k < Taken) /\ ~(k > Taken)
          BY <1>2, <2>2, <4>1 DEF LineHeld
        <5> QED BY <1>2, <5>1
      <4>3. pc[lines[i]] \notin Open
        <5>1. i # Taken
          BY <3>3, <4>1, <4>2
        <5>2. i < Taken \/ i > Taken
          BY <1>2, <5>1
        <5> QED BY <1>2, <5>2 DEF LineHeld, Open
      <4> QED BY <1>2, <2>3, <3>3, <4>3 DEF Left
    <3> QED BY <3>1, <3>2, <3>3
  <2> QED BY <1>1, <1>2, <2>2, <2>4, LinesStay
<1>7. CASE \E r \in Request : EndOfInput(r)
  <2>1. PICK r \in Request : EndOfInput(r)
    BY <1>7
  <2>2. "mcp" \notin up /\ pc[r] = "queued" /\ UNCHANGED <<up, over, lines, stdin>>
        /\ pc'[r] = "done" /\ answer'[r] = "closed"
    BY <1>1, <2>1 DEF EndOfInput, Ends, Go, mcpVars, TypeOK
  <2>3. \A q \in Request \ {r} : pc'[q] = pc[q] /\ answer'[q] = answer[q]
    BY <1>1, <2>1 DEF EndOfInput, Ends, Go, TypeOK
  <2>4. \A i \in DOMAIN lines : Left(i) \/ Ended(i)
    BY <1>2, <2>2, <2>3 DEF LineHeld, Left, Ended, Open
  <2> QED BY <1>1, <1>2, <2>2, <2>4, LinesStay
<1>8. CASE \E server \in Transport : Dies(server)
  <2>1. PICK server \in Transport : Dies(server)
    BY <1>8
  <2>2. up' = up \ {server} /\ UNCHANGED <<over, lines, stdin>>
    BY <2>1 DEF Dies, mcpVars
  <2>3. \A q \in Request :
          IF over[q] = server /\ pc[q] # "done" THEN pc'[q] = "done" /\ answer'[q] = "closed"
          ELSE pc'[q] = pc[q] /\ answer'[q] = answer[q]
    BY <2>1 DEF Dies
  <2>4. \A i \in DOMAIN lines : Left(i) \/ Ended(i)
    BY <1>2, <2>2, <2>3 DEF LineHeld, Left, Ended, Open
  <2> QED BY <1>1, <1>2, <2>2, <2>4, LinesStay
<1> QED BY <1>1, <1>3, <1>4, <1>5, <1>6, <1>7, <1>8, LinesWritten, LinesTaken
        DEF Next, RequestStep

----------------------------------------------------------------------------
(* The trace log.                                                          *)

\* A piece in the file is a piece of a request.
LEMMA PieceTypes ==
  ASSUME TypeOK, NEW i \in DOMAIN traces
  PROVE  traces[i].of \in Request /\ traces[i].piece \in 1..Pieces /\ i \in 1..Len(traces)
<1>1. traces \in Seq(Piece)
  BY DEF TypeOK, Piece
<1>2. traces[i] \in Piece /\ i \in 1..Len(traces)
  BY <1>1
<1> QED BY <1>2 DEF Piece

\* The pieces of a request that has written none are none.
LEMMA NonePieces ==
  ASSUME TypeOK, NEW r \in Request, PiecesHeld(r), written[r] = 0
  PROVE  PiecesOf(r) = {}
<1> SUFFICES ASSUME NEW i \in PiecesOf(r) PROVE FALSE
  OBVIOUS
<1>1. traces[i].piece \in 1..Pieces
  BY PieceTypes DEF PiecesOf
<1>2. traces[i].piece <= 0
  BY DEF PiecesHeld
<1> QED BY <1>1, <1>2, TransportsAssumption

\* A step that writes no piece, and changes the outcome only of a request that
\* has written none, leaves the trace log as it was known.
LEMMA TraceStays ==
  ASSUME TypeOK, UNCHANGED traceVars, NEW r \in Request, PiecesHeld(r), RowHeld(r),
         result'[r] = result[r] \/ written[r] = 0
  PROVE  PiecesHeld(r)' /\ RowHeld(r)'
<1>1. traces' = traces /\ written' = written /\ mixed' = mixed /\ PiecesOf(r)' = PiecesOf(r)
  BY DEF traceVars, PiecesOf
<1>2. CASE result'[r] = result[r]
  BY <1>1, <1>2 DEF PiecesHeld, RowHeld
<1>3. CASE written[r] = 0
  <2>1. PiecesOf(r) = {} /\ 1..written[r] = {} /\ ~(written[r] > 0)
    BY <1>3, NonePieces
  <2> QED BY <1>1, <2>1 DEF PiecesHeld, RowHeld
<1> QED BY <1>2, <1>3

\* A piece is appended behind the others of its request.
LEMMA PieceBehind ==
  ASSUME TypeOK, NEW q \in Request, WritePiece(q), PathHeld(q)
  PROVE  /\ Pieces \in Nat \ {0, 1} /\ Len(traces) \in Nat /\ DOMAIN traces = 1..Len(traces)
         /\ written[q] \in Nat /\ written[q] < Pieces
         /\ Len(traces') = Len(traces) + 1 /\ DOMAIN traces' = 1..(Len(traces) + 1)
         /\ \A i \in DOMAIN traces : i \in DOMAIN traces' /\ traces'[i] = traces[i]
         /\ \A i \in DOMAIN traces' : i \in DOMAIN traces \/ i = Len(traces) + 1
         /\ traces'[Len(traces) + 1] = [of |-> q, piece |-> written[q] + 1, status |-> result[q]]
         /\ written' = [written EXCEPT ![q] = written[q] + 1] /\ result' = result
         /\ mixed' = IF Unfinished(q) = {} THEN mixed ELSE mixed \cup Unfinished(q) \cup {q}
<1> DEFINE p == [of |-> q, piece |-> written[q] + 1, status |-> result[q]]
<1>1. Pieces \in Nat \ {0, 1} /\ written[q] \in Nat /\ written[q] < Pieces
  BY TransportsAssumption DEF TypeOK, WritePiece, PathHeld
<1>2. written[q] + 1 \in 1..Pieces
  BY <1>1
<1>3. p \in Piece
  BY <1>2 DEF Piece, TypeOK
<1>4. traces \in Seq(Piece) /\ traces' = Append(traces, p)
  BY DEF TypeOK, WritePiece, Piece
<1> HIDE DEF p, Piece
<1>5. /\ Len(traces) \in Nat /\ DOMAIN traces = 1..Len(traces)
      /\ Len(traces') = Len(traces) + 1 /\ DOMAIN traces' = 1..(Len(traces) + 1)
      /\ \A i \in DOMAIN traces : i \in DOMAIN traces' /\ traces'[i] = traces[i]
      /\ \A i \in DOMAIN traces' : i \in DOMAIN traces \/ i = Len(traces) + 1
      /\ traces'[Len(traces) + 1] = p
  BY <1>3, <1>4, Appends
<1>6. /\ written' = [written EXCEPT ![q] = written[q] + 1] /\ result' = result
      /\ mixed' = IF Unfinished(q) = {} THEN mixed ELSE mixed \cup Unfinished(q) \cup {q}
  BY DEF WritePiece, handleVars
<1> QED BY <1>1, <1>5, <1>6 DEF p

\* Then the pieces of every request are still the first ones, each once.
LEMMA PiecesWritten ==
  ASSUME TypeOK, NEW q \in Request, WritePiece(q), PathHeld(q), NEW r \in Request, PiecesHeld(r)
  PROVE  PiecesHeld(r)'
<1> DEFINE p == [of |-> q, piece |-> written[q] + 1, status |-> result[q]]
<1>1. p.of = q /\ p.piece = written[q] + 1 /\ p.status = result[q]
  OBVIOUS
<1>2. /\ Pieces \in Nat \ {0, 1} /\ Len(traces) \in Nat /\ DOMAIN traces = 1..Len(traces)
      /\ written[q] \in Nat /\ written[q] < Pieces
      /\ Len(traces') = Len(traces) + 1 /\ DOMAIN traces' = 1..(Len(traces) + 1)
      /\ \A i \in DOMAIN traces : i \in DOMAIN traces' /\ traces'[i] = traces[i]
      /\ \A i \in DOMAIN traces' : i \in DOMAIN traces \/ i = Len(traces) + 1
      /\ traces'[Len(traces) + 1] = p
      /\ written' = [written EXCEPT ![q] = written[q] + 1] /\ result' = result
  BY PieceBehind
<1> HIDE DEF p
<1> DEFINE n == Len(traces) + 1
<1>3. n \in DOMAIN traces' /\ n \notin DOMAIN traces /\ n \in Nat
  BY <1>2
<1> HIDE DEF n
<1>4. CASE r # q
  <2>1. PiecesOf(r)' = PiecesOf(r) /\ \A i \in PiecesOf(r) : traces'[i] = traces[i]
    BY <1>1, <1>2, <1>4 DEF PiecesOf
  <2>2. written'[r] = written[r]
    BY <1>2, <1>4 DEF TypeOK
  <2> QED BY <1>2, <2>1, <2>2 DEF PiecesHeld
<1>5. CASE r = q
  <2>1. PiecesOf(q)' = PiecesOf(q) \cup {n}
    BY <1>1, <1>2, <1>3 DEF PiecesOf, n
  <2>2. /\ \A i \in PiecesOf(q) : i \in DOMAIN traces /\ traces'[i] = traces[i] /\ i < n
        /\ traces'[n] = p
    BY <1>2 DEF PiecesOf, n
  <2>3. written'[q] = written[q] + 1
    BY <1>2 DEF TypeOK
  <2>4. \A i \in PiecesOf(q) : /\ traces[i].status = result[q] /\ traces[i].piece <= written[q]
                               /\ traces[i].piece \in Nat
    BY <1>2, <1>5, PieceTypes DEF PiecesHeld, PiecesOf
  <2>5. \A i \in PiecesOf(q)' : traces'[i].status = result'[q] /\ traces'[i].piece <= written'[q]
    BY <1>1, <1>2, <2>1, <2>2, <2>3, <2>4
  <2>6. \A k \in 1..written'[q] : \E i \in PiecesOf(q)' : traces'[i].piece = k
    <3> TAKE k \in 1..written'[q]
    <3>1. CASE k = written[q] + 1
      BY <1>1, <2>1, <2>2, <3>1
    <3>2. CASE k # written[q] + 1
      <4>1. k \in 1..written[q]
        BY <1>2, <2>3, <3>2
      <4>2. PICK i \in PiecesOf(q) : traces[i].piece = k
        BY <1>5, <4>1 DEF PiecesHeld
      <4> QED BY <2>1, <2>2, <4>2
    <3> QED BY <3>1, <3>2
  <2>7. \A i, j \in PiecesOf(q)' : i < j => traces'[i].piece < traces'[j].piece
    <3> SUFFICES ASSUME NEW i \in PiecesOf(q)', NEW j \in PiecesOf(q)', i < j
                 PROVE  traces'[i].piece < traces'[j].piece
      OBVIOUS
    <3>1. i \in PiecesOf(q)
      <4>1. i # n
        <5>1. j \in Nat /\ j <= n
          BY <1>2, <1>3, <2>1, <2>2
        <5> QED BY <1>3, <5>1
      <4> QED BY <2>1, <4>1
    <3>2. CASE j = n
      <4>1. traces[i].piece <= written[q] /\ traces[i].piece \in Nat
        BY <2>4, <3>1
      <4>2. traces'[i] = traces[i] /\ traces'[j].piece = written[q] + 1
        BY <1>1, <2>2, <3>1, <3>2
      <4> QED BY <1>2, <4>1, <4>2
    <3>3. CASE j # n
      BY <1>5, <2>1, <2>2, <3>1, <3>3 DEF PiecesHeld
    <3> QED BY <3>2, <3>3
  <2> QED BY <1>5, <2>5, <2>6, <2>7 DEF PiecesHeld
<1> QED BY <1>4, <1>5

\* An event that none was begun before stays in one row, and one that was
\* finished stays where it is.
LEMMA RowWritten ==
  ASSUME TypeOK, NEW q \in Request, WritePiece(q), PathHeld(q), NEW r \in Request, RowHeld(r),
         NewestHeld
  PROVE  RowHeld(r)'
<1> DEFINE p == [of |-> q, piece |-> written[q] + 1, status |-> result[q]]
<1>1. p.of = q /\ p.piece = written[q] + 1 /\ p.status = result[q]
  OBVIOUS
<1>2. /\ Pieces \in Nat \ {0, 1} /\ Len(traces) \in Nat /\ DOMAIN traces = 1..Len(traces)
      /\ written[q] \in Nat /\ written[q] < Pieces
      /\ Len(traces') = Len(traces) + 1 /\ DOMAIN traces' = 1..(Len(traces) + 1)
      /\ \A i \in DOMAIN traces : i \in DOMAIN traces' /\ traces'[i] = traces[i]
      /\ traces'[Len(traces) + 1] = p
      /\ written' = [written EXCEPT ![q] = written[q] + 1] /\ result' = result
      /\ mixed' = IF Unfinished(q) = {} THEN mixed ELSE mixed \cup Unfinished(q) \cup {q}
  BY PieceBehind
<1>3. p = [of |-> q, piece |-> written[q] + 1, status |-> result[q]]
  OBVIOUS
<1> HIDE DEF p
<1>4. SUFFICES ASSUME r \notin mixed', written'[r] > 0
               PROVE  \E i \in 0..(Len(traces') - written'[r]) :
                        /\ \A j \in 1..written'[r] :
                             traces'[i + j] = [of |-> r, piece |-> j, status |-> result'[r]]
                        /\ i > 0 => traces'[i].piece = Pieces
                        /\ written'[r] < Pieces => i + written'[r] = Len(traces')
  BY DEF RowHeld
<1>5. r \notin mixed
  BY <1>2, <1>4
<1>6. CASE r # q
  <2>1. written'[r] = written[r] /\ written[r] \in 0..Pieces
    BY <1>2, <1>6 DEF TypeOK
  <2>2. written[r] = Pieces
    <3>1. r \notin Unfinished(q)
      BY <1>2, <1>4
    <3>2. written[r] \notin 1..(Pieces - 1)
      BY <1>6, <3>1 DEF Unfinished
    <3> QED BY <1>2, <1>4, <2>1, <3>2
  <2>3. PICK i \in 0..(Len(traces) - written[r]) :
          /\ \A j \in 1..written[r] : traces[i + j] = [of |-> r, piece |-> j, status |-> result[r]]
          /\ i > 0 => traces[i].piece = Pieces
    BY <1>4, <1>5, <2>1 DEF RowHeld
  <2>4. i \in 0..(Len(traces') - written[r]) /\ (i > 0 => i \in DOMAIN traces)
    BY <1>2, <2>2
  <2>5. \A j \in 1..written[r] : i + j \in DOMAIN traces
    BY <1>2, <2>2
  <2>6. ~(written[r] < Pieces)
    BY <1>2, <2>2
  <2>7. \A j \in 1..written[r] : traces'[i + j] = [of |-> r, piece |-> j, status |-> result'[r]]
    BY <1>2, <2>3, <2>5
  <2>8. i > 0 => traces'[i].piece = Pieces
    BY <1>2, <2>3, <2>4
  <2> QED BY <2>1, <2>4, <2>6, <2>7, <2>8
<1>7. CASE r = q
  <2>1. written'[q] = written[q] + 1 /\ Unfinished(q) = {}
    BY <1>2, <1>4, <1>7 DEF TypeOK
  <2>2. CASE written[q] = 0
    <3>1. written'[q] = 1 /\ Len(traces) \in 0..(Len(traces') - written'[q])
      BY <1>2, <2>1, <2>2
    <3>2. \A j \in 1..1 : traces'[Len(traces) + j] = [of |-> q, piece |-> j, status |-> result'[q]]
      <4> TAKE j \in 1..1
      <4>1. j = 1 /\ written[q] + 1 = 1
        BY <2>2
      <4> QED BY <1>2, <1>3, <4>1
    <3>3. Len(traces) > 0 => traces'[Len(traces)].piece = Pieces
      <4> SUFFICES ASSUME Len(traces) > 0 PROVE traces'[Len(traces)].piece = Pieces
        OBVIOUS
      <4> DEFINE last == traces[Len(traces)]
      <4>1. Len(traces) \in DOMAIN traces /\ traces # << >>
        BY <1>2, EmptySeq DEF TypeOK
      <4>2. last.of \in Request /\ last.piece \in 1..Pieces /\ last.piece = written[last.of]
        BY <4>1, PieceTypes DEF NewestHeld
      <4>3. last.of # q
        BY <1>2, <2>2, <4>2
      <4>4. written[last.of] \notin 1..(Pieces - 1)
        BY <2>1, <4>2, <4>3 DEF Unfinished
      <4>5. last.piece = Pieces
        BY <1>2, <4>2, <4>4
      <4> QED BY <1>2, <4>1, <4>5
    <3>4. Len(traces) + 1 = Len(traces')
      BY <1>2
    <3> QED BY <1>7, <3>1, <3>2, <3>3, <3>4
  <2>3. CASE written[q] # 0
    <3>1. written[q] > 0
      BY <1>2, <2>3
    <3>2. PICK i \in 0..(Len(traces) - written[q]) :
            /\ \A j \in 1..written[q] : traces[i + j] = [of |-> q, piece |-> j, status |-> result[q]]
            /\ i > 0 => traces[i].piece = Pieces
            /\ written[q] < Pieces => i + written[q] = Len(traces)
      BY <1>5, <1>7, <3>1 DEF RowHeld
    <3>3. i \in Nat /\ i + written[q] = Len(traces)
      BY <1>2, <3>2
    <3>4. i \in 0..(Len(traces') - written'[q]) /\ i + written'[q] = Len(traces')
      BY <1>2, <2>1, <3>3
    <3>5. i > 0 => traces'[i].piece = Pieces
      <4>1. i > 0 => i \in DOMAIN traces
        BY <1>2, <3>3
      <4> QED BY <1>2, <3>2, <4>1
    <3>6. \A j \in 1..written'[q] : traces'[i + j] = [of |-> q, piece |-> j, status |-> result'[q]]
      <4> TAKE j \in 1..written'[q]
      <4>1. CASE j = written[q] + 1
        <5>1. i + j = Len(traces) + 1
          BY <1>2, <3>3, <4>1
        <5> QED BY <1>2, <1>3, <4>1, <5>1
      <4>2. CASE j # written[q] + 1
        <5>1. j \in 1..written[q]
          BY <1>2, <2>1, <4>2
        <5>2. i + j \in DOMAIN traces
          BY <1>2, <3>3, <5>1
        <5> QED BY <1>2, <3>2, <5>1, <5>2
      <4> QED BY <4>1, <4>2
    <3> QED BY <1>7, <3>4, <3>5, <3>6
  <2> QED BY <2>2, <2>3
<1> QED BY <1>6, <1>7

\* Every step keeps what is known of the trace log.
LEMMA TraceStep ==
  ASSUME IInv, Next
  PROVE  /\ \A r \in Request : PiecesHeld(r)' /\ RowHeld(r)'
         /\ NewestHeld'
<1>1. /\ TypeOK /\ LinesHeld /\ NewestHeld
      /\ \A r \in Request : PathHeld(r) /\ PiecesHeld(r) /\ RowHeld(r)
  BY DEF IInv
<1>2. CASE \E q \in Request : WritePiece(q)
  <2>1. PICK q \in Request : WritePiece(q)
    BY <1>2
  <2> DEFINE p == [of |-> q, piece |-> written[q] + 1, status |-> result[q]]
  <2>2. /\ Len(traces') = Len(traces) + 1 /\ traces'[Len(traces) + 1] = p
        /\ written' = [written EXCEPT ![q] = written[q] + 1]
    BY <1>1, <2>1, PieceBehind
  <2>3. p.of = q /\ p.piece = written[q] + 1
    OBVIOUS
  <2> HIDE DEF p
  <2>4. NewestHeld'
    BY <1>1, <2>2, <2>3 DEF NewestHeld, TypeOK
  <2> QED BY <1>1, <2>1, <2>4, PiecesWritten, RowWritten
<1>3. CASE \A q \in Request : ~WritePiece(q)
  <2>1. UNCHANGED traceVars
    BY <1>3 DEF Next, RequestStep, Connect, WriteLine, ReadRequest, ReadLine, Handle, TraceFails,
       Answer, AnswerFails, EndOfInput, Dies
  <2>2. ASSUME NEW r \in Request PROVE result'[r] = result[r] \/ written[r] = 0
    <3>1. CASE \E q \in Request : Handle(q)
      BY <1>1, <3>1 DEF Handle, PathHeld, TypeOK
    <3>2. CASE ReadLine
      <4>1. Head(stdin) \in Request /\ pc[Head(stdin)] = "queued"
        BY <1>1, <3>2, TakenLine
      <4>2. written[Head(stdin)] = 0
        BY <1>1, <4>1 DEF PathHeld
      <4>3. r # Head(stdin) => result'[r] = result[r]
        BY <1>1, <3>2, <4>1 DEF ReadLine, TakeLine, Call, Local, Unusable, TypeOK
      <4> QED BY <4>2, <4>3
    <3>3. CASE UNCHANGED result
      BY <3>3
    <3> QED BY <1>3, <3>1, <3>2, <3>3 DEF Next, RequestStep, Connect, WriteLine, ReadRequest, Call,
               Refuse, Stream, Cut, TraceFails, Answer, AnswerFails, EndOfInput, Dies, handleVars
  <2>3. NewestHeld'
    BY <1>1, <2>1 DEF NewestHeld, traceVars
  <2> QED BY <1>1, <2>1, <2>2, <2>3, TraceStays
<1> QED BY <1>2, <1>3

----------------------------------------------------------------------------
(* The answers of the MCP server.                                          *)

\* A line has one place.
LEMMA PlaceOf ==
  ASSUME LinesHeld, NEW i \in DOMAIN lines
  PROVE  Place(lines[i]) = i
BY DEF LinesHeld, Place

\* A step that answers no line leaves the output as it was known.
LEMMA AnswersStay ==
  ASSUME StdoutHeld, lines' = lines, stdout' = stdout,
         \A i \in DOMAIN lines : answer'[lines[i]] \in {"ok", "error"} <=>
                                   answer[lines[i]] \in {"ok", "error"}
  PROVE  StdoutHeld'
<1>1. AnsweredLines' = AnsweredLines
  BY DEF AnsweredLines, Range
<1> QED BY <1>1 DEF StdoutHeld, Place

\* A line that is written has no answer yet, and the others keep their places.
LEMMA AnswersWritten ==
  ASSUME TypeOK, LinesHeld, LinesHeld', StdoutHeld, NEW r \in Request, PathHeld(r), WriteLine(r)
  PROVE  StdoutHeld'
<1>1. /\ pc[r] = "new" /\ answer' = answer /\ stdout' = stdout /\ lines' = Append(lines, r)
  BY DEF WriteLine
<1>2. /\ \A i \in DOMAIN lines : i \in DOMAIN lines' /\ lines'[i] = lines[i]
      /\ \A i \in DOMAIN lines' : i \in DOMAIN lines \/ lines'[i] = r
  BY <1>1, Appends DEF TypeOK
<1>3. answer[r] = "none"
  BY <1>1 DEF PathHeld
<1>4. AnsweredLines' = AnsweredLines
  BY <1>1, <1>2, <1>3 DEF AnsweredLines, Range
<1>5. \A q \in AnsweredLines : Place(q)' = Place(q)
  <2> TAKE q \in AnsweredLines
  <2>1. PICK i \in DOMAIN lines : lines[i] = q
    BY DEF AnsweredLines, Range
  <2>2. Place(q) = i
    BY <2>1, PlaceOf
  <2>3. i \in DOMAIN lines' /\ lines'[i] = q /\ \A j \in DOMAIN lines' : lines'[j] = q => j = i
    BY <1>2, <2>1 DEF LinesHeld
  <2>4. Place(q)' = i
    BY <2>3 DEF Place
  <2> QED BY <2>2, <2>4
<1>6. \A i \in DOMAIN stdout : stdout[i].line \in AnsweredLines
  BY DEF StdoutHeld
<1> QED BY <1>1, <1>4, <1>5, <1>6 DEF StdoutHeld

\* The line that is answered is behind all that were, and was not answered.
LEMMA AnswersGiven ==
  ASSUME TypeOK, LinesHeld, StdoutHeld, NEW r \in Request, PathHeld(r), Answer(r),
         over[r] = "mcp"
  PROVE  StdoutHeld'
<1> DEFINE a == McpAnswer(r)
<1>1. a \in AnswerLine /\ a.line = r /\ a.id \in {r, Null}
  BY DEF McpAnswer, AnswerLine
<1>2. /\ pc[r] = "answer" /\ answer' = [answer EXCEPT ![r] = result[r]]
      /\ stdout' = Append(stdout, a) /\ lines' = lines
  BY DEF Answer, Ends
<1> HIDE DEF a
<1>3. result[r] \in {"ok", "error"} /\ answer[r] = "none"
  BY <1>2 DEF PathHeld
<1>4. stdout \in Seq(AnswerLine)
  BY DEF TypeOK, AnswerLine
<1> HIDE DEF AnswerLine
<1>5. /\ Len(stdout) \in Nat /\ DOMAIN stdout = 1..Len(stdout)
      /\ \A i \in DOMAIN stdout : i \in DOMAIN stdout' /\ stdout'[i] = stdout[i]
      /\ \A i \in DOMAIN stdout' : i \in DOMAIN stdout \/ i = Len(stdout) + 1
      /\ Len(stdout) + 1 \in DOMAIN stdout' /\ stdout'[Len(stdout) + 1] = a
  <2>1. Len(stdout) + 1 \in 1..(Len(stdout) + 1)
    BY <1>4
  <2> QED BY <1>1, <1>2, <1>4, <2>1, Appends
<1>6. PICK k \in DOMAIN lines : lines[k] = r
  BY DEF LinesHeld
<1>7. /\ Taken \in Int /\ DOMAIN lines \subseteq Nat
      /\ \A i \in DOMAIN lines : lines[i] \in Request
  BY DEF TypeOK, Taken
<1>8. k = Taken
  <2>1. LineHeld(k)
    BY DEF LinesHeld
  <2>2. ~(k < Taken) /\ ~(k > Taken)
    BY <1>2, <1>6, <2>1 DEF LineHeld
  <2> QED BY <1>7, <2>2
<1>9. AnsweredLines' = AnsweredLines \cup {r}
  BY <1>2, <1>3, <1>6, <1>7 DEF AnsweredLines, Range, TypeOK
<1>10. \A q \in Request : Place(q)' = Place(q)
  BY <1>2 DEF Place
<1>11. \A q \in AnsweredLines : Place(q) < Place(r)
  <2> TAKE q \in AnsweredLines
  <2>1. PICK i \in DOMAIN lines : lines[i] = q
    BY DEF AnsweredLines, Range
  <2>2. answer[q] \in {"ok", "error"}
    BY DEF AnsweredLines
  <2>3. LineHeld(i) /\ i # k
    BY <1>3, <1>6, <2>1, <2>2 DEF LinesHeld
  <2>4. i < k
    <3>1. ~(i > Taken)
      BY <2>1, <2>2, <2>3 DEF LineHeld
    <3> QED BY <1>7, <1>8, <2>3, <3>1
  <2> QED BY <1>6, <2>1, <2>4, PlaceOf
<1>12. {stdout'[i].line : i \in DOMAIN stdout'} = AnsweredLines'
  BY <1>1, <1>5, <1>9 DEF StdoutHeld
<1>13. \A i \in DOMAIN stdout : stdout[i].line \in AnsweredLines /\ stdout[i].line \in Request
  BY <1>7 DEF StdoutHeld, AnsweredLines, Range
<1>14. ASSUME NEW i \in DOMAIN stdout', NEW j \in DOMAIN stdout', i < j
       PROVE  Place(stdout[i].line)' < Place(stdout[j].line)'
  <2>1. i \in DOMAIN stdout
    BY <1>5, <1>14
  <2>2. PICK x \in AnsweredLines : x = stdout'[i].line /\ x = stdout[i].line /\ x \in Request
    BY <1>5, <1>13, <2>1
  <2>3. PICK y \in Request : y = stdout'[j].line /\ Place(x) < Place(y)
    <3>1. CASE j \in DOMAIN stdout
      <4>1. Place(stdout[i].line) < Place(stdout[j].line)
        BY <1>14, <2>1, <3>1 DEF StdoutHeld
      <4> QED BY <1>5, <1>13, <2>2, <3>1, <4>1
    <3>2. CASE j = Len(stdout) + 1
      <4>1. stdout'[j].line = r
        BY <1>1, <1>5, <3>2
      <4> QED BY <1>11, <2>2, <4>1
    <3> QED BY <1>5, <3>1, <3>2
  <2>4. Place(x)' < Place(y)'
    BY <1>10, <2>2, <2>3
  <2> QED BY <2>2, <2>3, <2>4 DEF Place
<1>15. \A i \in DOMAIN stdout' : stdout'[i].id \in {stdout'[i].line, Null}
  BY <1>1, <1>5 DEF StdoutHeld
<1> QED BY <1>12, <1>14, <1>15 DEF StdoutHeld

\* Every step keeps what is known of the output.
LEMMA StdoutStep ==
  ASSUME IInv, LinesHeld', Next
  PROVE  StdoutHeld'
<1>1. TypeOK /\ LinesHeld /\ StdoutHeld /\ \A r \in Request : PathHeld(r)
  BY DEF IInv
<1>2. \A i \in DOMAIN lines : lines[i] \in Request /\ over[lines[i]] = "mcp"
  BY <1>1 DEF TypeOK, LinesHeld, LineHeld
<1>3. CASE \E r \in Request : Connect(r) \/ Handle(r) \/ WritePiece(r) \/ TraceFails(r)
  <2>1. lines' = lines /\ stdout' = stdout /\ answer' = answer
    BY <1>3 DEF Connect, Handle, WritePiece, TraceFails, mcpVars, handleVars
  <2> QED BY <1>1, <2>1, AnswersStay
<1>4. CASE \E r \in Request : ReadRequest(r)
  <2>1. PICK r \in Request : ReadRequest(r)
    BY <1>4
  <2>2. over[r] # "mcp" /\ lines' = lines /\ stdout' = stdout
    BY <1>1, <2>1 DEF ReadRequest, PathHeld, mcpVars
  <2>3. \A q \in Request \ {r} : answer'[q] = answer[q]
    BY <1>1, <2>1 DEF ReadRequest, Call, Refuse, Stream, Cut, Ends, TypeOK
  <2> QED BY <1>1, <1>2, <2>2, <2>3, AnswersStay
<1>5. CASE \E r \in Request : Answer(r)
  <2>1. PICK r \in Request : Answer(r)
    BY <1>5
  <2>2. CASE over[r] = "mcp"
    BY <1>1, <2>1, <2>2, AnswersGiven
  <2>3. CASE over[r] # "mcp"
    <3>1. lines' = lines /\ stdout' = stdout
      BY <2>1, <2>3 DEF Answer
    <3>2. \A q \in Request \ {r} : answer'[q] = answer[q]
      BY <1>1, <2>1 DEF Answer, Ends, TypeOK
    <3> QED BY <1>1, <1>2, <2>3, <3>1, <3>2, AnswersStay
  <2> QED BY <2>2, <2>3
<1>6. CASE ReadLine \/ (\E r \in Request : AnswerFails(r) \/ EndOfInput(r))
           \/ \E server \in Transport : Dies(server)
  <2> DEFINE Quiet == \A q \in Request : \/ answer'[q] = answer[q]
                                         \/ answer[q] = "none" /\ answer'[q] \in {"nothing", "closed"}
  <2>1. CASE ReadLine
    <3>1. Head(stdin) \in Request /\ pc[Head(stdin)] = "queued"
      BY <1>1, <2>1, TakenLine
    <3>2. answer[Head(stdin)] = "none"
      BY <1>1, <3>1 DEF PathHeld
    <3>3. Quiet /\ lines' = lines /\ stdout' = stdout
      BY <1>1, <2>1, <3>1, <3>2 DEF ReadLine, TakeLine, Call, Local, Unusable, Ends, TypeOK
    <3> QED BY <1>1, <1>2, <3>3, AnswersStay
  <2>2. CASE \E r \in Request : AnswerFails(r) \/ EndOfInput(r)
    <3>1. PICK r \in Request : AnswerFails(r) \/ EndOfInput(r)
      BY <2>2
    <3>2. answer[r] = "none"
      BY <1>1, <3>1 DEF PathHeld, AnswerFails, EndOfInput
    <3>3. Quiet /\ lines' = lines /\ stdout' = stdout
      BY <1>1, <3>1, <3>2 DEF AnswerFails, EndOfInput, Ends, mcpVars, TypeOK
    <3> QED BY <1>1, <1>2, <3>3, AnswersStay
  <2>3. CASE \E server \in Transport : Dies(server)
    <3>1. Quiet /\ lines' = lines /\ stdout' = stdout
      BY <1>1, <2>3 DEF Dies, mcpVars, PathHeld
    <3> QED BY <1>1, <1>2, <3>1, AnswersStay
  <2> QED BY <1>6, <2>1, <2>2, <2>3
<1> QED BY <1>1, <1>3, <1>4, <1>5, <1>6, AnswersWritten DEF Next, RequestStep

----------------------------------------------------------------------------
(* The theorems.                                                           *)

\* Servers to which nothing has come yet hold everything.
LEMMA InitIInv == Init => IInv
<1> SUFFICES ASSUME Init PROVE IInv
  OBVIOUS
<1>1. TypeOK
  <2>1. 0 \in 0..Pieces /\ 0 \in 0..MaxFaults
    BY TransportsAssumption
  <2>2. StateTypes
    BY <2>1 DEF Init, StateTypes
  <2>3. RowTypes
    BY <2>1 DEF Init, RowTypes
  <2> QED BY <2>2, <2>3, Split
<1>2. \A r \in Request : PathHeld(r)
  BY DEF Init, PathHeld
<1>3. /\ DOMAIN lines = {} /\ DOMAIN stdin = {} /\ Len(stdin) = 0 /\ Len(lines) = 0
      /\ DOMAIN traces = {} /\ DOMAIN stdout = {}
  BY DEF Init
<1>4. LinesHeld
  BY <1>3 DEF Init, LinesHeld
<1>5. \A r \in Request : PiecesHeld(r) /\ RowHeld(r) /\ written[r] = 0
  BY <1>3 DEF Init, PiecesHeld, RowHeld, PiecesOf
<1>6. NewestHeld /\ StdoutHeld
  BY <1>3 DEF Init, NewestHeld, StdoutHeld, AnsweredLines, Range
<1> QED BY <1>1, <1>2, <1>4, <1>5, <1>6 DEF IInv

\* Every step keeps the invariant.
LEMMA NextIInv == IInv /\ [Next]_vars => IInv'
<1> SUFFICES ASSUME IInv, [Next]_vars PROVE IInv'
  OBVIOUS
<1>1. CASE Next
  <2>1. TypeOK /\ \A r \in Request : pc[r] = "trace" => written[r] < Pieces
    BY DEF IInv, PathHeld
  <2>2. TypeOK'
    <3>1. StateTypes' /\ RowTypes'
      BY <1>1, <2>1, StateTypesStep, RowTypesStep
    <3> QED BY <3>1 DEF TypeOK, StateTypes, RowTypes, Piece, AnswerLine
  <2>3. LinesHeld'
    BY <1>1, LinesStep
  <2> QED BY <1>1, <2>2, <2>3, PathStep, TraceStep, StdoutStep DEF IInv
<1>2. CASE UNCHANGED vars
  <2>1. TypeOK' /\ \A r \in Request : PathHeld(r)'
    BY <1>2 DEF IInv, vars, TypeOK, PathHeld
  <2>2. LinesHeld'
    BY <1>2 DEF IInv, vars, LinesHeld, LineHeld, Taken
  <2>3. NewestHeld' /\ \A r \in Request : PiecesHeld(r)' /\ RowHeld(r)'
    BY <1>2 DEF IInv, vars, NewestHeld, PiecesHeld, PiecesOf, RowHeld
  <2>4. StdoutHeld'
    BY <1>2 DEF IInv, vars, StdoutHeld, AnsweredLines, Range, Place
  <2> QED BY <2>1, <2>2, <2>3, <2>4 DEF IInv
<1> QED BY <1>1, <1>2

\* The invariant holds in every state a behaviour reaches.
THEOREM InvariantHolds == Spec => []IInv
<1> QED BY InitIInv, NextIInv, PTL DEF Spec

\* Every variable stays in its type.
THEOREM TypeCorrect == Spec => []TypeOK
<1>1. IInv => TypeOK
  BY DEF IInv
<1> QED BY <1>1, InvariantHolds, PTL

\* A request has its trace event in the file before its client has an answer,
\* with the outcome the client is told; only a failed write or a dead server
\* leaves less, never more.
THEOREM Traced == Spec => []TracedBeforeAnswered
<1>1. IInv => TracedBeforeAnswered
  <2> SUFFICES ASSUME IInv, NEW r \in called
               PROVE  /\ \A i \in PiecesOf(r) :
                           /\ traces[i].status = result[r] /\ traces[i].piece <= Pieces
                           /\ \A k \in 1..traces[i].piece : \E j \in PiecesOf(r) : traces[j].piece = k
                      /\ \A i, j \in PiecesOf(r) : i < j => traces[i].piece < traces[j].piece
                      /\ answer[r] \in {"ok", "error"} =>
                           /\ answer[r] = result[r]
                           /\ faults = 0 => \E i \in PiecesOf(r) : traces[i].piece = Pieces
    BY DEF TracedBeforeAnswered
  <2>1. TypeOK /\ r \in Request /\ PathHeld(r) /\ PiecesHeld(r) /\ Pieces \in Nat \ {0, 1}
    BY TransportsAssumption DEF IInv, TypeOK
  <2>2. ASSUME NEW i \in PiecesOf(r)
        PROVE  /\ traces[i].status = result[r] /\ traces[i].piece <= Pieces
               /\ \A k \in 1..traces[i].piece : \E j \in PiecesOf(r) : traces[j].piece = k
    <3>1. traces[i].piece \in 1..Pieces /\ traces[i].piece <= written[r] /\ written[r] \in 0..Pieces
      BY <2>1, PieceTypes DEF PiecesHeld, PiecesOf, TypeOK
    <3>2. \A k \in 1..traces[i].piece : k \in 1..written[r]
      BY <2>1, <3>1
    <3>3. traces[i].piece <= Pieces
      BY <2>1, <3>1
    <3> QED BY <2>1, <3>2, <3>3 DEF PiecesHeld
  <2>3. answer[r] \in {"ok", "error"} =>
          /\ answer[r] = result[r]
          /\ faults = 0 => \E i \in PiecesOf(r) : traces[i].piece = Pieces
    <3>1. Pieces \in 1..Pieces
      BY <2>1
    <3> QED BY <2>1, <3>1 DEF PathHeld, PiecesHeld
  <2>4. \A i, j \in PiecesOf(r) : i < j => traces[i].piece < traces[j].piece
    BY <2>1 DEF PiecesHeld
  <2> QED BY <2>2, <2>3, <2>4
<1> QED BY <1>1, InvariantHolds, PTL

\* An event is a line by itself unless it was written behind one that was not
\* finished, and a request that never reached handle_request leaves nothing.
THEOREM LinesWhole == Spec => []TraceLinesWhole
<1>1. IInv => TraceLinesWhole
  <2> SUFFICES ASSUME IInv PROVE TraceLinesWhole
    OBVIOUS
  <2>1. TypeOK /\ Pieces \in Nat \ {0, 1}
    BY TransportsAssumption DEF IInv
  <2>2. ASSUME NEW i \in DOMAIN traces PROVE traces[i].of \in called
    <3> DEFINE r == traces[i].of
    <3>1. r \in Request /\ traces[i].piece \in 1..Pieces /\ i \in PiecesOf(r)
      BY <2>1, PieceTypes DEF PiecesOf
    <3>2. traces[i].piece <= written[r] /\ written[r] \in 0..Pieces
      BY <2>1, <3>1 DEF IInv, PiecesHeld, TypeOK
    <3>3. written[r] > 0
      BY <2>1, <3>1, <3>2
    <3> QED BY <3>1, <3>3 DEF IInv, PathHeld
  <2>3. ASSUME NEW r \in called \ mixed, written[r] = Pieces
        PROVE  \E i \in 0..(Len(traces) - Pieces) :
                 /\ SubSeq(traces, i + 1, i + Pieces) = WholeEvent(r)
                 /\ i > 0 => traces[i].piece = Pieces
    <3>1. r \in Request /\ written[r] > 0
      BY <2>1, <2>3 DEF TypeOK
    <3>2. PICK i \in 0..(Len(traces) - Pieces) :
            /\ \A j \in 1..Pieces : traces[i + j] = [of |-> r, piece |-> j, status |-> result[r]]
            /\ i > 0 => traces[i].piece = Pieces
      BY <2>3, <3>1 DEF IInv, RowHeld
    <3>3. traces \in Seq(Piece) /\ Len(traces) \in Nat
      BY <2>1 DEF TypeOK, Piece
    <3> HIDE DEF Piece
    <3>4. /\ i + 1 \in 1..(Len(traces) + 1) /\ i + Pieces \in i..Len(traces)
          /\ (i + Pieces) - (i + 1) + 1 = Pieces /\ i \in Nat
      BY <2>1, <3>2, <3>3
    <3>5. SubSeq(traces, i + 1, i + Pieces) =
            [j \in 1..Pieces |-> traces[i + j]]
      BY <2>1, <3>3, <3>4
    <3>6. [j \in 1..Pieces |-> traces[i + j]] = WholeEvent(r)
      BY <3>2 DEF WholeEvent
    <3> QED BY <3>2, <3>5, <3>6
  <2> QED BY <2>2, <2>3 DEF TraceLinesWhole
<1> QED BY <1>1, InvariantHolds, PTL

\* The answers of the MCP server are for the lines that want one, in their order
\* and each once; and nothing is carried out behind a line that is open.
THEOREM InOrder == Spec => []McpAnswersInOrder
<1>1. IInv => McpAnswersInOrder
  <2> SUFFICES ASSUME IInv, NEW i \in DOMAIN lines, NEW j \in DOMAIN lines, i < j,
                      pc[lines[j]] \in {"handle", "trace", "answer"}
               PROVE  pc[lines[i]] = "done"
    BY DEF IInv, StdoutHeld, McpAnswersInOrder
  <2>1. LineHeld(i) /\ LineHeld(j) /\ Taken \in Int /\ DOMAIN lines \subseteq Nat
    BY DEF IInv, LinesHeld, TypeOK, Taken
  <2>2. ~(j > Taken)
    BY <2>1 DEF LineHeld
  <2>3. i < Taken
    BY <2>1, <2>2
  <2> QED BY <2>1, <2>3 DEF LineHeld
<1> QED BY <1>1, InvariantHolds, PTL
=============================================================================
