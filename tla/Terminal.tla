----------------------------- MODULE Terminal -----------------------------
(***************************************************************************)
(* One pty session with its reader thread, clients that wait for a         *)
(* condition and a client that is attached (src/session.rs: record_output, *)
(* wait, transcript_snapshot, transcript_since; src/daemon.rs:             *)
(* handle_attach_stream).                                                  *)
(*                                                                         *)
(* Output is a row of lines numbered from 1, so that a transcript is the   *)
(* last kept of the lines read and the screen the last Rows of them; a     *)
(* read returns any number of lines.  The threads meet in the state of the *)
(* session, which is behind a mutex that each holds for one step.          *)
(***************************************************************************)
EXTENDS Integers, Sequences, SequencesExt

CONSTANTS
  Waiter,          \* clients that wait once
  Conditions,      \* what they wait for
  Prompts,         \* lines that look like a prompt, where they end the screen
  Rows,            \* lines on the screen
  TailLines,       \* lines of stdout_tail in an observation (12,000 characters)
  MaxTranscript,   \* lines a transcript may hold (1,000,000 bytes)
  KeepTranscript,  \* lines it is cut to beyond that (750,000 characters)
  History,         \* history_bytes of the attach request
  MaxOutput,       \* bound: lines the shell prints
  MaxTyped         \* bound: inputs typed through the attachment

\* A regular expression, which matches where its line is shown.
OutputCondition == [kind : {"output"}, line : 1..MaxOutput]

ASSUME TerminalAssumption ==
  /\ {Rows, TailLines, KeepTranscript, MaxTranscript, MaxOutput} \subseteq Nat \ {0}
  /\ {History, MaxTyped} \subseteq Nat
  /\ TailLines <= KeepTranscript /\ KeepTranscript <= MaxTranscript
  /\ Conditions \subseteq OutputCondition
                            \cup [kind : {"prompt", "exit", "idle", "invalid"}]
  /\ Prompts \subseteq 1..MaxOutput

VARIABLES
  printed,       \* lines the shell has written
  running,       \* the shell runs
  read,          \* lines the reader thread has recorded
  kept,          \* lines in the transcript
  exit_status,   \* the state knows that the shell has exited
  quiet,         \* the last output is old enough for the idle condition
  wpc, condition, observation, expired, result,   \* per waiter
  apc,           \* where the attach thread is
  cursor,        \* its offset in the transcript
  last_screen,   \* the screen it compares with
  chunk,         \* what it writes next
  delivered,     \* the lines its client received, in order, while it is attached
  from,          \* the first line the attachment owes its client (history)
  cut,           \* the transcript was cut since the attachment began (history)
  typed,         \* inputs of the attached client written to the terminal
  log            \* how many events of a kind, by whom, are in the event log

shell == <<printed, running>>
state == <<read, kept, exit_status, quiet>>
waiters == <<wpc, condition, observation, expired, result>>
attach == <<apc, cursor, last_screen, chunk, delivered, from, typed>>
vars == <<printed, running, read, kept, exit_status, quiet, wpc, condition,
          observation, expired, result, apc, cursor, last_screen, chunk, delivered,
          from, cut, typed, log>>

Event == ({"WaitFor", "Observation"} \X Waiter)
         \cup {<<"AttachHuman">>, <<"SendKeys">>}

NoScreen == <<0>>
NoObservation == [read |-> 0, shown |-> {}, exit |-> FALSE]
NoCondition == [kind |-> "none"]

Init ==
  /\ printed = 0 /\ running = TRUE
  /\ read = 0 /\ kept = 0 /\ exit_status = FALSE /\ quiet = FALSE
  /\ wpc = [w \in Waiter |-> "idle"]
  /\ condition = [w \in Waiter |-> NoCondition]
  /\ observation = [w \in Waiter |-> NoObservation]
  /\ expired = [w \in Waiter |-> FALSE]
  /\ result = [w \in Waiter |-> "none"]
  /\ apc = "idle" /\ cursor = 0 /\ last_screen = NoScreen
  /\ chunk = <<>> /\ delivered = <<>> /\ from = 1 /\ cut = FALSE
  /\ typed = 0
  /\ log = [e \in Event |-> 0]

Least(a, b) == IF a < b THEN a ELSE b
Lines(a, b) == [i \in 1..(b - a + 1) |-> a + i - 1]   \* lines a to b
Screen == Lines(read - Least(Rows, read) + 1, read)
Transcript == Lines(read - kept + 1, read)
Record(event) == log' = [log EXCEPT ![event] = @ + 1]

----------------------------------------------------------------------------
(* The shell and the reader thread                                         *)

Prints == /\ running /\ printed < MaxOutput
          /\ printed' = printed + 1
          /\ UNCHANGED <<running, state, waiters, attach, cut, log>>

\* By itself or by a kill.
ShellExits == /\ running
              /\ running' = FALSE
              /\ UNCHANGED <<printed, state, waiters, attach, cut, log>>

\* Mutant: the reader ends with the shell.
Read_EndsWithShell ==
  /\ running
  /\ \E n \in 1..(printed - read) :
       /\ read' = read + n
       /\ kept' = IF kept + n > MaxTranscript THEN KeepTranscript ELSE kept + n
       /\ cut' = (cut \/ kept + n > MaxTranscript)
  /\ quiet' = FALSE
  /\ UNCHANGED <<shell, exit_status, waiters, attach, log>>

\* A read of the reader thread and record_output.
Read ==
  /\ \E n \in 1..(printed - read) :
       /\ read' = read + n
       /\ kept' = IF kept + n > MaxTranscript THEN KeepTranscript ELSE kept + n
       /\ cut' = (cut \/ kept + n > MaxTranscript)
  /\ quiet' = FALSE
  /\ UNCHANGED <<shell, exit_status, waiters, attach, log>>

\* Time passes behind the last output.
GetsQuiet ==
  /\ ~quiet
  /\ quiet' = TRUE
  /\ UNCHANGED <<shell, read, kept, exit_status, waiters, attach, cut, log>>

----------------------------------------------------------------------------
(* wait                                                                    *)

Goto(w, label) == wpc' = [wpc EXCEPT ![w] = label]

\* The event comes first; a regex that does not compile ends the wait behind it.
WaitCall(w) ==
  /\ wpc[w] = "idle"
  /\ \E c \in Conditions :
       /\ condition' = [condition EXCEPT ![w] = c]
       /\ IF c.kind = "invalid"
          THEN Goto(w, "done") /\ result' = [result EXCEPT ![w] = "error"]
          ELSE Goto(w, "refresh") /\ UNCHANGED result
  /\ Record(<<"WaitFor", w>>)
  /\ UNCHANGED <<shell, state, observation, expired, attach, cut>>

\* Time passes: the deadline of a wait.
Expire(w) ==
  /\ wpc[w] \notin {"idle", "done"} /\ ~expired[w]
  /\ expired' = [expired EXCEPT ![w] = TRUE]
  /\ UNCHANGED <<shell, state, wpc, condition, observation, result, attach, cut, log>>

\* refresh_exit: try_wait, unless the status is known.
RefreshExit(w) ==
  /\ wpc[w] = "refresh"
  /\ exit_status' = (exit_status \/ ~running)
  /\ Goto(w, "observe")
  /\ UNCHANGED <<shell, read, kept, quiet, condition, observation, expired, result,
                 attach, cut, log>>

\* observation_from: the screen and the end of the transcript.
Observe(w) ==
  /\ wpc[w] = "observe"
  /\ observation' = [observation EXCEPT ![w] =
       [read |-> read,
        shown |-> (read - Least(Rows, read) + 1 .. read)
                    \cup (read - Least(TailLines, kept) + 1 .. read),
        exit |-> exit_status]]
  /\ Goto(w, "decide")
  /\ UNCHANGED <<shell, state, condition, expired, result, attach, cut, log>>

\* Mutant: a prompt anywhere on the screen counts.
Matches_PromptAbove(w) ==
  LET c == condition[w] IN
  CASE c.kind = "output" -> c.line \in observation[w].shown
    [] c.kind = "prompt" -> observation[w].shown \cap Prompts # {}
    [] c.kind = "exit" -> observation[w].exit
    [] c.kind = "idle" -> quiet

\* WaitMatcher::matches.  A regular expression looks at the screen and the tail,
\* a prompt at the last line of the screen; idle asks the state as it is now.
Matches(w) ==
  LET c == condition[w] IN
  CASE c.kind = "output" -> c.line \in observation[w].shown
    [] c.kind = "prompt" -> observation[w].read \in Prompts
    [] c.kind = "exit" -> observation[w].exit
    [] c.kind = "idle" -> quiet

Outcome(w, outcome) ==
  /\ Record(<<"Observation", w>>)
  /\ result' = [result EXCEPT ![w] = outcome]
  /\ Goto(w, "done")

\* Mutant: the deadline is asked before the condition.
Decide_DeadlineFirst(w) ==
  /\ wpc[w] = "decide"
  /\ \/ expired[w] /\ Outcome(w, "timeout")
     \/ ~expired[w] /\ Matches(w) /\ Outcome(w, "ok")
     \/ /\ ~Matches(w) /\ ~expired[w]
        /\ Goto(w, "refresh")
        /\ UNCHANGED <<result, log>>
  /\ UNCHANGED <<shell, state, condition, observation, expired, attach, cut>>

\* Mutant: the deadline is never asked.
Decide_NoDeadline(w) ==
  /\ wpc[w] = "decide"
  /\ \/ Matches(w) /\ Outcome(w, "ok")
     \/ /\ ~Matches(w)
        /\ Goto(w, "refresh")
        /\ UNCHANGED <<result, log>>
  /\ UNCHANGED <<shell, state, condition, observation, expired, attach, cut>>

\* Mutant: a timeout leaves no observation.
Decide_SilentTimeout(w) ==
  /\ wpc[w] = "decide"
  /\ \/ Matches(w) /\ Outcome(w, "ok")
     \/ /\ ~Matches(w) /\ expired[w]
        /\ result' = [result EXCEPT ![w] = "timeout"]
        /\ Goto(w, "done")
        /\ UNCHANGED log
     \/ /\ ~Matches(w) /\ ~expired[w]
        /\ Goto(w, "refresh")
        /\ UNCHANGED <<result, log>>
  /\ UNCHANGED <<shell, state, condition, observation, expired, attach, cut>>

\* The condition, then the deadline, then 25 ms of sleep and another look.
Decide(w) ==
  /\ wpc[w] = "decide"
  /\ \/ Matches(w) /\ Outcome(w, "ok")
     \/ ~Matches(w) /\ expired[w] /\ Outcome(w, "timeout")
     \/ /\ ~Matches(w) /\ ~expired[w]
        /\ Goto(w, "refresh")
        /\ UNCHANGED <<result, log>>
  /\ UNCHANGED <<shell, state, condition, observation, expired, attach, cut>>

\* An append to the event log, or the poll of the child, fails.
WaitFails(w) ==
  /\ \/ wpc[w] \in {"idle", "refresh"}
     \/ wpc[w] = "decide" /\ (Matches(w) \/ expired[w])
  /\ result' = [result EXCEPT ![w] = "error"]
  /\ Goto(w, "done")
  /\ UNCHANGED <<shell, state, condition, observation, expired, attach, cut, log>>

----------------------------------------------------------------------------
(* handle_attach_stream                                                    *)

others == <<shell, state, waiters>>

\* transcript_snapshot: the offset and the history under one lock.
AttachCall ==
  LET first == read - Least(History, kept) + 1 IN
  /\ apc = "idle"
  /\ cursor' = kept
  /\ chunk' = Lines(first, read)
  /\ from' = first
  /\ cut' = FALSE
  /\ apc' = "record"
  /\ UNCHANGED <<others, last_screen, delivered, typed, log>>

\* record_attach
RecordAttach ==
  /\ apc = "record"
  /\ Record(<<"AttachHuman">>)
  /\ apc' = "initial"
  /\ UNCHANGED <<others, cursor, last_screen, chunk, delivered, from, cut, typed>>

WriteInitial ==
  /\ apc = "initial"
  /\ delivered' = delivered \o chunk
  /\ chunk' = <<>>
  /\ apc' = "screen"
  /\ UNCHANGED <<others, cursor, last_screen, from, cut, typed, log>>

\* Mutant: the offset is taken here, behind the history.
FirstScreen_TakesCursor ==
  /\ apc = "screen"
  /\ last_screen' = Screen
  /\ cursor' = kept
  /\ apc' = "input"
  /\ UNCHANGED <<others, chunk, delivered, from, cut, typed, log>>

FirstScreen ==
  /\ apc = "screen"
  /\ last_screen' = Screen
  /\ apc' = "input"
  /\ UNCHANGED <<others, cursor, chunk, delivered, from, cut, typed, log>>

\* The client typed (send: write, then log), or did not for 50 ms; what a
\* read-only client types is dropped.
AttachInput ==
  /\ apc = "input"
  /\ \/ /\ typed < MaxTyped
        /\ typed' = typed + 1
        /\ apc' = "send"
     \/ apc' = "since" /\ UNCHANGED typed
  /\ UNCHANGED <<others, cursor, last_screen, chunk, delivered, from, cut, log>>

RecordTyped ==
  /\ apc = "send"
  /\ Record(<<"SendKeys">>)
  /\ apc' = "since"
  /\ UNCHANGED <<others, cursor, last_screen, chunk, delivered, from, cut, typed>>

\* transcript_since; the screen is asked afterwards, with the lock taken again.
Since ==
  /\ apc = "since"
  /\ chunk' = SubSeq(Transcript, cursor + 1, kept)
  /\ cursor' = kept
  /\ apc' = IF chunk' = <<>> THEN "delta" ELSE "rescreen"
  /\ UNCHANGED <<others, last_screen, delivered, from, cut, typed, log>>

\* screen_delta: what follows the longest common prefix.
ScreenDelta(previous, current) ==
  LET same == CHOOSE n \in 0..Len(current) :
                /\ n <= Len(previous)
                /\ SubSeq(previous, 1, n) = SubSeq(current, 1, n)
                /\ n = Len(previous) \/ n = Len(current) \/ previous[n + 1] # current[n + 1]
  IN SubSeq(current, same + 1, Len(current))

\* attach_screen_delta, when the transcript had nothing new.
Delta ==
  /\ apc = "delta"
  /\ chunk' = IF last_screen = NoScreen THEN <<>> ELSE ScreenDelta(last_screen, Screen)
  /\ last_screen' = Screen
  /\ apc' = "write"
  /\ UNCHANGED <<others, cursor, delivered, from, cut, typed, log>>

Rescreen ==
  /\ apc = "rescreen"
  /\ last_screen' = Screen
  /\ apc' = "write"
  /\ UNCHANGED <<others, cursor, chunk, delivered, from, cut, typed, log>>

WriteChunk ==
  /\ apc = "write"
  /\ delivered' = delivered \o chunk
  /\ chunk' = <<>>
  /\ apc' = "input"
  /\ UNCHANGED <<others, cursor, last_screen, from, cut, typed, log>>

\* The client closes, or a write to it, a send or an append fails: the thread of
\* the attachment ends with all it holds.
Detach ==
  /\ apc \in {"record", "initial", "input", "send", "write"}
  /\ apc' = "closed"
  /\ cursor' = 0 /\ last_screen' = NoScreen
  /\ chunk' = <<>> /\ delivered' = <<>> /\ from' = 1 /\ cut' = FALSE
  /\ UNCHANGED <<others, typed, log>>

----------------------------------------------------------------------------

WaitStep(w) == RefreshExit(w) \/ Observe(w) \/ Decide(w)

AttachStep == RecordAttach \/ WriteInitial \/ FirstScreen \/ AttachInput \/ RecordTyped
              \/ Since \/ Delta \/ Rescreen \/ WriteChunk \/ Detach

Next ==
  \/ Prints \/ ShellExits \/ Read \/ GetsQuiet
  \/ \E w \in Waiter : WaitCall(w) \/ Expire(w) \/ WaitStep(w) \/ WaitFails(w)
  \/ AttachCall \/ AttachStep

Spec == Init /\ [][Next]_vars

\* The reader thread and a wait run on threads of their own, the wait with at
\* most 25 ms of sleep, and clocks go on; the attached client may go any time.
FairSpec == /\ Spec
            /\ WF_vars(Read)
            /\ \A w \in Waiter : WF_vars(WaitStep(w)) /\ WF_vars(Expire(w))

----------------------------------------------------------------------------
(* Properties                                                              *)

TypeOK ==
  /\ printed \in 0..MaxOutput /\ read \in 0..printed
  /\ kept \in 0..Least(read, MaxTranscript)
  /\ {running, exit_status, quiet, cut} \subseteq BOOLEAN
  /\ wpc \in [Waiter -> {"idle", "refresh", "observe", "decide", "done"}]
  /\ condition \in [Waiter -> Conditions \cup {NoCondition}]
  /\ observation \in [Waiter -> [read : 0..MaxOutput, shown : SUBSET (1..MaxOutput),
                                 exit : BOOLEAN]]
  /\ expired \in [Waiter -> BOOLEAN]
  /\ result \in [Waiter -> {"none", "ok", "timeout", "error"}]
  /\ apc \in {"idle", "record", "initial", "screen", "input", "send", "since", "delta",
              "rescreen", "write", "closed"}
  /\ cursor \in 0..MaxTranscript
  /\ {last_screen, chunk, delivered} \subseteq Seq(0..MaxOutput)
  /\ from \in 1..(MaxOutput + 1)
  /\ typed \in 0..MaxTyped
  /\ log \in [Event -> 0..(1 + MaxTyped)]

\* A wait that was answered, by a timeout too, left one WaitFor and one
\* Observation (README: "Every action and observation is written to the session
\* JSONL log").
WaitIsRecorded ==
  \A w \in Waiter : result[w] \in {"ok", "timeout"} =>
    /\ log[<<"WaitFor", w>>] = 1
    /\ log[<<"Observation", w>>] = 1

\* A wait for a regular expression succeeds only when its line was there, and
\* times out only when at its last look the line had not arrived or had gone past
\* the tail and the screen.  A wait for a prompt succeeds exactly when the last
\* line that was read is one: a prompt that is still on the screen above later
\* output does not count.  A wait for the exit times out only while the shell
\* was seen running.
OutcomeIsRight ==
  \A w \in Waiter : result[w] \in {"ok", "timeout"} =>
    LET c == condition[w] o == observation[w] IN
    CASE c.kind = "output" ->
           IF result[w] = "ok" THEN c.line <= o.read
           ELSE c.line > o.read \/ (c.line <= o.read - TailLines /\ c.line <= o.read - Rows)
      [] c.kind = "prompt" -> result[w] = "ok" <=> o.read \in Prompts
      [] c.kind = "exit" -> result[w] = "ok" <=> o.exit
      [] OTHER -> TRUE

\* The client of an attachment gets every line from its history on, as far as
\* the offset has come, unless the transcript was cut meanwhile.
AttachMissesNothing ==
  apc = "input" /\ ~cut => from..(read - kept + cursor) \subseteq Range(delivered)

\* Every wait returns.
WaitReturns == \A w \in Waiter : wpc[w] = "refresh" ~> wpc[w] = "done"

\* All that the shell printed comes to the transcript, also after its exit.
OutputArrives == \A n \in 1..MaxOutput : printed = n ~> read >= n
=============================================================================
