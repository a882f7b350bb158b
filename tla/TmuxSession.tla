---------------------------- MODULE TmuxSession ----------------------------
(***************************************************************************)
(* Sends, waits and an attachment to sessions of a tmux server             *)
(* (src/session.rs: send_tmux, wait_tmux, transcript_snapshot_tmux,        *)
(* transcript_since_tmux, ensure_tmux_pipe; src/daemon.rs:                 *)
(* handle_attach_stream).                                                  *)
(*                                                                         *)
(* Each call is a row of tmux commands and file accesses, and nothing is   *)
(* locked between them.  A pane is the row of what happened in it: the     *)
(* keys it was sent and the lines its shell printed.  Its screen is all of *)
(* it (3000 lines of history are enough), its transcript what came while   *)
(* its pipe was open.  A has-session directly in front of another command  *)
(* for the same target decides nothing that this command does not.         *)
(*                                                                         *)
(* Limits: sessions are opened by SessionIndex and only end here; cat has  *)
(* written what tmux has piped.                                            *)
(***************************************************************************)
EXTENDS Integers, Sequences, SequencesExt, FiniteSets

CONSTANTS
  Session,       \* names of tmux sessions, which are the ids of the sessions
  Longer,        \* per name: the other names it is a prefix of
  Sender,        \* threads that send once; one of them is Client
  Client,        \* what the attached client types goes through this one
  Waiter,        \* threads that wait once
  Shell,         \* who prints
  Inputs,        \* what may be sent: rows of "text" and "Enter"
  Conditions,    \* what may be waited for
  EndsInPrompt(_), \* of a screen: its last line, which may be an empty one below
                   \* the output, looks like a prompt
  History,       \* history_bytes of the attach request
  NoFile,        \* "the pipe of the pane is closed"
  MaxPrints,     \* bound: lines printed
  MaxCalls       \* bound: sends, waits and attachments of a behaviour

ASSUME TmuxAssumption ==
  /\ Session # {}
  /\ Longer \in [Session -> SUBSET Session]
  /\ \A s \in Session : s \notin Longer[s]
  /\ Client \in Sender /\ Shell \notin Sender /\ NoFile \notin Session
  /\ Inputs \subseteq Seq({"text", "Enter"}) \ {<< >>}
  /\ Conditions \subseteq {"output", "prompt", "exit", "idle", "invalid"}
  /\ {History, MaxPrints, MaxCalls} \subseteq Nat

VARIABLES
  live,          \* the sessions of the tmux server
  pipe,          \* per session: the transcript file its pane is piped to
  pane,          \* per session: what happened in it, oldest first
  transcript,    \* per id: the content of its transcript file
  prints,        \* lines printed so far
  spc, to, input, keyed,      \* per sender: its place, target, keys, keys typed
  overlapped,    \* the senders that sent while another did (history)
  wpc, on, condition, observation, last_text, quiet, expired, result,  \* waiters
  apc,           \* where the attach thread is
  attached,      \* the session it is attached to
  cursor, last_screen, chunk,  \* its variables of these names
  delivered,     \* what its client has received
  from,          \* where in the transcript its history began (history)
  begun,         \* what had happened in the pane when it attached (history)
  log            \* the events recorded

tmux == <<live, pipe, pane, transcript, prints>>
senders == <<spc, to, input, keyed, overlapped>>
waiters == <<wpc, on, condition, observation, last_text, quiet, expired, result>>
attach == <<apc, attached, cursor, last_screen, chunk, delivered, from, begun>>
vars == <<live, pipe, pane, transcript, prints, spc, to, input, keyed, overlapped,
          wpc, on, condition, observation, last_text, quiet, expired, result, apc,
          attached, cursor, last_screen, chunk, delivered, from, begun, log>>

NoScreen == << <<Shell, 0>> >>
AnySession == CHOOSE s \in Session : TRUE

Init ==
  /\ live = Session /\ prints = 0
  /\ pipe = [s \in Session |-> s]
  /\ pane = [s \in Session |-> << >>]
  /\ transcript = [s \in Session |-> << >>]
  /\ spc = [t \in Sender |-> "idle"] /\ to = [t \in Sender |-> AnySession]
  /\ input = [t \in Sender |-> << >>] /\ keyed = [t \in Sender |-> 0]
  /\ overlapped = {}
  /\ wpc = [w \in Waiter |-> "idle"] /\ on = [w \in Waiter |-> AnySession]
  /\ condition = [w \in Waiter |-> "none"]
  /\ observation = [w \in Waiter |-> << >>]
  /\ last_text = [w \in Waiter |-> << >>]
  /\ quiet = [w \in Waiter |-> FALSE] /\ expired = [w \in Waiter |-> FALSE]
  /\ result = [w \in Waiter |-> "none"]
  /\ apc = "idle" /\ attached = AnySession /\ begun = 0
  /\ cursor = 0 /\ last_screen = NoScreen /\ chunk = << >> /\ delivered = {}
  /\ from = 0
  /\ log = {}

Called == {t \in Sender : spc[t] # "idle"} \cup {w \in Waiter : wpc[w] # "idle"}
          \cup {Shell : a \in {apc} \ {"idle"}}
MayCall == Cardinality(Called) < MaxCalls

----------------------------------------------------------------------------
(* The tmux server                                                         *)

\* -t name: the session of that name, else the only one whose name begins so.
Target(s) ==
  IF s \in live THEN {s}
  ELSE LET longer == Longer[s] \cap live
       IN  IF \E p \in longer : longer = {p} THEN longer ELSE {}

\* Something happens in pane p; an open pipe copies it to its file.
Happens(p, what) ==
  /\ pane' = [pane EXCEPT ![p] = Append(@, what)]
  /\ transcript' = IF pipe[p] = NoFile THEN transcript
                   ELSE [transcript EXCEPT ![pipe[p]] = Append(@, what)]

Prints(p) ==
  /\ p \in live /\ prints < MaxPrints
  /\ prints' = prints + 1
  /\ Happens(p, <<Shell, prints'>>)
  /\ UNCHANGED <<live, pipe, senders, waiters, attach, log>>

\* By its shell, or by a kill.
Ends(p) ==
  /\ p \in live
  /\ live' = live \ {p}
  /\ UNCHANGED <<pipe, pane, transcript, prints, senders, waiters, attach, log>>

\* Mutant: every session is piped to the same file.
StartPipe_OneFile(s) ==
  \E p \in Target(s) : pipe' = [pipe EXCEPT ![p] =
    IF @ = NoFile THEN CHOOSE f \in Session : TRUE ELSE NoFile]

\* start_tmux_pipe: pipe-pane -o closes a pipe that is open and opens none then.
StartPipe(s) ==
  \E p \in Target(s) : pipe' = [pipe EXCEPT ![p] = IF @ = NoFile THEN s ELSE NoFile]

----------------------------------------------------------------------------
(* send_tmux                                                               *)

GoSend(t, label) == spc' = [spc EXCEPT ![t] = label]
Sending == {t \in Sender : spc[t] \in {"pipe", "keys", "record"}}

StartSend(t, s) ==
  /\ spc[t] = "idle" /\ MayCall
  /\ to' = [to EXCEPT ![t] = s]
  /\ \E keys \in Inputs : input' = [input EXCEPT ![t] = keys]
  /\ overlapped' = IF Sending = {} THEN overlapped ELSE overlapped \cup Sending \cup {t}
  /\ GoSend(t, "pipe")
  /\ UNCHANGED keyed

SendCall(t, s) ==
  /\ t # Client
  /\ StartSend(t, s)
  /\ UNCHANGED <<tmux, waiters, attach, log>>

SendPipe(t) ==
  /\ spc[t] = "pipe"
  /\ StartPipe(to[t])
  /\ GoSend(t, "keys")
  /\ UNCHANGED <<live, pane, transcript, prints, to, input, keyed, overlapped, waiters,
                 attach, log>>

\* Mutant: the status of send-keys is not looked at.
SendKey_NoStatus(t) ==
  /\ spc[t] = "keys"
  /\ \/ \E p \in Target(to[t]) : Happens(p, <<t, keyed[t] + 1>>)
     \/ Target(to[t]) = {} /\ UNCHANGED <<pane, transcript>>
  /\ keyed' = [keyed EXCEPT ![t] = @ + 1]
  /\ GoSend(t, IF keyed[t] + 1 = Len(input[t]) THEN "record" ELSE "keys")
  /\ UNCHANGED <<live, pipe, prints, to, input, overlapped, waiters, attach, log>>

\* send_tmux_bytes: a send-keys for each line of the text and each line end.
SendKey(t) ==
  /\ spc[t] = "keys"
  /\ \E p \in Target(to[t]) : Happens(p, <<t, keyed[t] + 1>>)
  /\ keyed' = [keyed EXCEPT ![t] = @ + 1]
  /\ GoSend(t, IF keyed[t] + 1 = Len(input[t]) THEN "record" ELSE "keys")
  /\ UNCHANGED <<live, pipe, prints, to, input, overlapped, waiters, attach, log>>

RecordSend(t) ==
  /\ spc[t] = "record"
  /\ log' = log \cup {<<"SendKeys", t>>}
  /\ GoSend(t, "done")
  /\ UNCHANGED <<tmux, to, input, keyed, overlapped, waiters, attach>>

\* A tmux command finds no session or cannot be run, or the append fails.
SendFails(t) ==
  /\ t \in Sending
  /\ GoSend(t, "failed")
  /\ UNCHANGED <<tmux, to, input, keyed, overlapped, waiters, attach, log>>

----------------------------------------------------------------------------
(* wait_tmux                                                               *)

GoWait(w, label) == wpc' = [wpc EXCEPT ![w] = label]
Answer(w, outcome) == result' = [result EXCEPT ![w] = outcome] /\ GoWait(w, "done")
Record(w, kind) == log' = log \cup {<<kind, w>>}

\* The event comes first, and then the regular expression is compiled.
WaitCall(w, s) ==
  /\ wpc[w] = "idle" /\ MayCall
  /\ on' = [on EXCEPT ![w] = s]
  /\ \E c \in Conditions :
       /\ condition' = [condition EXCEPT ![w] = c]
       /\ IF c = "invalid" THEN Answer(w, "error") ELSE GoWait(w, "look") /\ UNCHANGED result
  /\ Record(w, "WaitFor")
  /\ UNCHANGED <<tmux, senders, observation, last_text, quiet, expired, attach>>

\* Time passes: the deadline, and quiet_for behind the last change seen.
Expire(w) ==
  /\ wpc[w] \in {"look", "decide"} /\ ~expired[w]
  /\ expired' = [expired EXCEPT ![w] = TRUE]
  /\ UNCHANGED <<tmux, senders, wpc, on, condition, observation, last_text, quiet, result,
                 attach, log>>

GetsQuiet(w) ==
  /\ wpc[w] \in {"look", "decide"} /\ ~quiet[w] /\ condition[w] = "idle"
  /\ quiet' = [quiet EXCEPT ![w] = TRUE]
  /\ UNCHANGED <<tmux, senders, wpc, on, condition, observation, last_text, expired, result,
                 attach, log>>

\* observation_from_tmux, and the clock of the idle condition.
Look(w) ==
  /\ wpc[w] = "look"
  /\ \/ \E p \in Target(on[w]) :
          /\ observation' = [observation EXCEPT ![w] = pane[p]]
          /\ last_text' = [last_text EXCEPT ![w] = pane[p]]
          /\ quiet' = [quiet EXCEPT ![w] = @ /\ last_text[w] = pane[p]]
          /\ GoWait(w, "decide")
          /\ UNCHANGED result
     \/ /\ Target(on[w]) = {}
        /\ Answer(w, "error")
        /\ UNCHANGED <<observation, last_text, quiet>>
  /\ UNCHANGED <<tmux, senders, on, condition, expired, attach, log>>

\* matches_tmux of a screen: a regular expression matches anywhere in it, a prompt
\* at its end, and the exit of a tmux session is never seen.
Shows(w, text) ==
  \/ condition[w] = "output" /\ \E n \in 1..MaxPrints : <<Shell, n>> \in Range(text)
  \/ condition[w] = "prompt" /\ EndsInPrompt(text)
  \/ condition[w] = "idle" /\ quiet[w]

\* Mutant: the deadline is asked before the condition.
Decide_DeadlineFirst(w) ==
  /\ wpc[w] = "decide"
  /\ \/ /\ Shows(w, observation[w]) /\ ~expired[w]
        /\ Record(w, "Observation")
        /\ Answer(w, "ok")
     \/ expired[w] /\ GoWait(w, "again") /\ UNCHANGED <<result, log>>
     \/ ~Shows(w, observation[w]) /\ ~expired[w] /\ GoWait(w, "look")
        /\ UNCHANGED <<result, log>>
  /\ UNCHANGED <<tmux, senders, on, condition, observation, last_text, quiet, expired,
                 attach>>

\* Mutant: the deadline is never asked.
Decide_NoDeadline(w) ==
  /\ wpc[w] = "decide"
  /\ \/ /\ Shows(w, observation[w])
        /\ Record(w, "Observation")
        /\ Answer(w, "ok")
     \/ ~Shows(w, observation[w]) /\ GoWait(w, "look") /\ UNCHANGED <<result, log>>
  /\ UNCHANGED <<tmux, senders, on, condition, observation, last_text, quiet, expired,
                 attach>>

\* The condition, then the deadline, then 25 ms of sleep and another look.
Decide(w) ==
  /\ wpc[w] = "decide"
  /\ \/ /\ Shows(w, observation[w])
        /\ Record(w, "Observation")
        /\ Answer(w, "ok")
     \/ /\ ~Shows(w, observation[w])
        /\ GoWait(w, IF expired[w] THEN "again" ELSE "look")
        /\ UNCHANGED <<result, log>>
  /\ UNCHANGED <<tmux, senders, on, condition, observation, last_text, quiet, expired,
                 attach>>

\* A wait that is out of time records a fresh observation, not the one it
\* decided on.
LookAgain(w) ==
  /\ wpc[w] = "again"
  /\ \/ \E p \in Target(on[w]) :
          /\ observation' = [observation EXCEPT ![w] = pane[p]]
          /\ Record(w, "Observation")
          /\ Answer(w, "timeout")
     \/ /\ Target(on[w]) = {}
        /\ Answer(w, "error")
        /\ UNCHANGED <<observation, log>>
  /\ UNCHANGED <<tmux, senders, on, condition, last_text, quiet, expired, attach>>

\* An append fails, or tmux cannot be run.
WaitFails(w) ==
  /\ wpc[w] \in {"look", "decide", "again"}
  /\ Answer(w, "error")
  /\ UNCHANGED <<tmux, senders, on, condition, observation, last_text, quiet, expired,
                 attach, log>>

----------------------------------------------------------------------------
(* handle_attach_stream; a chunk is written to the client in the step that *)
(* finds it, since nobody but the client can tell.                         *)

others == <<pane, transcript, live, prints, senders, waiters>>
since_call == <<attached, begun>>

\* transcript_snapshot_tmux begins with the pipe, like every transcript read.
AttachCall(s) ==
  /\ apc = "idle" /\ MayCall
  /\ attached' = s /\ begun' = Len(pane[s])
  /\ StartPipe(s)
  /\ apc' = "history"
  /\ UNCHANGED <<others, cursor, last_screen, chunk, delivered, from, log>>

ReadHistory ==
  LET text == transcript[attached] IN
  /\ apc = "history"
  /\ text # << >>
  /\ cursor' = Len(text)
  /\ from' = Max({0, Len(text) - History})
  /\ chunk' = SubSeq(text, from' + 1, Len(text))
  /\ apc' = "record"
  /\ UNCHANGED <<others, pipe, since_call, last_screen, delivered, log>>

\* An empty transcript: the screen, and the transcript from its beginning.
CaptureHistory ==
  /\ apc = "history"
  /\ transcript[attached] = << >>
  /\ \E p \in Target(attached) :
       chunk' = SubSeq(pane[p], Max({0, Len(pane[p]) - History}) + 1, Len(pane[p]))
  /\ cursor' = 0 /\ from' = 0
  /\ apc' = "record"
  /\ UNCHANGED <<others, pipe, since_call, last_screen, delivered, log>>

RecordAttach ==
  /\ apc = "record"
  /\ log' = log \cup {<<"AttachHuman", attached>>}
  /\ delivered' = Range(chunk) /\ chunk' = << >>
  /\ apc' = "screen"
  /\ UNCHANGED <<others, pipe, since_call, cursor, last_screen, from>>

ScreenOf(s) == IF Target(s) = {} THEN NoScreen ELSE pane[CHOOSE p \in Target(s) : TRUE]

FirstScreen ==
  /\ apc = "screen"
  /\ last_screen' = ScreenOf(attached)
  /\ apc' = "input"
  /\ UNCHANGED <<others, pipe, since_call, cursor, chunk, delivered, from, log>>

\* 50 ms without input, or input, which is sent unless the client is read-only.
AttachIdle ==
  /\ apc = "input"
  /\ apc' = "pipe"
  /\ UNCHANGED <<others, pipe, since_call, cursor, last_screen, chunk, delivered, from, log>>

AttachTypes ==
  /\ apc = "input"
  /\ StartSend(Client, attached)
  /\ apc' = "typing"
  /\ UNCHANGED <<tmux, waiters, since_call, cursor, last_screen, chunk, delivered, from, log>>

AttachTyped ==
  /\ apc = "typing"
  /\ spc[Client] = "done"
  /\ apc' = "pipe"
  /\ UNCHANGED <<others, pipe, since_call, cursor, last_screen, chunk, delivered, from, log>>

AttachPipe ==
  /\ apc = "pipe"
  /\ StartPipe(attached)
  /\ apc' = "since"
  /\ UNCHANGED <<others, since_call, cursor, last_screen, chunk, delivered, from, log>>

\* transcript_since_tmux reads the file behind its pipe command.
Since ==
  LET text == transcript[attached] IN
  /\ apc = "since"
  /\ chunk' = SubSeq(text, cursor + 1, Len(text))
  /\ cursor' = Len(text)
  /\ apc' = IF chunk' = << >> THEN "delta" ELSE "rescreen"
  /\ UNCHANGED <<others, pipe, since_call, last_screen, delivered, from, log>>

\* screen_delta: what follows the longest common prefix.
ScreenDelta(previous, current) ==
  SubSeq(current, Len(LongestCommonPrefix({previous, current})) + 1, Len(current))

\* attach_screen_delta: without a screen now or before there is none.
Delta ==
  /\ apc = "delta"
  /\ IF Target(attached) = {} THEN UNCHANGED <<last_screen, delivered>>
     ELSE /\ last_screen' = ScreenOf(attached)
          /\ delivered' = IF last_screen = NoScreen THEN delivered
               ELSE delivered \cup Range(ScreenDelta(last_screen, last_screen'))
  /\ apc' = "input"
  /\ UNCHANGED <<others, pipe, since_call, cursor, chunk, from, log>>

\* Mutant: the offset is taken again with the screen.
Rescreen_TakesCursor ==
  /\ apc = "rescreen"
  /\ last_screen' = IF Target(attached) = {} THEN last_screen ELSE ScreenOf(attached)
  /\ cursor' = Len(transcript[attached])
  /\ delivered' = delivered \cup Range(chunk) /\ chunk' = << >>
  /\ apc' = "input"
  /\ UNCHANGED <<others, pipe, since_call, from, log>>

\* The screen to compare with the next time, taken behind the transcript.
Rescreen ==
  /\ apc = "rescreen"
  /\ last_screen' = IF Target(attached) = {} THEN last_screen ELSE ScreenOf(attached)
  /\ delivered' = delivered \cup Range(chunk) /\ chunk' = << >>
  /\ apc' = "input"
  /\ UNCHANGED <<others, pipe, since_call, cursor, from, log>>

\* No session for the pipe or the capture, a failed send, append or command, or
\* a client that is gone.
Detach ==
  /\ apc \notin {"idle", "closed"}
  /\ apc = "typing" => spc[Client] = "failed"
  /\ apc' = "closed"
  /\ cursor' = 0 /\ from' = 0 /\ last_screen' = NoScreen
  /\ chunk' = << >> /\ delivered' = {}
  /\ UNCHANGED <<others, pipe, since_call, log>>

----------------------------------------------------------------------------

SendStep(t) == SendPipe(t) \/ SendKey(t) \/ RecordSend(t) \/ SendFails(t)
WaitStep(w) == Look(w) \/ Decide(w) \/ LookAgain(w)
LoopStep == AttachIdle \/ AttachPipe \/ Since \/ Delta \/ Detach
AttachStep == ReadHistory \/ CaptureHistory \/ RecordAttach \/ FirstScreen \/ AttachTypes
              \/ AttachTyped \/ Rescreen \/ LoopStep

Next ==
  \/ \E s \in Session : \/ Prints(s) \/ Ends(s) \/ AttachCall(s)
                        \/ \E t \in Sender : SendCall(t, s)
                        \/ \E w \in Waiter : WaitCall(w, s)
  \/ \E t \in Sender : SendStep(t)
  \/ \E w \in Waiter : Expire(w) \/ GetsQuiet(w) \/ WaitStep(w) \/ WaitFails(w)
  \/ AttachStep

Spec == Init /\ [][Next]_vars

\* The threads of waits, and of an attachment whose client is not being
\* written to, run on, and clocks go on.
FairSpec == /\ Spec
            /\ \A w \in Waiter : WF_vars(WaitStep(w)) /\ WF_vars(Expire(w))
            /\ WF_vars(SendStep(Client)) /\ WF_vars(LoopStep \/ AttachTyped)

----------------------------------------------------------------------------
(* Properties                                                              *)

\* What tmux calls s is the session s, or one with a longer name when s is gone.
Reaches(s, p) == p = s \/ (p \in Longer[s] /\ s \notin live)

\* Where the keys of a send are in a pane.
KeysOf(t, p) == {i \in DOMAIN pane[p] : pane[p][i][1] = t}

\* An input in the log was typed to its end (send_tmux appends SendKeys behind
\* the last key): none of its keys is missing.  They are in one pane, in their
\* order and each once, and no other send's key stands between them, unless the
\* two were served at the same time or the session was replaced under its name.
RecordedWasTyped ==
  \A t \in Sender : <<"SendKeys", t>> \in log =>
    LET typed(i, p) == <<t, i>> \in Range(pane[p]) IN
    /\ \A i \in DOMAIN input[t] : \E p \in Session : typed(i, p)
    /\ t \in overlapped \/ (Longer[to[t]] # {} /\ to[t] \notin live)
       \/ \E p \in Session :
            /\ \A i \in DOMAIN input[t] : typed(i, p)
            /\ \A i, k \in KeysOf(t, p) : i < k =>
                 /\ pane[p][i][2] < pane[p][k][2]
                 /\ \A j \in i..k : pane[p][j][1] \in {t, Shell}

\* Sessions do not mix: input goes to the session it names, and a transcript
\* holds what happened in its own session; only the name of a session that is
\* gone may mean another, which it is the beginning of.
NamesApart ==
  \A p \in Session :
    /\ \A what \in Range(pane[p]) : what[1] \in Sender => Reaches(to[what[1]], p)
    /\ \A what \in Range(transcript[p]) :
         \E q \in Session : Reaches(p, q) /\ what \in Range(pane[q])

\* A client misses nothing that is in the transcript of its session: from its
\* history to the offset all was delivered, whatever the screens showed.
AttachMissesOnlyUnpiped ==
  apc = "input" =>
    Range(SubSeq(transcript[attached], from + 1, cursor)) \subseteq delivered

\* Output that was on the screen before a transcript read, and came after the
\* attachment began, has been given to the client when that read found nothing
\* new (README.md, Human Attach: "Attach streams the session transcript and live
\* output").
LiveOutputArrives ==
  apc = "delta" /\ last_screen # NoScreen =>
    Range(SubSeq(last_screen, begun + 1, Len(last_screen))) \subseteq delivered

\* A wait that succeeds or times out leaves its call and one observation in the
\* log.  Success: the recorded observation shows the condition, and for silence
\* it is the screen that did not change.  Timeout: the condition did not hold
\* of the look it decided on, and what it records is not older than that.
WaitAnswered ==
  \A w \in Waiter : result[w] \in {"ok", "timeout"} =>
    /\ {<<"WaitFor", w>>, <<"Observation", w>>} \subseteq log
    /\ result[w] = "ok" => Shows(w, observation[w]) /\ observation[w] = last_text[w]
    /\ result[w] = "timeout" =>
         /\ ~Shows(w, last_text[w])
         /\ IsPrefix(last_text[w], observation[w])
            \/ (Longer[on[w]] # {} /\ on[w] \notin live)

\* Waits return, and an attachment whose session has ended comes to an end too:
\* the next transcript read finds no session.
CallsReturn ==
  /\ \A w \in Waiter : wpc[w] = "look" ~> wpc[w] = "done"
  /\ live = {} /\ apc = "input" ~> apc = "closed"

----------------------------------------------------------------------------
(* Types                                                                   *)

Entry == (Sender \cup {Shell}) \X Nat

TypeOK ==
  /\ live \subseteq Session /\ prints \in 0..MaxPrints
  /\ pipe \in [Session -> Session \cup {NoFile}]
  /\ pane \in [Session -> Seq(Entry)] /\ transcript \in [Session -> Seq(Entry)]
  /\ spc \in [Sender -> {"idle", "pipe", "keys", "record", "done", "failed"}]
  /\ to \in [Sender -> Session] /\ input \in [Sender -> Inputs \cup {<< >>}]
  /\ keyed \in [Sender -> Nat] /\ overlapped \subseteq Sender
  /\ wpc \in [Waiter -> {"idle", "look", "decide", "again", "done"}]
  /\ on \in [Waiter -> Session] /\ condition \in [Waiter -> Conditions \cup {"none"}]
  /\ observation \in [Waiter -> Seq(Entry)] /\ last_text \in [Waiter -> Seq(Entry)]
  /\ quiet \in [Waiter -> BOOLEAN] /\ expired \in [Waiter -> BOOLEAN]
  /\ result \in [Waiter -> {"none", "ok", "timeout", "error"}]
  /\ apc \in {"idle", "history", "record", "screen", "input", "typing", "pipe", "since",
              "delta", "rescreen", "closed"}
  /\ attached \in Session /\ begun \in Nat
  /\ last_screen \in Seq(Entry) /\ chunk \in Seq(Entry)
  /\ cursor \in 0..Len(transcript[attached]) /\ from \in 0..cursor
=============================================================================
