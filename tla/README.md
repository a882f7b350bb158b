# agent-pty: a TLA+ model of the terminal substrate

`agent-pty` keeps terminals for agents: a daemon opens shells in ptys or in tmux,
sends input, waits for output, gates dangerous commands behind approvals, and
writes everything it does to an append-only, hash-chained log per session. Paths
below are relative to the repository (`src/session.rs` and so on).

The development answers one question per component: what can several threads,
several processes, a crash or an unlucky order do to the promise that component
makes? TLC checks small instances; TLAPS proves every safety property of these runs,
and the refinements of the log and of the gate, for every value of the constants.

## 1. The system

| component | code | state | operations |
| --- | --- | --- | --- |
| evidence log | `evidence.rs` | one JSONL file per session; a mutex per process and a flock on the file | `append_action`, `append_observation`, `replay`, `verify_integrity` |
| policy gate | `policy.rs`, `session.rs` 648-764, 1123-1193 | `policy-approvals.json`; a mutex per `SessionManager` | `create_policy_approval`, `authorize_action_policy`, then `send` |
| registry and index | `session.rs` 217-391, 553-579, 620-646, 1246-1316 | a map from id to handle behind a mutex; `sessions.json` without one | `open`, `kill`, `list_sessions`, the lookup of every request |
| forks | `session.rs` 766-800, 1641-1724 | directories and branches named for the target | `fork` |
| pty session | `session.rs` 271-287, 455-551, 1195-1244, 1329-1368 | transcript, screen, exit status behind a mutex; a reader thread | `record_output`, `wait`, `transcript_snapshot`, `transcript_since` |
| attach | `daemon.rs` 445-563 | a cursor and the last screen in the connection's thread | `handle_attach_stream` |
| tmux backend | `session.rs` 320-391, 924-1110, 1989-2018 | the tmux server, a transcript file written by `pipe-pane` | open, send, wait, screen, kill |
| unix daemon | `daemon.rs` 288-443, `main.rs` 242-247, 305-308 | the socket path, a shutdown channel, one thread per connection | serve, stop, one request per connection |
| proof bundles | `session.rs` 802-906 | three files per session | `proof` |
| transports and traces | `http.rs`, `mcp.rs`, `daemon.rs` 126-147, 411-443, `session.rs` 908-918 | a thread per connection, or a line at a time; `traces.jsonl` | `handle_request`, `append_trace` |

**How they interact.** Every transport calls `handle_request` on a shared
`SessionManager`, from one thread per connection; a second process (`serve-http`,
`mcp-stdio`) may share the log directory. A Send request goes through the gate,
then to the terminal, then to the log; what an attached client types goes to the
terminal and the log without the gate. `open` writes the log, the registry and the index
in this order. The attach thread and every wait read the state that the reader
thread of the session writes.

**What is hard.** Three kinds of file are shared by processes and only one of
them (the log) has a lock between processes; the two JSON files are truncated and
rewritten, and `traces.jsonl` is appended to in pieces; steps of one operation
are separated by locks released in between; a call on a tmux session is a row of
tmux commands without any lock, one of which toggles;
the daemon's socket path outlives and predates the daemon; clients hold offsets
into a transcript that is cut. `PROJECT.json` lists the hazards one by one, each
with the line where it bites and the properties about it.

**What makes each component correct.**
- *Log*: the chain verifies whatever is interrupted; an acknowledged event stays
  and is there once; readers see only whole prefixes; contention never is an
  error; appends return.
- *Gate*: a grant is spent once, for the session and command it names, in time;
  a Send request gets a gated command to a terminal only behind a recorded
  approval, and a denied one never; no grant is lost; the log has the inputs of
  its terminal, attached ones included.
- *Registry and index*: what an open promised can be reached until it ends, also
  after a restart; one id names one session; the index can be read, and what it
  calls inactive has ended.
- *Session, wait, attach*: a wait returns, with the right outcome and with
  evidence; an attached client misses nothing and is recorded first.
- *Tmux session*: an input in the log was typed whole, in the session it names;
  transcripts do not mix; a wait records the look that decides it; a client
  misses nothing of the transcript.
- *Forks*: the workspace of a fork is its own.
- *Proof bundles*: what a verified bundle summarises is genuine and verified; the
  summary is that of the log; the artifacts are those of the answer.
- *Transports*: a request is traced with its outcome before it is answered; MCP
  answers can be told from their order; every request ends.
- *Daemon*: a serving daemon is reachable until it is stopped; a stop ends it; a
  crash keeps nobody from starting; every client returns.

## 2. The modules

| module | models | kind |
| --- | --- | --- |
| `EvidenceLog` | `EventLog::append`, `replay` | detailed specification |
| `EvidenceChain` | what a log promises: an atomic chain, and how it may be spoilt | abstract specification |
| `EvidenceLog_proofs` | | TLAPS proofs |
| `PolicyGate` | rules, approvals, and the send behind them | detailed specification |
| `OneTimeGrants` | what the gate promises of each grant: told, spent, recorded, let through, once each | abstract specification |
| `PolicyGate_proofs` | | TLAPS proofs |
| `SessionIndex` | registry, `sessions.json`, tmux server, forks | specification |
| `SessionIndex_proofs` | | TLAPS proofs |
| `Terminal` | reader thread, wait, attach of a pty session | specification |
| `Terminal_proofs` | | TLAPS proofs |
| `TmuxSession` | send, wait, transcript pipe, attach of tmux sessions | specification |
| `TmuxSession_proofs` | | TLAPS proofs |
| `ProofBundle` | `proof`: replays, summary, artifacts | specification |
| `ProofBundle_proofs` | | TLAPS proofs |
| `Transports` | unix socket, HTTP and MCP servers, the trace log | specification |
| `Transports_proofs` | | TLAPS proofs |
| `DaemonSocket` | serve, stop, the socket path | specification |
| `DaemonSocket_proofs` | | TLAPS proofs |
| `MC...` | instances for TLC | |

`PROJECT.json`, `map`, gives the source lines of every definition. Operators named
`X_Something` behind the comment "Mutant" are not part of the model: each is `X`
with a plausible bug, and shows that a property of the run would notice it. The
models hold what the runs need, `TypeOK` included; inductive invariants are in the
`_proofs` modules, where they are used.

### EvidenceLog

State: `log` (the events the file parses to), `tail` (how its bytes end: `clean`,
`torn` in a part of a line, `whole` in a line that lacks only its newline,
`glued` when bytes were written behind such a line), `exists`, the mutex of each
process, the two flocks, and per thread where it is. `append` is
`AppendCall`, `LockMutex`, `LockExclusive`, `ReadExisting`, `WriteFirst`,
`WriteBody`, `WriteNewline`, `AppendReturn`; `replay` is `ReplayCall`,
`LockShared`, `ReplayLoad`. `WriteFails` is a `write_all` that stops part of the
way, `Crash` a process that dies anywhere; both leave the bytes written so far.
`CutPoints` says where a write may stop. A hash is the sequence of what was
hashed, so it is injective by construction: collisions of SHA-256 are out of
scope. `fate` is a history variable: what has become of each append call.

A write that stops exactly before its newline leaves a line that parses
(`read_events_from_file`, `evidence.rs` 343-349); the next append goes on behind
it on the same line, returns Ok, and from then on neither event can be read. The
conditional properties say so: an acknowledged event stays and a replay stays
true unless the log was spoilt in this way, and then exactly the last event is
gone and nothing is added any more.

`ImplementsChain` is the refinement: with `chain` mapped to the identifiers in
the file and `spoilt` to such a line, every step is a `Begin`, `Commit`,
`Confirm`, `Spoil`, `Abandon` of `EvidenceChain`, or a stutter. The other modules
treat an append as one step on the strength of it.

### PolicyGate

Rules are sets of commands with a label and an action, configured rules before
built-in ones, and `Evaluate` takes the first that matches. `approvals` is the
text last written to `policy-approvals.json`, `file` whether that is what the file
holds (`whole`) or it does not parse (`empty`, `torn`): `Truncate` and
`WriteApprovals` are the two halves of `fs::write`, a write that stops in between
leaves the file empty or torn, and a write behind another one that came since the
truncation may leave the end of a longer text (`Overwritten`), which needs two
processes. A send is `SendCall`,
`LockApprovals`, `ReadToConsume`, `Truncate`, `WriteApprovals`,
`RecordApproved`, `Deliver`, `RecordSend`, or `RecordDenied`; an approve is
`ApproveCall`, the same lock and file steps with `ReadToCreate`, and
`RecordCreated`. `StepFails` ends a request with an error after any of its later
steps. The expiry is compared when the file is read, as in the code.

The gate is in the handler of Send requests (`daemon.rs` 171-184), not in
`SessionManager::send`. `AttachInput` is the other way to a terminal:
`handle_attach_stream` hands what a client typed to `send` as it is (`daemon.rs`
491-494), so that a gated command needs no approval there and a denied one is not
refused. Inputs carry the way they came (`via`); `GatedBehindApproval` is about
those of Send requests, `InputRecorded` about all. (The demo calls `send_line`
itself too, `demo.rs` 99-108, with commands of its own.)

`ImplementsGrants` is the refinement: the state of a grant is that in the file,
`told` the tokens that clients have, and `RecordsOf` and `ThroughsOf` the places
(a session, a command, a position) in the logs and the terminals where the grant
was approved and where a gated command went through with it. A file that was cut
short and does not parse any more counts for what it held: its grants stop where
they are, and every request that needs one gets an error. The refinement holds for
the threads of one process, and so does `SpentIsRecorded`, since only the writes
of two processes tear the file without a fault; `InputRecorded`, which counts the
inputs in a terminal and in the log of its session, holds for any number.

### SessionIndex

`registry` is the map behind `sessions`, `index` and `file` are `sessions.json`
and whether it is whole, empty (truncated) or torn (two writers at once), `tmux`
is the tmux server, `alive` the running shells. `open`, `open_tmux`, `kill` and
`kill_tmux` are cut where they release a lock or touch a file. `Finds` is the
lookup every request makes. `opened` and `raced` are history variables: what
opens promised, and whether two handlers ever overlapped on the index or on one
id. A restart may come between requests (`MaxRestarts`) or within one (a fault).
Ids are assumed to have different `safe_filename`s, none the beginning of another.
An id that is opened with both backends is excused from reachability (`Mixed`):
a pty open looks only into the registry, and hides the running tmux session of
its id without any fault or overlap.

A fork is `Fork`, `CheckTree`, `MakeTree` (with a copy), `ForkOpen`, the steps of
a pty open, `LogFork`. `trees` are the workspaces that forks made, `home` the
workspace of each shell. The check of the target's id comes after the workspace
was made, so a fork onto an id in use leaves a workspace and a branch behind;
`ForksApart` lists this, failed steps and overlaps as the only sources of orphans.

### Terminal

Output is a row of numbered lines, so the transcript is the last `kept` lines
read and the screen the last `Rows` of them, and reading "at least as far as" is a
comparison. `Read` is one turn of the reader thread with `record_output` and its
cut; `wait` is `WaitCall` and then a loop of `RefreshExit`, `Observe`, `Decide`;
`handle_attach_stream` is `AttachCall` to `WriteChunk`, with `Detach` for every
way it ends. Bytes and characters are not told apart (the code cuts at 1,000,000
bytes to 750,000 characters). The conditions are a line of output (a regular
expression, which matches wherever its line is shown), a prompt, the exit, silence,
and a regular expression that does not compile. `Prompts` are the lines that look
like a prompt. `WaitMatcher::Prompt` asks for the last line of the screen only
(`session.rs` 1424-1429): a wait for a prompt can time out with the prompt still on
the screen, above output that came behind it, and `OutcomeIsRight` says so.

Output that is recorded between `transcript_since` and the screen that is compared
with it reaches the client twice, as a screen difference and from the transcript;
`AttachMissesNothing` is about loss only.

### TmuxSession

`pane` is what happened in a session, keys and lines in their order, `pipe` the
file it is piped to, `transcript` what the pipe copied. `Target` is the lookup of
`tmux -t`: the name itself, else the only live name that begins with it. A send
is `SendCall`, `SendPipe`, one `SendKey` for each `send-keys`, `RecordSend`; a
wait is `WaitCall`, then `Look` and `Decide`, and `LookAgain` when it is out of
time; an attachment is `AttachCall` to `Rescreen`, and types through the sender
`Client`. `StartPipe` is `pipe-pane -o`, which closes an open pipe; it runs before
every send and every transcript read, so that output is in the transcript or not
by the number of calls before it. `EndsInPrompt` says of which screens the last
line looks like a prompt; `capture-pane -p` prints the empty rows below the output
too, so that in the instance a prompt counts only on a full screen.

### ProofBundle

`proof` is `Call`, `Replay`, `Verify`, `Truncate` and `WriteArtifact` for each of
the three files, `Record`. `Summarise` is the body of its loop over the events
and `Bundle` the loop, a recursive function of the number of events;
`SummaryIsRight` compares what comes out with a definition that tells of each part
which events it is of (`Commands`, `Snapshots`, `Screens`, `Lasting`, `FlagsOf`)
and names no order of the cases. The log is a sequence of events, each as it was written or
edited (`Tamper`); that appends and replays are atomic is the result about
`EvidenceLog`. A proof of an id that names no session is not refused: it is the
proof of a log without events, and the Proof event makes that log. A failed append
leaves a line that does not parse (`AppendFails`). The line that lacks only its
newline, and takes an event away when it is continued, is in `EvidenceLog` and not
here: a proof between such a line and its loss summarises an event that the log
then has no more, and a Proof event behind it is the one that is lost.

### Transports

A request comes to a unix socket or HTTP connection (`Connect`, `ReadRequest`) or
as a line to the MCP server (`WriteLine`, `ReadLine`); `Handle` is
`handle_request_inner`, `WritePiece` one write of `append_trace`, `Answer` what
the client gets. `traces` is the file, piece by piece, `mixed` (a history
variable) the requests that wrote behind an unfinished event. A line that is not
JSON ends the MCP server, an error of `accept` the HTTP server, a client that is
gone only its own thread or, on its standard output, the MCP server.

### DaemonSocket

`socket` is the daemon whose listener the path names. `serve` is `Serve`,
`RemoveStale`, `Bind`, `Ready`, then the loop of `CheckShutdown` and `Accept`,
then `Leave`, `Exit`; a connection is `Connect`, `Handle`, `Answer`, `Notify`, or
`HangUp`. `WaitForStop` restricts the environment to the sequence in the
repository's README: a new serve follows the answer to the stop of the old one.

## 3. The runs

| run | instance | shows |
| --- | --- | --- |
| `evidence_log` | 3 threads in 2 processes, 3 events, 2 faults that may tear a line or stop before its newline, 2 replays | all properties of the log, the refinement, and that appends return |
| `policy_gate` | 2 threads of 1 process, 2 sessions, 3 commands under 3 rules, 2 grants, 3 requests or attached inputs, lifetimes 0 and 1, 1 fault | all properties of the gate, and the refinement |
| `session_index` | 2 threads, a pty id, a tmux id, an id with both, 3 forks, 3 shells, 4 requests, 1 restart, 1 fault; symmetric in threads and shells | reachability, uniqueness and a true index, up to the races named in the properties, and the workspaces of forks |
| `daemon_socket` | 2 serves, 2 clients, 2 faults, any order | reachability, no stale socket, stops end, clients return |
| `terminal` | 1 wait, 1 attachment, 3 lines of output, the second a prompt, a transcript of 2 lines cut to 1, a screen of 2 | waits and attachments |
| `tmux_session` | 2 sessions whose names begin alike, 2 calls of 2 senders, 1 wait and 1 attachment with a typing client, 1 line of output, a prompt, in any session, screens of 2 rows, sessions that end | typed input, names, transcripts, waits and attachments of tmux sessions |
| `proof_bundle` | 2 proofs, 2 events of 5 kinds, 1 fault or edit; symmetric in the proofs | verification, summary and artifacts |
| `transports` | 3 requests: unix or HTTP, HTTP or MCP, MCP; 2 writes per trace event, 1 fault | traces, answers, and that requests end |

Four runs end in a counterexample, each to something a document of the repository
says; `findings` in `PROJECT.json` has the quotation and the lines.

| run | counterexample |
| --- | --- |
| `policy_shared` | two processes with one log directory spend one token twice |
| `index_race` | two tmux opens at once: the index loses one, and its session cannot be reached |
| `daemon_restart` | stop, then serve: the old daemon removes the new daemon's socket |
| `tmux_pipe` | an attached client does not get output that was printed while `pipe-pane -o` had closed the pipe |

Further disagreements have no run of their own: a passing run contains each, and
its property names it as the exception.

- An attached client goes round the policy (`GatedBehindApproval`). `README.md`
  282-285 says that the policy requires approval for risky commands "before they
  reach the PTY", and 172-195 that typing into an attachment is forwarded into the
  PTY; `daemon.rs` 491-494 asks no rule. The log does have such input
  (`InputRecorded`), and no approval beside it.
- An event is lost behind a line without its newline (`AcknowledgedOnce`).
- A tmux session is hidden by a pty open of its id (`ReachableUnlessRaced`).
- An attached client gets some output twice (see Terminal).

No run checks a type invariant: `TypeOK` of every module is a theorem, and so is
every inductive invariant (section 4).

**Why the bounds are enough.** Every race here is between two parties over one
file, lock or path: two processes and, in one of them, two threads give every
pair of log users; two sends and an approve, or two approves and a send, are the
conflicts over the approvals; two ids and one with both backends are the
conflicts over the index; two serves are the conflict over the path. A third
line of output is what first exceeds a transcript of two, and what leaves a prompt
on a screen of two rows but not at its end. Two calls are every
pair of a send, a wait and an attachment on one tmux session or on two; the pair
of an attachment and its own client's send is one of them. Two events of other
requests and a Proof event give every pair of kinds in either order, which is what
a fold that keeps the latest can get wrong. Two lines for the MCP server are what
it takes to be out of order, and two writes the least that can be mixed. Faults are bounded at
one or two because they only ever stop something: a further one meets the same
states. The bounds are the constants named `Max...`, each in a guard.
`CHECK_DEADLOCK FALSE` is set because every instance really stops: requests,
output and faults are bounded, and a stopped daemon is the end.

**Fairness.** `FairSpec` of `EvidenceLog` is weak fairness of each thread that is
inside a call: threads are scheduled, and a blocked lock call goes on when the
lock is free (calls are finite, so strong fairness is not needed). In `Terminal`
the reader thread and each waiting thread go on and the deadline of a wait
passes; nothing is assumed of the shell or of the attached client. In
`DaemonSocket` the accept loop, which polls every 25 ms, and the threads of
connections go on; a connection that is attached is excluded, since it lasts as
long as its client likes. In `TmuxSession` the loop of a wait, the clock of its deadline,
the client's send and the attach loop go on; nothing is assumed of shells, of
other sends, or of the choice to detach. In `Transports` the threads and the MCP
loop go on, and `handle_request` returns, which the other modules are about; a
client that opens a connection and sends nothing keeps its thread, and is left
out. `PolicyGate`, `SessionIndex` and `ProofBundle` state safety only.

## 4. What is proved

Every theorem holds for all values of the constants that their assumptions allow:
any finite or infinite sets of threads, processes, sessions, requests and clients,
and any bounds. Each component has an inductive invariant `IInv`, in the first section
of its proofs module; TLC was asked about it before it was proved. The module shows
that each part of it is preserved, with one step per action, collects them in
`NextIInv`, and has `InvariantHolds`, `TypeCorrect` and the properties of the run
as consequences. Hardly any property of a run is
inductive as it stands, and what each invariant adds to them is the reason why the
code works.

**EvidenceLog.** That the chain verifies depends on nobody having written since
the new event was computed. `Locked` (who is between the flock and its release
holds it, and no reader does beside it) gives that there is one writer,
`WriterReady` that its event is `ChainedTo` the log as it is now, `WholeLine` that
a line without its newline is the last of a log that is not empty, so that
spoiling it leaves a shorter log that verifies. From `IInv` follow
`ChainAlwaysIntact`, `TornStaysTorn` and, with `RInv`, `ReplaysStayTrue`. What
clients were told needs `DInv`: where the event of each running call is
(`CallInv`), that a line without its newline belongs to an append that has not
returned Ok (`LastLine`), and that the one event that can be missing is that of
the append which spoilt such a line (`Acknowledged`). `LastLine` is the point: it
is why spoiling a line takes no acknowledged event away. From `DInv` follow
`AcknowledgedStays` and the refinement `LogImplementsChain`, `InitRefines` and
`NextRefines` with one step per action, where the first write behind an unfinished
line is the abstract `Spoil`. `OnlyByFaults` has an invariant of its own,
`FaultFree`: without a fault an unfinished line is one that is being written.
These theorems allow writes to stop anywhere. Only `NeverRewritten` (the log grows
at its end and nowhere else) assumes that none stops just before its newline; it
is false otherwise, which `ReplaysStayTrue` and `Spoil` say exactly.

**PolicyGate.** `Gatekeeping`, `Honoured` and `UseRecorded` hold for any
number of processes, so they do not rest on the mutex. `Gatekeeping` is about Send
requests: the other input in a terminal is that of attached clients, which the
gate does not see. `UseRecorded` says of a file that parses that a grant it calls
used has its approval in a log, or is about to. Their invariant says what a
request has established at each step (`RequestHeld`, `TokenFits`,
`DeliverApproved`), that nobody has seen a grant before it was made
(`GrantsKnown`), and where a spent grant has come to (`SpentSeen`), a copy that
another process is about to write included. `OneTime`, `NothingLost` and
`SpendingRecorded` assume `OneProcess`, all threads in one process: the code's lock
is no more than a mutex, `policy_shared` shows that two processes spend a token
twice, and their writes may leave a file that does not parse. `NothingLost` is
about the file whenever it parses: a crash between truncation and write takes
every record with it. Their invariant `OInv` adds that a file that does not parse
is being written by the holder of the lock or follows a fault (`FileParses`), that the copy of the lock holder is the file with its own change
(`CopyIsFresh`), that one request makes a grant (`CreatedOnce`), that of the
places where a spent grant can be, about to be approved, approved, about to be
delivered, delivered, it is in one (`ApprovedOnce`, `DeliveredOnce`), and that a
request presents no token that no client was told (`Presented`).

`GateImplementsGrants` needs all of `OInv`: `InitGrants` and `NextGrants` map each
step, the write of the file to `Make` or `Spend` (the mutex makes the copy that is
written the file with this one change), the answer of an approve to `Tell`, the
approval in the log to `Record`, the write of a gated command to the terminal to
`LetThrough`, and every other step, failures and the end of a process included, to
a stutter. That a command goes through where it was approved is `DeliverApproved`
with `ApprovedOnce`: there is only one approval it can be behind.

`InputsRecorded` is about sends that are the same for the log, so that it counts.
`Counted` says that for each session and command the events and the threads about
to add one are together as many as the writes, without a fault, and never more;
`Deliver` adds one on both sides, `RecordSend` turns a thread into an event, and
only a fault takes a thread away. There may be infinitely many threads: those about
to log are finitely many, which `Counted` has to say too.

**SessionIndex.** Nearly every part of `IInv` begins with `~raced`, for without a
lock around the index nothing else makes it true. `OneAtATime` turns "no overlap"
into "one request about an id and one rewrite of the index"; `FileHeld` says that
what is about to be written is the index; `PtyHeld` and `TmuxHeld` say from which
step on a shell or a tmux session can be found, and `Backends` where what is known
of an id can have come from, which is what excuses an id with both. `ForkHeld`
says of each workspace that it waits for its shell or has it. `Reachable`,
`OneSession`, `IndexTrue` and `WorkspacesApart` follow; that
two sessions never share the workspace of a fork is for failed steps and restarts
anywhere.

**Terminal.** `AttachHeld` says that all between the history and the offset was
delivered or is in the chunk about to be written, in every state of the attach
loop and however the reader thread runs beside it; `ShownIsRecent` that what an
observation does not show had not arrived or had left screen and tail, `TailKept`
that a cut keeps enough for that. A prompt is compared with the last line that was
read, whatever lines `Prompts` holds. From `WaitHeld` with them come `Recording`,
`RightOutcome` and, from `AttachHeld`, `MissesNothing`.

**TmuxSession.** There is no lock here: `SendHeld` follows the keys of every send
through the panes, each once and in order, and `AloneHeld` says that a send no
other overlapped has no foreign key between its own. `PipeHeld` keeps pipes and
transcripts to sessions that the lookup of `tmux -t` can reach. `WaitHeld` ties a
wait to its look: as long as the name means the same session (`Stable`) the look
is the beginning of what the pane has come to, which is why the second look of a
wait that is out of time is a later one. `Recorded`, `SessionsApart`,
`MissesOnlyUnpiped` and `WaitsAnswered` follow.

**ProofBundle.** Two replays of a log that grows, and may be edited, agree because
events are only added and, once edited, stay edited: `ReplayHeld` says what that
leaves of the first replay and `IntegrityHeld` what the second says about it.
`Alone` and `ArtifactsHeld` say that the newest proof, not overlapped, has the
files to itself, `EventHeld` that its event is there once it is answered.
`Verification` and `Bundles` follow.

`SummaryRight` is about the loop, for logs of every length. `Unrolled` gives the
summaries that the recursion goes through, one for each number of events.
`Summarised` says what one event does to each of the six parts, `RightStep` that a
right summary stays right: what it held is kept, but for the status, the diff and
the screen that a newer one replaces, and the paths that a newer snapshot names.
`BundleRight` carries this over the events. Both inductions, for the recursion and
for the summaries, are by the least number of events for which the claim fails
(`LeastElement`, from the well-foundedness of the finite subsets), since the
induction theorems of the library take an operator, which the provers cannot
instantiate.

**Transports.** `PiecesHeld` says that the pieces of an event are the first ones,
in their order; `RowHeld` that an event which is not mixed is one row, at the end
while it is unfinished, and `NewestHeld` gives the event that a new one would be
written behind. `LinesHeld` relates the lines that were sent to those the MCP
server has taken. `Traced`, `LinesWhole` and `InOrder` follow.

**DaemonSocket.** `IInv` says which daemons the path may name (`PathOwner`), what
a daemon that met no other knows of the path at each point of its start and loop
(`PathKnown`), that two running daemons have been noticed (`OverlapSeen`), and
where a request to stop has come to (`StopTraced`). `ReachableAlone`,
`SocketRemoved`, `EndsWhenAsked` and `CrashLeavesNoObstacle` are its consequences.

**Assumptions.** Each module names what it assumes of its constants
(`LogAssumption`, `GateAssumption`, `IndexAssumption`, `TerminalAssumption`,
`TmuxAssumption`, `ProofAssumption`, `TransportsAssumption`, `SocketAssumption`):
the shapes of functions and sets, distinct null values, bounds that are numbers,
and of the code's constants that the tail a wait looks at is not longer than the
transcript that a cut keeps (12,000 and 750,000 characters). TLC evaluates them in
the runs. Beyond these there are `OneProcess` and `"whole" \notin CutPoints`, each
in the theorems that state it. Injective hashes (EvidenceLog) and different file
names of ids (SessionIndex) are in the models themselves.

Statements about rows of events quantify over indices (the pieces of a request,
the keys of a send) instead of filtering sequences, and loops are recursive
functions of a number. Where the first index of a kind is needed, or an induction,
`LeastElement` gives it: a set of naturals that is not empty has a least member.

**Only model-checked.** Liveness (`AppendsReturn`, `StopEnds`, `ClientsReturn`,
`WaitReturns`, `OutputArrives`, `CallsReturn`, `RequestsEnd`), which is out of the
prover's reach: it rests on fairness and `ENABLED`. The four counterexamples are
TLC's too. Every other property of a run is a theorem.

## 5. What is not modelled

- Redaction, screen semantics, spans, rendering, git and process snapshots: pure
  functions of text or calls of other programs. Where such a call can fail and
  end a request, the failure is in the model.
- Arguments: `u16_arg` (`mcp.rs` 192) cuts a number to 16 bits, and
  `parse_duration` (`daemon.rs` 404) multiplies minutes without a check; both only
  choose a size or a timeout, of which the models take any.
- `list_sessions`, `screen`, `status`, `doctor`: reads without effect. A pty
  session that was killed keeps its handle and its active index entry
  (`session.rs` 565): `SessionIndex` has it, and no document says when such an id
  can be used again.
- The demo and the printing of the command line.

## 6. Plan

1. *Done.* The models: the evidence log, with lines that lack their newline; the
   gate; the index and forks; the daemon; pty and tmux sessions; proof bundles;
   transports and traces.
2. *Done.* The proofs: the inductive invariant of every module and the safety
   properties of every run.
3. *Done.* The refinements: the log implements `EvidenceChain` wherever writes
   stop, the gate of one process `OneTimeGrants`.
4. *Done.* What a bundle says, for logs of every length.
5. Left: an abstract registry of sessions that `SessionIndex` implements while no
   handlers overlap, which would say `ReachableUnlessRaced` and `OneSessionPerId`
   in one specification.
