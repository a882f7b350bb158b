---------------------------- MODULE ProofBundle ----------------------------
(***************************************************************************)
(* The proof of a session (src/session.rs: proof, files_changed_from_git): *)
(* two replays of its evidence log, a summary of the first and a           *)
(* verification of the second, three artifacts and a Proof event.          *)
(*                                                                         *)
(* Proof calls run beside the requests that append to the log, beside each *)
(* other, in one process or in several, and beside a hand that edits the   *)
(* file of the log.  An append and a replay are each one step here: that   *)
(* they are is what EvidenceLog shows.  A log without events is also that  *)
(* of an id that names no session, which proof does not refuse.            *)
(*                                                                         *)
(* Limits: texts are values, so that the tails of a screen and of the      *)
(* output are the whole of them; the rendering of the artifacts is layout, *)
(* and an artifact is named by the call whose bundle it holds.  An append  *)
(* that fails leaves a line that does not parse; the line that lacks only  *)
(* its newline, and is spoilt by the next append, is left to EvidenceLog.  *)
(***************************************************************************)
EXTENDS Integers, Sequences, FiniteSets

CONSTANTS
  Prover,        \* calls of proof for the session
  Content,       \* what the events of other requests may hold
  None,          \* no value
  MaxEvents,     \* bound: events other requests append
  MaxFaults      \* bound: failed steps and edits

Artifacts == <<"json", "markdown", "html">>

\* A git snapshot: its status, a set of paths with their codes, and its diff.
NoContent == [type |-> "other", text |-> "", git |-> None, screen |-> None,
              stdout |-> "", exit |-> None]

ASSUME ProofAssumption ==
  /\ \A c \in Content :
       /\ DOMAIN c = DOMAIN NoContent
       /\ c.type \in {"send", "exec", "denied", "approved", "observation", "other"}
  /\ None \notin Prover
  /\ MaxEvents \in Nat /\ MaxFaults \in Nat

VARIABLES
  log,           \* the events: what they hold, and whether as they were written
  torn,          \* the file has a line that does not parse
  pc,            \* per call: where it is
  artifact,      \* per call: the artifact it is at, an index of Artifacts
  events,        \* per call: its first replay
  integrity,     \* per call: what verify_integrity returned
  answer,        \* per call: what its client got
  files,         \* the artifacts on disk: a call, or none, cut or mixed
  overlapped,    \* the calls that ran beside another (history)
  latest,        \* the newest call (history)
  appended, faults

callVars == <<pc, artifact, events, integrity, answer>>
vars == <<log, torn, pc, artifact, events, integrity, answer, files, overlapped, latest,
          appended, faults>>

Init ==
  /\ log = << >> /\ torn = FALSE
  /\ pc = [p \in Prover |-> "new"]
  /\ artifact = [p \in Prover |-> 1]
  /\ events = [p \in Prover |-> << >>]
  /\ integrity = [p \in Prover |-> None]
  /\ answer = [p \in Prover |-> "none"]
  /\ files = [i \in DOMAIN Artifacts |-> "none"]
  /\ overlapped = {} /\ latest = None
  /\ appended = 0 /\ faults = 0

Running == {p \in Prover : pc[p] \notin {"new", "done"}}
Go(p, label) == pc' = [pc EXCEPT ![p] = label]
Ends(p, what) == Go(p, "done") /\ answer' = [answer EXCEPT ![p] = what]
Fault == faults < MaxFaults /\ faults' = faults + 1

----------------------------------------------------------------------------
(* The summary                                                             *)

Changes(git) == IF git = None THEN {} ELSE git.status

\* BTreeMap::insert: a path keeps the code of its latest change.
Put(changed, new) == {x \in changed : \A y \in new : y[1] # x[1]} \cup new

NoSummary == [commands |-> << >>, changed |-> {}, flags |-> {}, status |-> None,
              diff |-> None, screen |-> ""]

WithGit(s, git) ==
  IF git = None THEN s
  ELSE [s EXCEPT !.status = git.status, !.diff = git.diff,
                 !.changed = Put(@, Changes(git))]

\* Mutant: an observation without a screen empties the screen tail.
Observed_Empties(s, c) ==
  [s EXCEPT !.screen = IF c.screen # None THEN c.screen ELSE c.stdout,
            !.flags = @ \cup IF c.exit \in {None, 0} THEN {} ELSE {<<"exit", c.exit>>}]

Observed(s, c) ==
  [s EXCEPT !.screen = IF c.screen # None THEN c.screen
                       ELSE IF c.stdout # "" THEN c.stdout ELSE @,
            !.flags = @ \cup IF c.exit \in {None, 0} THEN {} ELSE {<<"exit", c.exit>>}]

\* The body of the loop over the events.  The snapshot of an observation is in
\* the observation, that of an action in the event.
Summarise(s, c) ==
  LET g == WithGit(s, c.git) IN
  CASE c.type = "send" /\ c.text # "" -> [g EXCEPT !.commands = Append(@, c.text)]
    [] c.type = "exec" -> [g EXCEPT !.commands = Append(@, c.text)]
    [] c.type \in {"denied", "approved"} -> [g EXCEPT !.flags = @ \cup {<<c.type, c.text>>}]
    [] c.type = "observation" -> Observed(g, c)
    [] OTHER -> g

Bundle(es) ==
  LET summary[n \in 0..Len(es)] ==
        IF n = 0 THEN NoSummary ELSE Summarise(summary[n - 1], es[n].content)
  IN  summary[Len(es)]

----------------------------------------------------------------------------
(* proof                                                                   *)

Call(p) ==
  /\ pc[p] = "new"
  /\ Go(p, "replay")
  /\ latest' = p
  /\ overlapped' = IF Running = {} THEN overlapped ELSE overlapped \cup Running \cup {p}
  /\ UNCHANGED <<log, torn, artifact, events, integrity, answer, files, appended, faults>>

Replay(p) ==
  /\ pc[p] = "replay" /\ ~torn
  /\ events' = [events EXCEPT ![p] = log]
  /\ Go(p, "verify")
  /\ UNCHANGED <<log, torn, artifact, integrity, answer, files, overlapped, latest,
                 appended, faults>>

\* Mutant: the events are replayed after the log was verified.
Verify_BeforeReplay(p) ==
  /\ pc[p] = "verify" /\ ~torn
  /\ integrity' = [integrity EXCEPT ![p] =
       [verified |-> \A i \in DOMAIN events[p] : events[p][i].genuine,
        count |-> Len(events[p])]]
  /\ events' = [events EXCEPT ![p] = log]
  /\ Go(p, "truncate")
  /\ UNCHANGED <<log, torn, artifact, answer, files, overlapped, latest, appended, faults>>

\* verify_integrity replays the log again; an edited event breaks the chain.
Verify(p) ==
  /\ pc[p] = "verify" /\ ~torn
  /\ integrity' = [integrity EXCEPT ![p] =
       [verified |-> \A i \in DOMAIN log : log[i].genuine, count |-> Len(log)]]
  /\ Go(p, "truncate")
  /\ UNCHANGED <<log, torn, artifact, events, answer, files, overlapped, latest, appended,
                 faults>>

\* A log that cannot be read is no failed verification: proof returns an error.
LogUnreadable(p) ==
  /\ pc[p] \in {"replay", "verify", "record"} /\ torn
  /\ Ends(p, "error")
  /\ UNCHANGED <<log, torn, artifact, events, integrity, files, overlapped, latest,
                 appended, faults>>

\* fs::write of the artifact the call is at.
Truncate(p) ==
  /\ pc[p] = "truncate"
  /\ files' = [files EXCEPT ![artifact[p]] = "cut"]
  /\ Go(p, "write")
  /\ UNCHANGED <<log, torn, artifact, events, integrity, answer, overlapped, latest,
                 appended, faults>>

\* When another call wrote since this one truncated, the end of a longer text
\* stays behind this one's.
WriteArtifact(p) ==
  LET i == artifact[p] IN
  /\ pc[p] = "write"
  /\ \E now \in {p} \cup IF files[i] = "cut" THEN {} ELSE {"mixed"} :
       files' = [files EXCEPT ![i] = now]
  /\ artifact' = [artifact EXCEPT ![p] = IF i = Len(Artifacts) THEN i ELSE i + 1]
  /\ Go(p, IF i = Len(Artifacts) THEN "record" ELSE "truncate")
  /\ UNCHANGED <<log, torn, events, integrity, answer, overlapped, latest, appended, faults>>

\* The Proof event, without a git snapshot.
Record(p) ==
  /\ pc[p] = "record" /\ ~torn
  /\ log' = Append(log, [content |-> NoContent, genuine |-> TRUE, by |-> p])
  /\ Ends(p, "ok")
  /\ UNCHANGED <<torn, artifact, events, integrity, files, overlapped, latest, appended,
                 faults>>

\* Mutant: an error of fs::write is dropped.
StepFails_Dropped(p) ==
  /\ p \in Running
  /\ Fault
  /\ IF pc[p] \in {"truncate", "write"}
     THEN /\ artifact' = [artifact EXCEPT ![p] = IF @ = Len(Artifacts) THEN @ ELSE @ + 1]
          /\ Go(p, IF artifact[p] = Len(Artifacts) THEN "record" ELSE "truncate")
          /\ UNCHANGED answer
     ELSE Ends(p, "error") /\ UNCHANGED artifact
  /\ UNCHANGED <<log, torn, events, integrity, files, overlapped, latest, appended>>

\* An error at any step, or the death of the process; files stay as they are.
StepFails(p) ==
  /\ p \in Running
  /\ Fault
  /\ Ends(p, "error")
  /\ UNCHANGED <<log, torn, artifact, events, integrity, files, overlapped, latest, appended>>

ProofStep(p) == \/ Call(p) \/ Replay(p) \/ Verify(p) \/ LogUnreadable(p)
                \/ Truncate(p) \/ WriteArtifact(p) \/ Record(p) \/ StepFails(p)

----------------------------------------------------------------------------
(* Beside it                                                               *)

\* Another request of the session appends an event.
OtherAppends(c) ==
  /\ ~torn
  /\ appended < MaxEvents /\ appended' = appended + 1
  /\ log' = Append(log, [content |-> c, genuine |-> TRUE, by |-> None])
  /\ UNCHANGED <<torn, callVars, files, overlapped, latest, faults>>

\* ... and leaves a part of its line.
AppendFails ==
  /\ ~torn
  /\ Fault
  /\ torn' = TRUE
  /\ UNCHANGED <<log, callVars, files, overlapped, latest, appended>>

\* The text of an event is changed, and its hash left as it is.
Tamper(i) ==
  /\ Fault
  /\ log' = [log EXCEPT ![i].genuine = FALSE]
  /\ UNCHANGED <<torn, callVars, files, overlapped, latest, appended>>

Next == \/ \E p \in Prover : ProofStep(p)
        \/ \E c \in Content : OtherAppends(c)
        \/ AppendFails
        \/ \E i \in DOMAIN log : Tamper(i)

Spec == Init /\ [][Next]_vars

----------------------------------------------------------------------------
(* Properties                                                              *)

Verified == {p \in Prover : integrity[p] # None}

\* A bundle that says "verified" summarises only events that are as they were
\* written, a first part of those that were verified, and none twice; one that
\* does not is of a log that was edited (README.md:276).
VerifiedCoversBundle ==
  \A p \in Verified :
    /\ Len(events[p]) <= integrity[p].count /\ integrity[p].count <= Len(log)
    /\ integrity[p].verified => \A i \in DOMAIN events[p] : events[p][i].genuine
    /\ ~integrity[p].verified => \E i \in 1..integrity[p].count : ~log[i].genuine
    /\ \A i \in DOMAIN events[p] : events[p][i].content = log[i].content

\* What one event says to the summary.
IsCommand(c) == c.type = "exec" \/ (c.type = "send" /\ c.text # "")
Shows(c) == c.type = "observation" /\ (c.screen # None \/ c.stdout # "")
Shown(c) == IF c.screen # None THEN c.screen ELSE c.stdout
FlagsOf(c) ==
  CASE c.type \in {"denied", "approved"} -> {<<c.type, c.text>>}
    [] c.type = "observation" /\ c.exit \notin {None, 0} -> {<<"exit", c.exit>>}
    [] OTHER -> {}

\* Which of the first n events give a command, a snapshot and a screen, and the
\* changes of the i-th that no later one replaces.
Commands(es, n) == {i \in 1..n : IsCommand(es[i].content)}
Snapshots(es, n) == {i \in 1..n : es[i].content.git # None}
Screens(es, n) == {i \in 1..n : Shows(es[i].content)}
Lasting(es, i, n) ==
  {x \in Changes(es[i].content.git) :
     \A j \in (i + 1)..n : \A y \in Changes(es[j].content.git) : y[1] # x[1]}

\* What the summary b of the first n events is to hold, whatever their order and
\* their kinds: the commands as they were given, the status and the diff of the
\* newest snapshot, the newest screen, every path with its newest code, and every
\* flag (README.md:260-272).
RightSummary(b, es, n) ==
  /\ Len(b.commands) = Cardinality(Commands(es, n))
  /\ \A i \in Commands(es, n) :
       b.commands[Cardinality(Commands(es, i))] = es[i].content.text
  /\ IF Snapshots(es, n) = {} THEN b.status = None /\ b.diff = None
     ELSE \E i \in Snapshots(es, n) :
            /\ \A j \in Snapshots(es, n) : j <= i
            /\ b.status = es[i].content.git.status /\ b.diff = es[i].content.git.diff
  /\ IF Screens(es, n) = {} THEN b.screen = ""
     ELSE \E i \in Screens(es, n) : /\ \A j \in Screens(es, n) : j <= i
                                    /\ b.screen = Shown(es[i].content)
  /\ b.changed = UNION {Lasting(es, i, n) : i \in 1..n}
  /\ b.flags = UNION {FlagsOf(es[i].content) : i \in 1..n}

\* The summary in a bundle is the right one of the events that were replayed.
SummaryIsRight ==
  \A p \in Verified : RightSummary(Bundle(events[p]), events[p], Len(events[p]))

\* The newest proof that was answered and that no other overlapped left its own
\* bundle in all three artifacts, and one Proof event behind what they summarise.
ArtifactsAreTheAnswer ==
  \A p \in Prover \ overlapped : answer[p] = "ok" =>
    /\ latest = p => \A i \in DOMAIN files : files[i] = p
    /\ Cardinality({i \in DOMAIN log : log[i].by = p}) = 1
    /\ \A i \in DOMAIN log : log[i].by = p => i > integrity[p].count

----------------------------------------------------------------------------
(* Types                                                                   *)

Event == [content : Content \cup {NoContent}, genuine : BOOLEAN, by : Prover \cup {None}]
Integrity == [verified : BOOLEAN, count : Nat]

TypeOK ==
  /\ log \in Seq(Event) /\ torn \in BOOLEAN
  /\ pc \in [Prover -> {"new", "replay", "verify", "truncate", "write", "record", "done"}]
  /\ artifact \in [Prover -> DOMAIN Artifacts]
  /\ events \in [Prover -> Seq(Event)]
  /\ integrity \in [Prover -> {None} \cup Integrity]
  /\ answer \in [Prover -> {"none", "ok", "error"}]
  /\ files \in [DOMAIN Artifacts -> {"none", "cut", "mixed"} \cup Prover]
  /\ overlapped \subseteq Prover /\ latest \in Prover \cup {None}
  /\ appended \in 0..MaxEvents /\ faults \in 0..MaxFaults
=============================================================================
