---------------------------- MODULE PolicyGate ----------------------------
(***************************************************************************)
(* The policy gate in front of the terminals: src/policy.rs and the policy *)
(* part of src/session.rs, as the Send and Approve requests of daemon.rs   *)
(* run it; and the input of attached clients, which goes round it: what    *)
(* handle_attach_stream reads goes to SessionManager::send unasked.        *)
(*                                                                         *)
(* Threads of several processes serve requests on one log directory.  An   *)
(* approve request adds a one-time grant to policy-approvals.json; a send  *)
(* of a gated command spends the grant whose token it carries, records     *)
(* PolicyApproved and only then writes to the terminal.  The file is read  *)
(* and rewritten under approval_lock, a mutex of the SessionManager and so *)
(* of one process; fs::write truncates before it writes, and the writes of *)
(* two processes may leave a text that does not parse.                     *)
(*                                                                         *)
(* An append to the evidence log is one step here: EvidenceLog shows that  *)
(* it takes effect at one instant, and Command holds nothing redact_text   *)
(* replaces, so that the log shows a command as it was sent.  A grant's id *)
(* and its token are one value.  A command is the text of one request, or  *)
(* of one read of an attached client's input.                              *)
(***************************************************************************)
EXTENDS Integers, Sequences, FiniteSets

CONSTANTS
  Thread,          \* threads that serve requests
  Process,         \* processes on the same log directory
  ProcOf,          \* the process each thread belongs to
  Session,         \* session ids
  Command,         \* command texts
  CustomRules,     \* rules of the configuration, in order
  BuiltinRules,    \* the built-in rules
  Grant,           \* approval ids and tokens
  NoGrant,         \* a send without a token
  NoThread,        \* nobody holds the lock
  Nothing,         \* no request, no grant data
  Ttl,             \* lifetimes an approval may be asked for
  MaxClock,        \* bound: how far the clock goes
  MaxRequests,     \* bound: requests of a behaviour
  MaxFaults        \* bound: crashes and failed steps of a behaviour

Action == {"allow", "deny", "require_approval"}
Rule == [matches : SUBSET Command, label : STRING, action : Action]
GrantTerms == [session : Session, command : Command, label : STRING,
               expires : Nat]

ASSUME GateAssumption ==
  /\ ProcOf \in [Thread -> Process]
  /\ CustomRules \in Seq(Rule) /\ BuiltinRules \in Seq(Rule)
  /\ NoGrant \notin Grant
  /\ NoThread \notin Thread
  /\ Nothing \notin GrantTerms
  /\ Ttl \subseteq Nat
  /\ MaxClock \in Nat /\ MaxRequests \in Nat /\ MaxFaults \in Nat

VARIABLES
  approvals,       \* policy-approvals.json: the state of every grant in the
                   \* text last written
  file,            \* whole, empty or torn (the last two do not parse)
  lock,            \* per process: the thread inside approval_lock
  terms,           \* per grant: what it was granted for, until when
  issued,          \* grants returned to a client
  evidence,        \* per session: the events of its log
  terminal,        \* per session: what was written to its terminal
  pc,              \* per thread: where it is in its request
  request,         \* per thread: the request it serves
  copy,            \* per thread: the approvals it read
  now,             \* the clock
  requests,        \* requests so far
  faults           \* crashes and failed steps so far

fileVars == <<approvals, file>>
outVars == <<evidence, terminal>>
bounds == <<now, requests, faults>>
vars == <<approvals, file, lock, terms, issued, evidence, terminal, pc,
          request, copy, now, requests, faults>>

----------------------------------------------------------------------------
(* policy.rs                                                               *)

\* from_config: the configured rules come before the built-in ones.
Rules == CustomRules \o BuiltinRules

Matching(c) == {i \in DOMAIN Rules : c \in Rules[i].matches}

NoMatch == [label |-> "", action |-> "allow"]

\* The first rule that matches decides; no match and "allow" are both None.
Evaluate(c) ==
  IF Matching(c) = {} THEN NoMatch
  ELSE LET i == CHOOSE i \in Matching(c) : \A j \in Matching(c) : i <= j
       IN  [label |-> Rules[i].label, action |-> Rules[i].action]

Gated(c) == Evaluate(c).action = "require_approval"
Denied(c) == Evaluate(c).action = "deny"

GrantState == {"none", "unused", "used"}

\* Mutant: the token of any session is accepted.
IsValidFor_AnySession(g, s, c, read) ==
  /\ g \in Grant
  /\ read[g] = "unused"
  /\ terms[g].command = c
  /\ terms[g].expires > now

\* PolicyApprovalRecord::is_valid_for, for the record with the token g.
IsValidFor(g, s, c, read) ==
  /\ g \in Grant
  /\ read[g] = "unused"
  /\ terms[g].session = s
  /\ terms[g].command = c
  /\ terms[g].label = Evaluate(c).label
  /\ terms[g].expires > now

----------------------------------------------------------------------------

Request == [op : {"send", "approve", "attach"}, session : Session,
            command : Command, grant : Grant \cup {NoGrant}, at : Nat]

Input == [via : {"send", "attach"}, command : Command,
          grant : Grant \cup {NoGrant}]

Event == [kind : {"created", "approved", "denied", "send"},
          command : Command, grant : Grant \cup {NoGrant}]

Busy == {"lock", "read", "truncate", "write", "approve", "created",
         "deliver", "record", "deny"}
HoldsLock == {"read", "truncate", "write"}

NoApprovals == [g \in Grant |-> "none"]

Init ==
  /\ approvals = NoApprovals
  /\ file = "whole"
  /\ lock = [p \in Process |-> NoThread]
  /\ terms = [g \in Grant |-> Nothing]
  /\ issued = {}
  /\ evidence = [s \in Session |-> << >>]
  /\ terminal = [s \in Session |-> << >>]
  /\ pc = [t \in Thread |-> "idle"]
  /\ request = [t \in Thread |-> Nothing]
  /\ copy = [t \in Thread |-> NoApprovals]
  /\ now = 0
  /\ requests = 0
  /\ faults = 0

Goto(t, label) == pc' = [pc EXCEPT ![t] = label]

\* The handler of t returns, with a response or with an error.
Return(t) == /\ pc' = [pc EXCEPT ![t] = "idle"]
             /\ request' = [request EXCEPT ![t] = Nothing]
             /\ copy' = [copy EXCEPT ![t] = NoApprovals]

Fault == faults < MaxFaults /\ faults' = faults + 1

\* EventLog::append of an event of the request of t; only an approval's creation
\* and its use name the approval.
Log(t, kind) ==
  evidence' = [evidence EXCEPT ![request[t].session] =
    Append(@, [kind |-> kind, command |-> request[t].command,
               grant |-> IF kind \in {"created", "approved"} THEN request[t].grant
                                                             ELSE NoGrant])]

----------------------------------------------------------------------------
(* Send: authorize_action_policy, then send or send_line                   *)

\* A client presents no token or one it was given.
SendCall(t, s, c, g) ==
  /\ pc[t] = "idle"
  /\ requests < MaxRequests
  /\ requests' = requests + 1
  /\ g \in issued \cup {NoGrant}
  /\ request' = [request EXCEPT ![t] = [op |-> "send", session |-> s,
                                        command |-> c, grant |-> g, at |-> now]]
  /\ \/ Evaluate(c).action = "allow" /\ Goto(t, "deliver")
     \/ Denied(c) /\ Goto(t, "deny")
     \/ Gated(c) /\ g = NoGrant /\ Goto(t, "deny")
     \/ Gated(c) /\ g # NoGrant /\ Goto(t, "lock")
  /\ UNCHANGED <<fileVars, lock, terms, issued, outVars, copy, now, faults>>

\* Mutant: two threads of a process may both be inside approval_lock.
LockApprovals_NoWait(t) ==
  /\ pc[t] = "lock"
  /\ lock' = [lock EXCEPT ![ProcOf[t]] = t]
  /\ Goto(t, "read")
  /\ UNCHANGED <<fileVars, terms, issued, outVars, request, copy, bounds>>

LockApprovals(t) ==
  /\ pc[t] = "lock"
  /\ lock[ProcOf[t]] = NoThread
  /\ lock' = [lock EXCEPT ![ProcOf[t]] = t]
  /\ Goto(t, "read")
  /\ UNCHANGED <<fileVars, terms, issued, outVars, request, copy, bounds>>

UnlockApprovals(t) == lock' = [lock EXCEPT ![ProcOf[t]] = NoThread]

\* consume_policy_approval: mark the valid grant used, or find none.
ReadToConsume(t) ==
  LET r == request[t] IN
  /\ pc[t] = "read"
  /\ r.op = "send"
  /\ file = "whole"
  /\ \/ /\ IsValidFor(r.grant, r.session, r.command, approvals)
        /\ copy' = [copy EXCEPT ![t] = [approvals EXCEPT ![r.grant] = "used"]]
        /\ Goto(t, "truncate")
        /\ UNCHANGED lock
     \/ /\ ~IsValidFor(r.grant, r.session, r.command, approvals)
        /\ UnlockApprovals(t)
        /\ Goto(t, "deny")
        /\ UNCHANGED copy
  /\ UNCHANGED <<fileVars, terms, issued, outVars, request, bounds>>

\* Mutant: the new record replaces the file instead of joining it.
ReadToCreate_Replaces(t) ==
  /\ pc[t] = "read"
  /\ request[t].op = "approve"
  /\ file = "whole"
  /\ copy' = [copy EXCEPT ![t] = [NoApprovals EXCEPT ![request[t].grant] = "unused"]]
  /\ Goto(t, "truncate")
  /\ UNCHANGED <<fileVars, lock, terms, issued, outVars, request, bounds>>

\* create_policy_approval: push the new record.
ReadToCreate(t) ==
  /\ pc[t] = "read"
  /\ request[t].op = "approve"
  /\ file = "whole"
  /\ copy' = [copy EXCEPT ![t] = [approvals EXCEPT ![request[t].grant] = "unused"]]
  /\ Goto(t, "truncate")
  /\ UNCHANGED <<fileVars, lock, terms, issued, outVars, request, bounds>>

\* A file that does not parse is an error of the request.
ReadFails(t) ==
  /\ pc[t] = "read"
  /\ file # "whole"
  /\ UnlockApprovals(t)
  /\ Return(t)
  /\ UNCHANGED <<fileVars, terms, issued, outVars, bounds>>

\* fs::write: the file is empty from here on ...
Truncate(t) ==
  /\ pc[t] = "truncate"
  /\ file' = "empty"
  /\ Goto(t, "write")
  /\ UNCHANGED <<approvals, lock, terms, issued, outVars, request, copy, bounds>>

\* What a write makes of the file: when another process wrote since this one
\* truncated, the end of a longer text stays behind this one's.
Overwritten == IF file = "empty" THEN {"whole"} ELSE {"whole", "torn"}

\* Mutant: the approval is spent without being recorded.
WriteApprovals_NoRecord(t) ==
  /\ pc[t] = "write"
  /\ approvals' = copy[t]
  /\ file' \in Overwritten
  /\ UnlockApprovals(t)
  /\ Goto(t, IF request[t].op = "send" THEN "deliver" ELSE "created")
  /\ UNCHANGED <<terms, issued, outVars, request, copy, bounds>>

\* ... until here, where the text is written and the guard is dropped.
WriteApprovals(t) ==
  /\ pc[t] = "write"
  /\ approvals' = copy[t]
  /\ file' \in Overwritten
  /\ UnlockApprovals(t)
  /\ Goto(t, IF request[t].op = "send" THEN "approve" ELSE "created")
  /\ UNCHANGED <<terms, issued, outVars, request, copy, bounds>>

\* The write fails after the truncation, with nothing or a part of the text in
\* the file.
WriteFails(t) ==
  /\ pc[t] = "write"
  /\ Fault
  /\ file' \in {file, "torn"}
  /\ UnlockApprovals(t)
  /\ Return(t)
  /\ UNCHANGED <<approvals, terms, issued, outVars, now, requests>>

\* record_policy_approved
RecordApproved(t) ==
  /\ pc[t] = "approve"
  /\ Log(t, "approved")
  /\ Goto(t, "deliver")
  /\ UNCHANGED <<fileVars, lock, terms, issued, terminal, request, copy, bounds>>

\* Mutant: a send that is not approved is recorded and delivered.
RecordDenied_NoError(t) ==
  /\ pc[t] = "deny"
  /\ Log(t, "denied")
  /\ Goto(t, "deliver")
  /\ UNCHANGED <<fileVars, lock, terms, issued, terminal, request, copy, bounds>>

\* record_policy_denial, and the error of the request
RecordDenied(t) ==
  /\ pc[t] = "deny"
  /\ Log(t, "denied")
  /\ Return(t)
  /\ UNCHANGED <<fileVars, lock, terms, issued, terminal, bounds>>

InputOf(t) == [via |-> request[t].op, command |-> request[t].command,
               grant |-> request[t].grant]

\* Mutant: the bytes are written and no event follows.
Deliver_NotLogged(t) ==
  /\ pc[t] = "deliver"
  /\ terminal' = [terminal EXCEPT ![request[t].session] = Append(@, InputOf(t))]
  /\ Return(t)
  /\ UNCHANGED <<fileVars, lock, terms, issued, evidence, bounds>>

\* SessionManager::send writes and flushes the bytes first ...
Deliver(t) ==
  /\ pc[t] = "deliver"
  /\ terminal' = [terminal EXCEPT ![request[t].session] = Append(@, InputOf(t))]
  /\ Goto(t, "record")
  /\ UNCHANGED <<fileVars, lock, terms, issued, evidence, request, copy, bounds>>

\* ... and then appends the SendKeys event.
RecordSend(t) ==
  /\ pc[t] = "record"
  /\ Log(t, "send")
  /\ Return(t)
  /\ UNCHANGED <<fileVars, lock, terms, issued, terminal, bounds>>

\* The session is gone or its metadata cannot be read, the write to it fails, or
\* an append fails: the request returns the error, and what it did stays done.
StepFails(t) ==
  /\ pc[t] \in {"approve", "created", "deliver", "record", "deny"}
  /\ Fault
  /\ Return(t)
  /\ UNCHANGED <<fileVars, lock, terms, issued, outVars, now, requests>>

----------------------------------------------------------------------------
(* Attach: handle_attach_stream                                            *)

\* A client attached to s, and not read-only, typed c: the input goes to
\* SessionManager::send as it is, and no rule is asked.
AttachInput(t, s, c) ==
  /\ pc[t] = "idle"
  /\ requests < MaxRequests
  /\ requests' = requests + 1
  /\ request' = [request EXCEPT ![t] = [op |-> "attach", session |-> s,
                                        command |-> c, grant |-> NoGrant,
                                        at |-> now]]
  /\ Goto(t, "deliver")
  /\ UNCHANGED <<fileVars, lock, terms, issued, outVars, copy, now, faults>>

----------------------------------------------------------------------------
(* Approve: create_policy_approval                                         *)

\* A command that needs no approval, is denied, or does not match the rule the
\* client names is an error that changes nothing.
ApproveCall(t, s, c, g, ttl) ==
  /\ pc[t] = "idle"
  /\ requests < MaxRequests
  /\ requests' = requests + 1
  /\ Gated(c)
  /\ terms[g] = Nothing
  /\ terms' = [terms EXCEPT ![g] = [session |-> s, command |-> c,
                                    label |-> Evaluate(c).label,
                                    expires |-> now + ttl]]
  /\ request' = [request EXCEPT ![t] = [op |-> "approve", session |-> s,
                                        command |-> c, grant |-> g, at |-> now]]
  /\ Goto(t, "lock")
  /\ UNCHANGED <<fileVars, lock, issued, outVars, copy, now, faults>>

\* Append PolicyApprovalCreated and give the grant to the client.
RecordCreated(t) ==
  /\ pc[t] = "created"
  /\ Log(t, "created")
  /\ issued' = issued \cup {request[t].grant}
  /\ Return(t)
  /\ UNCHANGED <<fileVars, lock, terms, terminal, bounds>>

----------------------------------------------------------------------------

Tick == /\ now < MaxClock
        /\ now' = now + 1
        /\ UNCHANGED <<fileVars, lock, terms, issued, outVars, pc, request, copy,
                       requests, faults>>

Of(p) == {t \in Thread : ProcOf[t] = p}

\* A process dies with its requests and its lock; the file and the logs stay.
Crash(p) ==
  /\ Fault
  /\ lock' = [lock EXCEPT ![p] = NoThread]
  /\ pc' = [t \in Thread |-> IF t \in Of(p) THEN "idle" ELSE pc[t]]
  /\ request' = [t \in Thread |-> IF t \in Of(p) THEN Nothing ELSE request[t]]
  /\ copy' = [t \in Thread |-> IF t \in Of(p) THEN NoApprovals ELSE copy[t]]
  /\ UNCHANGED <<fileVars, terms, issued, outVars, now, requests>>

HandlerStep(t) ==
  \/ LockApprovals(t) \/ ReadToConsume(t) \/ ReadToCreate(t) \/ ReadFails(t)
  \/ Truncate(t) \/ WriteApprovals(t) \/ RecordApproved(t) \/ RecordDenied(t)
  \/ Deliver(t) \/ RecordSend(t) \/ RecordCreated(t)

Next ==
  \/ \E t \in Thread :
       \/ \E s \in Session, c \in Command, g \in Grant \cup {NoGrant} :
            SendCall(t, s, c, g)
       \/ \E s \in Session, c \in Command : AttachInput(t, s, c)
       \/ \E s \in Session, c \in Command, g \in Grant, ttl \in Ttl :
            ApproveCall(t, s, c, g, ttl)
       \/ HandlerStep(t)
       \/ WriteFails(t)
       \/ StepFails(t)
  \/ \E p \in Process : Crash(p)
  \/ Tick

Spec == Init /\ [][Next]_vars

----------------------------------------------------------------------------
(* Properties                                                              *)

\* The approvals with a grant in a log, and the commands it let through.
ApprovedAt(s, g) == {i \in DOMAIN evidence[s] : /\ evidence[s][i].kind = "approved"
                                                /\ evidence[s][i].grant = g}
DeliveredAt(s, g) == {i \in DOMAIN terminal[s] : /\ Gated(terminal[s][i].command)
                                                 /\ terminal[s][i].grant = g}
Approved(s, g) == Cardinality(ApprovedAt(s, g))
Delivered(s, g) == Cardinality(DeliveredAt(s, g))

\* Every variable stays in its type.
TypeOK ==
  /\ approvals \in [Grant -> GrantState]
  /\ file \in {"whole", "empty", "torn"}
  /\ lock \in [Process -> Thread \cup {NoThread}]
  /\ terms \in [Grant -> GrantTerms \cup {Nothing}]
  /\ issued \in SUBSET Grant
  /\ evidence \in [Session -> Seq(Event)]
  /\ terminal \in [Session -> Seq(Input)]
  /\ pc \in [Thread -> Busy \cup {"idle"}]
  /\ request \in [Thread -> Request \cup {Nothing}]
  /\ copy \in [Thread -> [Grant -> GrantState]]
  /\ now \in 0..MaxClock
  /\ requests \in 0..MaxRequests
  /\ faults \in 0..MaxFaults

\* A grant is approved at most once and lets at most one command through to a
\* terminal (README "one-time approval tokens"), whatever two sends race for it
\* and wherever the process stops between spending and sending.
SpentOnce ==
  \A g \in Grant :
    /\ \A s \in Session : Approved(s, g) <= 1 /\ Delivered(s, g) <= 1
    /\ Cardinality({s \in Session : Approved(s, g) > 0}) <= 1

\* What a Send request brings reaches a terminal only, where it needs approval,
\* behind an approval recorded in that session's log for that very command, and
\* where it is denied never (README: "before they reach the PTY").  Of what an
\* attached client types nothing of this holds: handle_attach_stream asks no
\* rule.
GatedBehindApproval ==
  \A s \in Session : \A i \in DOMAIN terminal[s] :
    LET d == terminal[s][i] IN
    d.via = "send" =>
      /\ ~Denied(d.command)
      /\ Gated(d.command) =>
           \E j \in DOMAIN evidence[s] :
             evidence[s][j] = [kind |-> "approved", command |-> d.command,
                               grant |-> d.grant]

\* An approval is honoured only for the session and the command it was created
\* for, and only if its token was presented before it expired.
HonouredAsGranted ==
  \A t \in Thread : pc[t] = "approve" =>
    LET r == request[t] IN
    /\ terms[r.grant].session = r.session
    /\ terms[r.grant].command = r.command
    /\ r.at < terms[r.grant].expires

\* The approvals are one-time grants: none that a client was told of is missing
\* from the text last written, whatever request writes it, and each is spent,
\* recorded and let through at most once, in this order.
Place(s, row, i) == [session |-> s, command |-> row[i].command, at |-> i]
RecordsOf(g) ==
  UNION {{Place(s, evidence[s], i) : i \in ApprovedAt(s, g)} : s \in Session}
ThroughsOf(g) ==
  UNION {{Place(s, terminal[s], i) : i \in DeliveredAt(s, g)} : s \in Session}
Grants == INSTANCE OneTimeGrants WITH state <- approvals, told <- issued,
                                      records <- [g \in Grant |-> RecordsOf(g)],
                                      throughs <- [g \in Grant |-> ThroughsOf(g)]
ImplementsGrants == Grants!Spec

\* In one process, without crashes and failed steps, the file always parses when
\* no request is rewriting it, and every spent grant is recorded as approved in
\* its session, or is about to be (README: approvals "become evidence events").
SpentIsRecorded ==
  faults = 0 =>
    /\ (\A t \in Thread : pc[t] # "write") => file = "whole"
    /\ \A g \in Grant : approvals[g] = "used" =>
         \/ \E s \in Session : Approved(s, g) > 0
         \/ \E t \in Thread : pc[t] = "approve" /\ request[t].grant = g

\* What was typed into a terminal, what its log says was typed, and what a request
\* has typed and is about to log.
Typed(s, c) == {i \in DOMAIN terminal[s] : terminal[s][i].command = c}
Logged(s, c) == {i \in DOMAIN evidence[s] : /\ evidence[s][i].kind = "send"
                                            /\ evidence[s][i].command = c}
Logging(s, c) == {t \in Thread : /\ pc[t] = "record"
                                 /\ request[t].session = s
                                 /\ request[t].command = c}

\* The log of a session never shows an input its terminal did not get, and it
\* lacks none, sent or typed into an attachment (README "record every mutation"),
\* but for what a crash or a failed append leaves out between the write and the
\* event.
InputRecorded ==
  \A s \in Session, c \in Command :
    LET recorded == Cardinality(Logged(s, c)) + Cardinality(Logging(s, c))
    IN  /\ recorded <= Cardinality(Typed(s, c))
        /\ faults = 0 => recorded = Cardinality(Typed(s, c))
=============================================================================
