---------------------------- MODULE EvidenceLog ----------------------------
(***************************************************************************)
(* The JSONL evidence log of one session: src/evidence.rs, EventLog.       *)
(*                                                                         *)
(* Threads of several processes append to and replay one file.  An append  *)
(* holds the mutex EVENT_LOG_WRITE_LOCK of its process and an exclusive    *)
(* flock on the file while it reads every event, chains the new one to the *)
(* last and writes one line; a replay holds a shared flock while it reads. *)
(*                                                                         *)
(* The file is abstracted to the events it parses to (log) and to how its  *)
(* bytes end (tail).  SHA-256 is abstracted to an injective function: the  *)
(* hash of an event extends the hash it was chained to.                    *)
(***************************************************************************)
EXTENDS Integers, Sequences, SequencesExt, FiniteSetsExt

CONSTANTS
  Event,         \* identifiers of the events appended: one per append call
  Thread,        \* threads that call the log
  Process,       \* processes that share the log directory
  ProcOf,        \* the process each thread belongs to
  NoEvent,       \* "the thread builds no event"
  NoThread,      \* "nobody holds the lock"
  CutPoints,     \* how the file may end when a write stops half way
  MaxFaults,     \* bound: crashes and failed writes of a behaviour
  MaxReplays     \* bound: replays of a behaviour

ASSUME LogAssumption ==
  /\ ProcOf \in [Thread -> Process]
  /\ NoEvent \notin Event
  /\ NoThread \notin Thread
  /\ CutPoints \subseteq {"torn", "whole"}
  /\ MaxFaults \in Nat
  /\ MaxReplays \in Nat

VARIABLES
  log,           \* the events the complete lines of the file parse to
  tail,          \* how the bytes of the file end, see FileEnd
  exists,        \* the file has been created
  mutex,         \* per process: the thread inside EVENT_LOG_WRITE_LOCK
  exclusive,     \* the thread that holds the exclusive flock
  shared,        \* the threads that hold the shared flock
  pc,            \* per thread: where it is in append or replay
  event,         \* per thread: the event it is appending
  result,        \* per thread: what its last replay returned
  fate,          \* per event: what has become of its append call
  faults,        \* crashes and failed writes so far
  replays        \* replays so far

fileVars == <<log, tail, exists>>
lockVars == <<mutex, exclusive, shared>>
vars == <<log, tail, exists, mutex, exclusive, shared, pc, event, result,
          fate, faults, replays>>

----------------------------------------------------------------------------
(* Events and their hashes.                                                *)

Hash == Seq(Event \X Nat)
NoHash == << >>            \* previous_hash None, event_hash ""

EvidenceEvent == [id : Event, sequence : Nat,
                  previous_hash : Hash, event_hash : Hash]

\* EvidenceEvent::new: the chain fields are filled in by append.
NewEvent(e) == [id |-> e, sequence |-> 0,
                previous_hash |-> NoHash, event_hash |-> NoHash]

\* The hash covers every field of the event but event_hash itself.
EventHash(ev) == Append(ev.previous_hash, <<ev.id, ev.sequence>>)

NextSequence(events) ==
  Max({1} \cup {events[i].sequence + 1 : i \in DOMAIN events})

LastHash(events) ==
  LET hashed == {i \in DOMAIN events : events[i].event_hash # NoHash}
  IN  IF hashed = {} THEN NoHash ELSE events[Max(hashed)].event_hash

\* redact_event and the three assignments of append.
Chain(ev, events) ==
  LET linked == [ev EXCEPT !.sequence = NextSequence(events),
                           !.previous_hash = LastHash(events)]
  IN  [linked EXCEPT !.event_hash = EventHash(linked)]

\* Mutant: verify_integrity expects sequence numbers from 0.
VerifiesAt_FromZero(events, i) ==
  /\ events[i].sequence = i - 1
  /\ events[i].event_hash = EventHash(events[i])

\* The three tests verify_integrity makes of the event at index i.
VerifiesAt(events, i) ==
  /\ events[i].sequence = i
  /\ events[i].previous_hash = IF i = 1 THEN NoHash ELSE events[i-1].event_hash
  /\ events[i].event_hash = EventHash(events[i])

Verified(events) == \A i \in DOMAIN events : VerifiesAt(events, i)

----------------------------------------------------------------------------
(* The file.                                                               *)

\* clean: the file is empty or ends with a newline; torn: it ends with a part
\* of a line; whole: it ends with a line that lacks only its newline; glued:
\* bytes of a second event were written behind such a line.
FileEnd == {"clean", "torn", "whole", "glued"}

\* Mutant: a line that does not parse is skipped.
Parses_SkipsBadLine == TRUE

\* read_events_from_file: one line that does not parse fails the whole read,
\* and BufRead::lines yields a last line without a newline like any other.
Parses == tail \in {"clean", "whole"}

AppendPC == {"mutex", "flock", "read", "write", "body", "newline",
             "return", "fail"}
ReplayPC == {"shared", "load"}
HoldsMutex == AppendPC \ {"mutex"}
HoldsFlock == HoldsMutex \ {"flock"}
Writing == {"body", "newline"}

Init ==
  /\ log = << >>
  /\ tail = "clean"
  /\ exists = FALSE
  /\ mutex = [p \in Process |-> NoThread]
  /\ exclusive = NoThread
  /\ shared = {}
  /\ pc = [t \in Thread |-> "idle"]
  /\ event = [t \in Thread |-> NoEvent]
  /\ result = [t \in Thread |-> [ok |-> TRUE, events |-> << >>]]
  /\ fate = [e \in Event |-> "new"]
  /\ faults = 0
  /\ replays = 0

----------------------------------------------------------------------------
(* append                                                                  *)

\* append_action and append_observation build the event before any lock.
AppendCall(t, e) ==
  /\ pc[t] = "idle"
  /\ fate[e] = "new"
  /\ fate' = [fate EXCEPT ![e] = "open"]
  /\ event' = [event EXCEPT ![t] = NewEvent(e)]
  /\ pc' = [pc EXCEPT ![t] = "mutex"]
  /\ UNCHANGED <<fileVars, lockVars, result, faults, replays>>

\* Take the process-wide mutex, then open the file, creating it.
LockMutex(t) ==
  /\ pc[t] = "mutex"
  /\ mutex[ProcOf[t]] = NoThread
  /\ mutex' = [mutex EXCEPT ![ProcOf[t]] = t]
  /\ exists' = TRUE
  /\ pc' = [pc EXCEPT ![t] = "flock"]
  /\ UNCHANGED <<log, tail, exclusive, shared, event, result, fate, faults,
                 replays>>

\* Mutant: opens the file without the exclusive flock.
LockExclusive_NoWait(t) ==
  /\ pc[t] = "flock"
  /\ exclusive' = t
  /\ pc' = [pc EXCEPT ![t] = "read"]
  /\ UNCHANGED <<fileVars, mutex, shared, event, result, fate, faults, replays>>

LockExclusive(t) ==
  /\ pc[t] = "flock"
  /\ exclusive = NoThread
  /\ shared = {}
  /\ exclusive' = t
  /\ pc' = [pc EXCEPT ![t] = "read"]
  /\ UNCHANGED <<fileVars, mutex, shared, event, result, fate, faults, replays>>

\* Mutant: a log that does not parse ends the append without an error.
ReadExisting_NoError(t) ==
  /\ pc[t] = "read"
  /\ event' = [event EXCEPT ![t] = Chain(event[t], log)]
  /\ pc' = [pc EXCEPT ![t] = IF Parses THEN "write" ELSE "return"]
  /\ UNCHANGED <<fileVars, lockVars, result, fate, faults, replays>>

\* Read the existing events and compute the chain fields of the new one.
ReadExisting(t) ==
  /\ pc[t] = "read"
  /\ \/ /\ Parses
        /\ event' = [event EXCEPT ![t] = Chain(event[t], log)]
        /\ pc' = [pc EXCEPT ![t] = "write"]
     \/ /\ ~Parses
        /\ pc' = [pc EXCEPT ![t] = "fail"]
        /\ UNCHANGED event
  /\ UNCHANGED <<fileVars, lockVars, result, fate, faults, replays>>

\* write_all(line): some first bytes, then the rest of the JSON, then the
\* newline.  Behind a line that lacks its newline they spoil that line too.
WriteFirst(t) ==
  /\ pc[t] = "write"
  /\ \/ /\ tail = "whole"
        /\ tail' = "glued"
        /\ log' = Front(log)
     \/ /\ tail # "whole"
        /\ tail' = IF tail = "clean" THEN "torn" ELSE tail
        /\ UNCHANGED log
  /\ pc' = [pc EXCEPT ![t] = "body"]
  /\ UNCHANGED <<exists, lockVars, event, result, fate, faults, replays>>

WriteBody(t) ==
  /\ pc[t] = "body"
  /\ \/ /\ tail = "torn"
        /\ tail' = "whole"
        /\ log' = Append(log, event[t])
     \/ /\ tail # "torn"
        /\ UNCHANGED <<log, tail>>
  /\ pc' = [pc EXCEPT ![t] = "newline"]
  /\ UNCHANGED <<exists, lockVars, event, result, fate, faults, replays>>

WriteNewline(t) ==
  /\ pc[t] = "newline"
  /\ tail' = IF tail = "whole" THEN "clean" ELSE tail
  /\ pc' = [pc EXCEPT ![t] = "return"]
  /\ UNCHANGED <<log, exists, lockVars, event, result, fate, faults, replays>>

\* A thread is in the middle of a write that the fault model lets stop here.
MayStop(t) == pc[t] \in Writing => tail \in CutPoints \cup {"glued"}

\* write_all returns an error (a full disk, say) after part of the line.
WriteFails(t) ==
  /\ pc[t] \in Writing
  /\ MayStop(t)
  /\ faults < MaxFaults
  /\ faults' = faults + 1
  /\ pc' = [pc EXCEPT ![t] = "fail"]
  /\ UNCHANGED <<fileVars, lockVars, event, result, fate, replays>>

\* Mutant: the mutex guard outlives the call.
Unlock_KeepsMutex(t) == exclusive' = NoThread /\ UNCHANGED mutex

\* Drop the file, which releases the flock, and the mutex guard.
Unlock(t) ==
  /\ exclusive' = NoThread
  /\ mutex' = [mutex EXCEPT ![ProcOf[t]] = NoThread]

\* Mutant: the error of write_all is dropped.
AppendReturn_IgnoresError(t) ==
  /\ pc[t] \in {"return", "fail"}
  /\ Unlock(t)
  /\ fate' = [fate EXCEPT ![event[t].id] = "ok"]
  /\ event' = [event EXCEPT ![t] = NoEvent]
  /\ pc' = [pc EXCEPT ![t] = "idle"]
  /\ UNCHANGED <<fileVars, shared, result, faults, replays>>

AppendReturn(t) ==
  /\ pc[t] \in {"return", "fail"}
  /\ Unlock(t)
  /\ fate' = [fate EXCEPT ![event[t].id] = IF pc[t] = "return" THEN "ok"
                                                               ELSE "err"]
  /\ event' = [event EXCEPT ![t] = NoEvent]
  /\ pc' = [pc EXCEPT ![t] = "idle"]
  /\ UNCHANGED <<fileVars, shared, result, faults, replays>>

----------------------------------------------------------------------------
(* replay, and verify_integrity which starts with one                      *)

ReplayCall(t) ==
  /\ pc[t] = "idle"
  /\ replays < MaxReplays
  /\ replays' = replays + 1
  /\ \/ /\ exists
        /\ pc' = [pc EXCEPT ![t] = "shared"]
        /\ UNCHANGED result
     \/ /\ ~exists
        /\ result' = [result EXCEPT ![t] = [ok |-> TRUE, events |-> << >>]]
        /\ UNCHANGED pc
  /\ UNCHANGED <<fileVars, lockVars, event, fate, faults>>

\* Mutant: replay reads without the shared flock.
LockShared_NoWait(t) ==
  /\ pc[t] = "shared"
  /\ pc' = [pc EXCEPT ![t] = "load"]
  /\ UNCHANGED <<fileVars, lockVars, event, result, fate, faults, replays>>

LockShared(t) ==
  /\ pc[t] = "shared"
  /\ exclusive = NoThread
  /\ shared' = shared \cup {t}
  /\ pc' = [pc EXCEPT ![t] = "load"]
  /\ UNCHANGED <<fileVars, mutex, exclusive, event, result, fate, faults,
                 replays>>

\* Read every line; dropping the reader releases the flock.
ReplayLoad(t) ==
  /\ pc[t] = "load"
  /\ result' = [result EXCEPT ![t] =
                  [ok |-> Parses, events |-> IF Parses THEN log ELSE << >>]]
  /\ shared' = shared \ {t}
  /\ pc' = [pc EXCEPT ![t] = "idle"]
  /\ UNCHANGED <<fileVars, mutex, exclusive, event, fate, faults, replays>>

----------------------------------------------------------------------------
(* A process dies: its threads stop where they are and the kernel releases *)
(* its flocks.  The file keeps the bytes written so far.  The threads of   *)
(* the process that replaces it start idle.                                *)

Of(p) == {t \in Thread : ProcOf[t] = p}

Crash(p) ==
  /\ faults < MaxFaults
  /\ \A t \in Of(p) : MayStop(t)
  /\ faults' = faults + 1
  /\ mutex' = [mutex EXCEPT ![p] = NoThread]
  /\ exclusive' = IF exclusive \in Of(p) THEN NoThread ELSE exclusive
  /\ shared' = shared \ Of(p)
  /\ fate' = [e \in Event |->
                IF \E t \in Of(p) : pc[t] \in AppendPC /\ event[t].id = e
                THEN "err" ELSE fate[e]]
  /\ pc' = [t \in Thread |-> IF t \in Of(p) THEN "idle" ELSE pc[t]]
  /\ event' = [t \in Thread |-> IF t \in Of(p) THEN NoEvent ELSE event[t]]
  /\ UNCHANGED <<fileVars, result, replays>>

----------------------------------------------------------------------------

AppendStep(t) == \/ LockMutex(t) \/ LockExclusive(t) \/ ReadExisting(t)
                 \/ WriteFirst(t) \/ WriteBody(t) \/ WriteNewline(t)
                 \/ AppendReturn(t)

ReplayStep(t) == LockShared(t) \/ ReplayLoad(t)

Next == \/ \E t \in Thread : \/ \E e \in Event : AppendCall(t, e)
                             \/ AppendStep(t)
                             \/ WriteFails(t)
                             \/ ReplayCall(t)
                             \/ ReplayStep(t)
        \/ \E p \in Process : Crash(p)

Spec == Init /\ [][Next]_vars

\* A thread inside a call goes on; the calls are finite in number, so a lock
\* that is free is in the end free for good.
Fairness == \A t \in Thread : WF_vars(AppendStep(t) \/ ReplayStep(t))

FairSpec == Spec /\ Fairness

----------------------------------------------------------------------------
(* Properties                                                              *)

ReplayResult == [ok : BOOLEAN, events : Seq(EvidenceEvent)]

\* Every variable stays in its type.
TypeOK ==
  /\ log \in Seq(EvidenceEvent)
  /\ tail \in FileEnd
  /\ exists \in BOOLEAN
  /\ mutex \in [Process -> Thread \cup {NoThread}]
  /\ exclusive \in Thread \cup {NoThread}
  /\ shared \in SUBSET Thread
  /\ pc \in [Thread -> {"idle"} \cup AppendPC \cup ReplayPC]
  /\ event \in [Thread -> EvidenceEvent \cup {NoEvent}]
  /\ result \in [Thread -> ReplayResult]
  /\ fate \in [Event -> {"new", "open", "ok", "err"}]
  /\ faults \in 0..MaxFaults
  /\ replays \in 0..MaxReplays

\* Whatever the interleaving of the appenders of all processes, and wherever
\* they are killed, the events in the file verify: consecutive sequence
\* numbers from 1, each event chained to the one before it by its hash.
ChainIntact == Verified(log)

InLog(e) == \E i \in DOMAIN log : log[i].id = e

\* An append that returned Ok and whose event is not in the file.
Vanished(e) == fate[e] = "ok" /\ ~InLog(e)

\* No event is in the file twice, and an append that returned Ok has its event
\* in the file (evidence.rs append, README "durable evidence"); the one append
\* that wrote behind a line without a newline is the only exception.
AcknowledgedOnce ==
  /\ \A i, j \in DOMAIN log : log[i].id = log[j].id => i = j
  /\ \A e, f \in Event : Vanished(e) /\ Vanished(f) => tail = "glued" /\ e = f

\* What a replay returned stays a prefix of the log for ever, and verifies: a
\* reader never sees a line that another process is still writing.  The last
\* line a replay saw can go only when it is spoilt.
ReplayIsStablePrefix ==
  \A t \in Thread : result[t].ok =>
     /\ Verified(result[t].events)
     /\ \/ IsPrefix(result[t].events, log)
        \/ tail = "glued" /\ log = Front(result[t].events)

\* Contention alone never makes an append or a replay fail: an error is
\* returned only once a write has been interrupted.
OnlyFaultsFail ==
  faults = 0 => /\ \A t \in Thread : result[t].ok
                /\ \A e \in Event : fate[e] # "err"

\* Nothing that parsed is ever lost or rewritten (README "Append-only JSONL
\* evidence logs"), where no write stops just before its newline.
AppendOnly == [][IsPrefix(log, log')]_vars

\* The file ends in bytes that parse to no event, and nobody is writing.
Ruined == tail \in {"torn", "glued"} /\ \A t \in Thread : pc[t] \notin Writing

\* Once an interrupted write has left a part of a line behind, no write is ever
\* started again: appends fail rather than write behind an unreadable line.
TornIsFinal == [][Ruined => Ruined' /\ tail' = tail /\ log' = log]_vars

\* The log is an atomic chain: every append takes effect at one instant, and
\* what is spoilt is never what an append has acknowledged.
LogIdentifiers == [i \in DOMAIN log |-> log[i].id]
AbstractLog == INSTANCE EvidenceChain WITH chain <- LogIdentifiers,
                                           spoilt <- tail = "glued"
ImplementsChain == AbstractLog!Spec

\* Every append call returns, whoever holds the locks and whoever dies.
AppendsReturn == \A e \in Event : fate[e] = "open" ~> fate[e] \in {"ok", "err"}
=============================================================================
