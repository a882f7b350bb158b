------------------------ MODULE ProofBundle_proofs ------------------------
(***************************************************************************)
(* Proofs about ProofBundle, for any calls of proof, any events beside     *)
(* them and any number of failed steps and edits.                          *)
(***************************************************************************)
EXTENDS ProofBundle, FiniteSetTheorems, SequenceTheorems, TLAPS

----------------------------------------------------------------------------
(* The inductive invariant.                                                *)

\* What a call holds before it has verified the log, and before it is answered.
Fresh(p) ==
  /\ pc[p] \in {"new", "replay", "verify"} => integrity[p] = None /\ artifact[p] = 1
  /\ pc[p] # "done" => answer[p] = "none"

\* What was replayed is still the beginning of the log; events are only spoiled.
ReplayHeld(p) ==
  /\ Len(events[p]) <= Len(log)
  /\ \A i \in DOMAIN events[p] :
       /\ events[p][i].content = log[i].content
       /\ log[i].genuine => events[p][i].genuine

\* What verify_integrity returned is still true of the events that were replayed
\* before it.
HasVerified(p) == pc[p] \in {"truncate", "write", "record"} \/ answer[p] = "ok"
IntegrityHeld(p) ==
  HasVerified(p) \/ integrity[p] # None =>
    /\ integrity[p] \in Integrity
    /\ Len(events[p]) <= integrity[p].count /\ integrity[p].count <= Len(log)
    /\ integrity[p].verified => \A i \in DOMAIN events[p] : events[p][i].genuine
    /\ ~integrity[p].verified => \E i \in 1..integrity[p].count : ~log[i].genuine

\* A call that no other overlapped is alone while it runs, and the newest; the
\* artifacts behind it are its own as long as it is the newest.
Alone(p) ==
  p \notin overlapped =>
    /\ p \in Running => latest = p
    /\ latest = p => Running \subseteq {p}
ArtifactsHeld(p) ==
  p \notin overlapped /\ latest = p =>
    /\ pc[p] \in {"truncate", "write"} => \A i \in 1..(artifact[p] - 1) : files[i] = p
    /\ pc[p] = "write" => files[artifact[p]] = "cut"
    /\ pc[p] = "record" \/ answer[p] = "ok" => \A i \in DOMAIN files : files[i] = p

\* There is a Proof event of a call once it is answered, and only then.
EventHeld(p) ==
  IF answer[p] = "ok"
  THEN \E k \in DOMAIN log : /\ log[k].by = p /\ k > integrity[p].count
                            /\ \A i \in DOMAIN log : log[i].by = p => i = k
  ELSE \A i \in DOMAIN log : log[i].by # p

IInv ==
  /\ TypeOK
  /\ \A p \in Prover : Fresh(p)
  /\ \A p \in Prover : ReplayHeld(p)
  /\ \A p \in Prover : IntegrityHeld(p)
  /\ \A p \in Prover : Alone(p)
  /\ \A p \in Prover : ArtifactsHeld(p)
  /\ \A p \in Prover : EventHeld(p)

----------------------------------------------------------------------------

\* Every step leaves the events of the log where they are; it may spoil one and
\* may add one.
Extended ==
  /\ Len(log) <= Len(log')
  /\ \A i \in DOMAIN log :
       /\ i \in DOMAIN log'
       /\ log'[i].content = log[i].content /\ log'[i].by = log[i].by
       /\ log'[i].genuine => log[i].genuine

\* A log that is left alone, the most of the steps, is one that is extended.
LEMMA Untouched ==
  ASSUME TypeOK, log' = log
  PROVE  Extended
BY DEF TypeOK, Extended

\* What an append does to the log.
LEMMA Grows ==
  ASSUME TypeOK, NEW e \in Event, log' = Append(log, e)
  PROVE  /\ log' \in Seq(Event) /\ Extended
         /\ DOMAIN log' = 1..(Len(log) + 1) /\ DOMAIN log = 1..Len(log)
         /\ \A i \in DOMAIN log : log'[i] = log[i]
         /\ log'[Len(log) + 1] = e
<1>1. log \in Seq(Event)
  BY DEF TypeOK
<1> HIDE DEF Event
<1>2. /\ log' \in Seq(Event) /\ Len(log') = Len(log) + 1
      /\ \A i \in 1..Len(log) : log'[i] = log[i]
      /\ log'[Len(log) + 1] = e
  BY <1>1
<1>3. DOMAIN log = 1..Len(log) /\ DOMAIN log' = 1..(Len(log) + 1) /\ Len(log) \in Nat
  BY <1>1, <1>2
<1>4. Extended
  BY <1>2, <1>3 DEF Extended
<1> QED BY <1>2, <1>3, <1>4

\* What an edit does to the log: the event it hits is not genuine any more.
LEMMA Spoils ==
  ASSUME TypeOK, NEW k \in DOMAIN log, log' = [log EXCEPT ![k].genuine = FALSE]
  PROVE  /\ log' \in Seq(Event) /\ Extended
         /\ DOMAIN log' = DOMAIN log /\ \A i \in DOMAIN log : log'[i].by = log[i].by
<1>1. PICK fresh \in BOOLEAN : ~fresh
  OBVIOUS
<1> DEFINE e == [log[k] EXCEPT !.genuine = fresh]
<1>2. log \in Seq(Event) /\ DOMAIN log = 1..Len(log) /\ Len(log) \in Nat
  BY DEF TypeOK
<1>3. log[k] \in Event
  BY <1>2
<1>4. /\ e \in Event /\ e.content = log[k].content /\ e.by = log[k].by
      /\ ~e.genuine
  BY <1>1, <1>3 DEF Event
<1>5. log' = [log EXCEPT ![k] = e]
  BY <1>1
<1> HIDE DEF e
<1>6. /\ log' \in Seq(Event) /\ DOMAIN log' = DOMAIN log /\ Len(log') = Len(log)
      /\ \A i \in DOMAIN log : log'[i] = IF i = k THEN e ELSE log[i]
  <2> HIDE DEF Event
  <2>1. /\ log' \in Seq(Event) /\ Len(log') = Len(log)
        /\ \A i \in 1..Len(log) : log'[i] = IF i = k THEN e ELSE log[i]
    <3>1. k \in 1..Len(log)
      BY <1>2
    <3>2. /\ [log EXCEPT ![k] = e] \in Seq(Event)
          /\ Len([log EXCEPT ![k] = e]) = Len(log)
          /\ \A i \in 1..Len(log) : [log EXCEPT ![k] = e][i] = IF i = k THEN e ELSE log[i]
      BY <1>2, <1>4, <3>1, ExceptSeq
    <3> QED BY <1>5, <3>2, Zenon
  <2>2. DOMAIN log' = 1..Len(log')
    BY <2>1
  <2> QED BY <1>2, <2>1, <2>2, Zenon
<1> QED BY <1>2, <1>4, <1>6 DEF Extended

----------------------------------------------------------------------------
(* Types.                                                                  *)

\* The event of an append, of proof or of another request, is an event.
LEMMA Events ==
  /\ \A p \in Prover : [content |-> NoContent, genuine |-> TRUE, by |-> p] \in Event
  /\ \A c \in Content : [content |-> c, genuine |-> TRUE, by |-> None] \in Event
BY DEF Event

\* The steps of a call keep the types.
LEMMA ProofStepTypes ==
  ASSUME TypeOK, NEW p \in Prover, ProofStep(p)
  PROVE  TypeOK'
<1> USE DEF TypeOK
<1> HIDE DEF Event, Integrity
<1>0. Len(Artifacts) = 3 /\ DOMAIN Artifacts = 1..3
  BY DEF Artifacts
<1>1. CASE Call(p)
  BY <1>1 DEF Call, Go, Running
<1>2. CASE Replay(p)
  BY <1>2 DEF Replay, Go
<1>3. CASE Verify(p)
  <2> DEFINE r == [verified |-> \A i \in DOMAIN log : log[i].genuine, count |-> Len(log)]
  <2>2. r \in Integrity
    BY DEF Integrity
  <2>3. integrity' = [integrity EXCEPT ![p] = r]
    BY <1>3 DEF Verify
  <2> HIDE DEF r
  <2>4. integrity' \in [Prover -> {None} \cup Integrity]
    BY <2>2, <2>3
  <2>5. pc' = [pc EXCEPT ![p] = "truncate"]
    BY <1>3 DEF Verify, Go
  <2>6. UNCHANGED <<log, torn, artifact, events, answer, files, overlapped, latest, appended,
                   faults>>
    BY <1>3 DEF Verify
  <2> QED BY <2>4, <2>5, <2>6
<1>4. CASE LogUnreadable(p)
  BY <1>4 DEF LogUnreadable, Ends, Go
<1>5. CASE Truncate(p)
  BY <1>5 DEF Truncate, Go
<1>6. CASE WriteArtifact(p)
  <2>1. artifact[p] \in 1..3
    BY <1>0
  <2>2. artifact' \in [Prover -> DOMAIN Artifacts]
    BY <1>0, <1>6, <2>1 DEF WriteArtifact
  <2>3. files' \in [DOMAIN Artifacts -> {"none", "cut", "mixed"} \cup Prover]
    BY <1>6 DEF WriteArtifact
  <2> QED BY <1>6, <2>2, <2>3 DEF WriteArtifact, Go
<1>7. CASE Record(p)
  <2>1. log' \in Seq(Event)
    BY <1>7, Events, Grows DEF Record
  <2> QED BY <1>7, <2>1 DEF Record, Ends, Go
<1>8. CASE StepFails(p)
  BY <1>8, ProofAssumption DEF StepFails, Ends, Go, Fault
<1> QED BY <1>1, <1>2, <1>3, <1>4, <1>5, <1>6, <1>7, <1>8 DEF ProofStep

\* So do the steps beside them, and every step extends the log.
LEMMA Types ==
  ASSUME TypeOK, [Next]_vars
  PROVE  TypeOK' /\ Extended
<1>1. CASE \E p \in Prover : ProofStep(p)
  <2>1. PICK p \in Prover : ProofStep(p)
    BY <1>1
  <2>2. CASE Record(p)
    BY <2>1, <2>2, Events, Grows, ProofStepTypes DEF Record
  <2>3. CASE ~Record(p)
    <3>1. log' = log
      BY <2>1, <2>3 DEF ProofStep, Call, Replay, Verify, LogUnreadable, Truncate,
                        WriteArtifact, StepFails
    <3> QED BY <2>1, <3>1, Untouched, ProofStepTypes
  <2> QED BY <2>2, <2>3
<1>2. CASE \E c \in Content : OtherAppends(c)
  <2>1. PICK c \in Content : OtherAppends(c)
    BY <1>2
  <2>2. log' \in Seq(Event) /\ Extended
    BY <2>1, Events, Grows DEF OtherAppends
  <2> QED BY <2>1, <2>2, ProofAssumption DEF OtherAppends, TypeOK, callVars
<1>3. CASE AppendFails
  BY <1>3, Untouched, ProofAssumption DEF AppendFails, TypeOK, callVars, Fault
<1>4. CASE \E k \in DOMAIN log : Tamper(k)
  <2>1. PICK k \in DOMAIN log : Tamper(k)
    BY <1>4
  <2>2. log' \in Seq(Event) /\ Extended
    BY <2>1, Spoils DEF Tamper
  <2> QED BY <2>1, <2>2, ProofAssumption DEF Tamper, TypeOK, callVars, Fault
<1>5. CASE UNCHANGED vars
  BY <1>5, Untouched DEF vars, TypeOK
<1> QED BY <1>1, <1>2, <1>3, <1>4, <1>5 DEF Next

----------------------------------------------------------------------------
(* What a call has replayed and verified.                                  *)

\* Nothing that happens beside a call takes from what it has replayed, or from
\* what its verification said of it.
LEMMA HeldStays ==
  ASSUME TypeOK, TypeOK', Extended, NEW p \in Prover,
         events'[p] = events[p], integrity'[p] = integrity[p],
         HasVerified(p)' => HasVerified(p), ReplayHeld(p), IntegrityHeld(p)
  PROVE  ReplayHeld(p)' /\ IntegrityHeld(p)'
<1>1. /\ Len(log) \in Nat /\ Len(log') \in Nat /\ Len(events[p]) \in Nat
      /\ DOMAIN log = 1..Len(log) /\ DOMAIN events[p] = 1..Len(events[p])
  BY DEF TypeOK
<1>2. ReplayHeld(p)'
  BY <1>1 DEF ReplayHeld, Extended
<1>3. IntegrityHeld(p)'
  <2> SUFFICES ASSUME HasVerified(p)' \/ integrity'[p] # None
               PROVE  /\ integrity[p] \in Integrity
                      /\ Len(events[p]) <= integrity[p].count
                      /\ integrity[p].count <= Len(log')
                      /\ integrity[p].verified => \A i \in DOMAIN events[p] : events[p][i].genuine
                      /\ ~integrity[p].verified => \E i \in 1..integrity[p].count : ~log'[i].genuine
    BY DEF IntegrityHeld
  <2>1. HasVerified(p) \/ integrity[p] # None
    OBVIOUS
  <2>2. /\ integrity[p] \in Integrity
        /\ Len(events[p]) <= integrity[p].count /\ integrity[p].count <= Len(log)
        /\ integrity[p].verified => \A i \in DOMAIN events[p] : events[p][i].genuine
        /\ ~integrity[p].verified => \E i \in 1..integrity[p].count : ~log[i].genuine
    BY <2>1 DEF IntegrityHeld
  <2>3. integrity[p].count \in Nat
    BY <2>2 DEF Integrity
  <2>4. integrity[p].count <= Len(log')
    BY <1>1, <2>2, <2>3 DEF Extended
  <2>5. \A i \in 1..integrity[p].count : i \in DOMAIN log
    BY <1>1, <2>2, <2>3
  <2> QED BY <2>2, <2>4, <2>5 DEF Extended
<1> QED BY <1>2, <1>3

\* The replay reads the log as it is.
LEMMA ReplayReads ==
  ASSUME TypeOK, TypeOK', NEW p \in Prover, Replay(p), Fresh(p)
  PROVE  ReplayHeld(p)' /\ IntegrityHeld(p)'
<1>1. events'[p] = log /\ log' = log /\ pc'[p] = "verify"
  BY DEF Replay, Go, TypeOK
<1>2. integrity'[p] = None /\ answer'[p] # "ok"
  BY DEF Replay, Fresh
<1> QED BY <1>1, <1>2 DEF ReplayHeld, IntegrityHeld, HasVerified, TypeOK

\* The verification of a log that was genuine then covers what was replayed
\* before it.
LEMMA VerifyCovers ==
  ASSUME TypeOK, NEW p \in Prover, Verify(p), ReplayHeld(p)
  PROVE  ReplayHeld(p)' /\ IntegrityHeld(p)'
<1>1. log' = log /\ events' = events
  BY DEF Verify
<1>2. integrity'[p] = [verified |-> \A i \in DOMAIN log : log[i].genuine, count |-> Len(log)]
  BY DEF Verify, TypeOK
<1>3. /\ Len(log) \in Nat /\ Len(events[p]) \in Nat
      /\ DOMAIN log = 1..Len(log) /\ DOMAIN events[p] = 1..Len(events[p])
  BY DEF TypeOK
<1>4. /\ integrity'[p] \in Integrity /\ integrity'[p].count = Len(log)
      /\ integrity'[p].verified <=> \A i \in DOMAIN log : log[i].genuine
  BY <1>2, <1>3 DEF Integrity
<1>5. ReplayHeld(p)'
  BY <1>1 DEF ReplayHeld
<1>6. Len(events[p]) <= Len(log)
  BY DEF ReplayHeld
<1>7. integrity'[p].verified => \A i \in DOMAIN events[p] : events[p][i].genuine
  <2>1. \A i \in DOMAIN events[p] : i \in DOMAIN log
    BY <1>3, <1>6
  <2> QED BY <1>4, <2>1 DEF ReplayHeld
<1>8. ~integrity'[p].verified => \E i \in 1..integrity'[p].count : ~log[i].genuine
  BY <1>3, <1>4
<1> QED BY <1>1, <1>3, <1>4, <1>5, <1>6, <1>7, <1>8 DEF IntegrityHeld

\* A call is where its own steps bring it.
LEMMA FreshStep ==
  ASSUME IInv, Next, NEW p \in Prover
  PROVE  Fresh(p)'
<1>1. TypeOK /\ Fresh(p)
  BY DEF IInv
<1>2. CASE \E q \in Prover : ProofStep(q)
  <2>1. PICK q \in Prover : ProofStep(q)
    BY <1>2
  <2> QED BY <1>1, <2>1 DEF ProofStep, Call, Replay, Verify, LogUnreadable, Truncate, Running,
             WriteArtifact, Record, StepFails, Ends, Go, Fresh, TypeOK
<1>3. CASE UNCHANGED callVars
  BY <1>1, <1>3 DEF callVars, Fresh
<1> QED BY <1>2, <1>3 DEF Next, OtherAppends, AppendFails, Tamper

\* What a call has replayed and verified stays held.
LEMMA HeldStep ==
  ASSUME IInv, TypeOK', Extended, Next, NEW p \in Prover
  PROVE  ReplayHeld(p)' /\ IntegrityHeld(p)'
<1>1. TypeOK /\ Fresh(p) /\ ReplayHeld(p) /\ IntegrityHeld(p)
  BY DEF IInv
<1>2. CASE Replay(p)
  BY <1>1, <1>2, ReplayReads
<1>3. CASE Verify(p)
  BY <1>1, <1>3, VerifyCovers
<1>4. CASE ~Replay(p) /\ ~Verify(p)
  <2>1. events'[p] = events[p] /\ integrity'[p] = integrity[p]
    <3>1. CASE \E q \in Prover : ProofStep(q)
      <4>1. PICK q \in Prover : ProofStep(q)
        BY <3>1
      <4> QED BY <1>1, <1>4, <4>1 DEF ProofStep, Call, Replay, Verify, LogUnreadable,
                 Truncate, WriteArtifact, Record, StepFails, TypeOK
    <3>2. CASE UNCHANGED callVars
      BY <3>2 DEF callVars
    <3> QED BY <3>1, <3>2 DEF Next, OtherAppends, AppendFails, Tamper
  <2>2. HasVerified(p)' => HasVerified(p)
    <3>1. CASE \E q \in Prover : ProofStep(q)
      <4>1. PICK q \in Prover : ProofStep(q)
        BY <3>1
      <4>2. CASE q = p
        BY <1>1, <1>4, <4>1, <4>2 DEF ProofStep, Call, LogUnreadable, HasVerified, Fresh,
           Truncate, WriteArtifact, Record, StepFails, Ends, Go, TypeOK
      <4>3. CASE q # p
        <5>1. pc'[p] = pc[p] /\ answer'[p] = answer[p]
          BY <1>1, <4>1, <4>3 DEF ProofStep, Call, Replay, Verify, LogUnreadable,
             Truncate, WriteArtifact, Record, StepFails, Ends, Go, TypeOK
        <5> QED BY <5>1 DEF HasVerified
      <4> QED BY <4>2, <4>3
    <3>2. CASE UNCHANGED callVars
      BY <3>2 DEF callVars, HasVerified
    <3> QED BY <3>1, <3>2 DEF Next, OtherAppends, AppendFails, Tamper
  <2> QED BY <1>1, <2>1, <2>2, HeldStays
<1> QED BY <1>2, <1>3, <1>4

----------------------------------------------------------------------------
(* Calls beside each other.                                                *)

\* A call that begins beside another marks both; the others only end.
LEMMA AloneStep ==
  ASSUME IInv, Next, NEW p \in Prover
  PROVE  Alone(p)'
<1>1. TypeOK /\ Alone(p)
  BY DEF IInv
<1>2. CASE \E q \in Prover : Call(q)
  <2>1. PICK q \in Prover : Call(q)
    BY <1>2
  <2>2. Running' \subseteq Running \cup {q} /\ latest' = q
    BY <1>1, <2>1 DEF Call, Go, Running, TypeOK
  <2>3. SUFFICES ASSUME p \notin overlapped'
                 PROVE  (p \in Running' => q = p) /\ (q = p => Running' \subseteq {p})
    BY <2>2 DEF Alone
  <2>4. CASE Running = {}
    BY <2>2, <2>4
  <2>5. CASE Running # {}
    BY <2>1, <2>2, <2>3, <2>5 DEF Call
  <2> QED BY <2>4, <2>5
<1>3. CASE \E q \in Prover : ProofStep(q) /\ ~Call(q)
  <2>1. PICK q \in Prover : ProofStep(q) /\ ~Call(q)
    BY <1>3
  <2>2. overlapped' = overlapped /\ latest' = latest /\ Running' \subseteq Running
    BY <1>1, <2>1 DEF ProofStep, Replay, Verify, LogUnreadable, Truncate, WriteArtifact, Record,
       StepFails, Ends, Go, Running, TypeOK
  <2> QED BY <1>1, <2>2 DEF Alone
<1>4. CASE UNCHANGED <<callVars, overlapped, latest>>
  BY <1>1, <1>4 DEF callVars, Alone, Running
<1> QED BY <1>2, <1>3, <1>4 DEF Next, OtherAppends, AppendFails, Tamper

\* The artifacts of the newest call, when none overlaps it, are written by it
\* alone, one after the other.
LEMMA ArtifactsStep ==
  ASSUME IInv, Next, NEW p \in Prover
  PROVE  ArtifactsHeld(p)'
<1>1. TypeOK /\ Fresh(p) /\ Alone(p) /\ ArtifactsHeld(p)
  BY DEF IInv
<1>2. Len(Artifacts) = 3 /\ DOMAIN Artifacts = 1..3 /\ DOMAIN files = 1..3 /\ artifact[p] \in 1..3
  BY <1>1 DEF Artifacts, TypeOK
<1>3. CASE \E q \in Prover : Call(q)
  <2>1. PICK q \in Prover : Call(q)
    BY <1>3
  <2>2. /\ files' = files /\ artifact' = artifact /\ answer' = answer
        /\ pc' = [pc EXCEPT ![q] = "replay"] /\ latest' = q /\ pc[q] = "new"
    BY <2>1 DEF Call, Go
  <2>3. latest' = p => pc'[p] = "replay" /\ answer'[p] = "none"
    BY <1>1, <2>2 DEF TypeOK, Fresh
  <2> QED BY <2>3 DEF ArtifactsHeld
<1>4. CASE Truncate(p)
  <2>1. /\ files' = [files EXCEPT ![artifact[p]] = "cut"] /\ artifact' = artifact
        /\ answer' = answer /\ pc[p] = "truncate" /\ pc'[p] = "write"
        /\ overlapped' = overlapped /\ latest' = latest
    BY <1>1, <1>4 DEF Truncate, Go, TypeOK
  <2>2. answer'[p] # "ok"
    BY <1>1, <2>1 DEF Fresh
  <2>3. files'[artifact[p]] = "cut"
    BY <1>2, <2>1
  <2>4. \A i \in 1..(artifact[p] - 1) : files'[i] = files[i]
    BY <1>2, <2>1
  <2> QED BY <1>1, <2>1, <2>2, <2>3, <2>4 DEF ArtifactsHeld
<1>5. CASE WriteArtifact(p)
  <2> DEFINE i == artifact[p]
  <2>1. PICK now \in {p} \cup IF files[i] = "cut" THEN {} ELSE {"mixed"} :
          files' = [files EXCEPT ![i] = now]
    BY <1>5 DEF WriteArtifact
  <2>2. /\ pc[p] = "write" /\ overlapped' = overlapped /\ latest' = latest /\ answer' = answer
        /\ artifact'[p] = (IF i = 3 THEN i ELSE i + 1)
        /\ pc'[p] = (IF i = 3 THEN "record" ELSE "truncate")
    BY <1>1, <1>2, <1>5 DEF WriteArtifact, Go, TypeOK
  <2>3. answer'[p] # "ok"
    BY <1>1, <2>2 DEF Fresh
  <2> SUFFICES ASSUME p \notin overlapped, latest = p
               PROVE  /\ pc'[p] \in {"truncate", "write"} =>
                           \A j \in 1..(artifact'[p] - 1) : files'[j] = p
                      /\ pc'[p] = "write" => files'[artifact'[p]] = "cut"
                      /\ pc'[p] = "record" \/ answer'[p] = "ok" =>
                           \A j \in DOMAIN files' : files'[j] = p
    BY <2>2 DEF ArtifactsHeld
  <2>4. files[i] = "cut" /\ \A j \in 1..(i - 1) : files[j] = p
    BY <1>1, <2>2 DEF ArtifactsHeld
  <2>5. now = p
    BY <2>1, <2>4
  <2>6. i \in 1..3 /\ DOMAIN files' = 1..3
    BY <1>2, <2>1
  <2>7. \A j \in 1..i : files'[j] = p
    <3> TAKE j \in 1..i
    <3>1. CASE j = i
      BY <1>2, <2>1, <2>5, <3>1
    <3>2. CASE j # i
      <4>1. j \in 1..(i - 1) /\ j \in 1..3
        BY <2>6, <3>2
      <4> QED BY <1>2, <2>1, <2>4, <3>2, <4>1
    <3> QED BY <3>1, <3>2
  <2> HIDE DEF i
  <2>8. CASE i = 3
    BY <2>2, <2>3, <2>6, <2>7, <2>8
  <2>9. CASE i # 3
    <3>1. artifact'[p] - 1 = i
      BY <2>2, <2>6, <2>9
    <3> QED BY <2>2, <2>3, <2>7, <2>9, <3>1
  <2> QED BY <2>8, <2>9
<1>6. CASE \E q \in Prover \ {p} : Truncate(q) \/ WriteArtifact(q)
  <2>1. PICK q \in Prover \ {p} : Truncate(q) \/ WriteArtifact(q)
    BY <1>6
  <2>2. q \in Running /\ overlapped' = overlapped /\ latest' = latest
    BY <2>1 DEF Truncate, WriteArtifact, Running
  <2> QED BY <1>1, <2>2 DEF Alone, ArtifactsHeld
<1>7. CASE \E q \in Prover : ProofStep(q) /\ ~Call(q) /\ ~Truncate(q) /\ ~WriteArtifact(q)
  <2>1. PICK q \in Prover : ProofStep(q) /\ ~Call(q) /\ ~Truncate(q) /\ ~WriteArtifact(q)
    BY <1>7
  <2>2. UNCHANGED <<files, artifact, overlapped, latest>>
    BY <2>1 DEF ProofStep, Replay, Verify, LogUnreadable, Record, StepFails
  <2>3. CASE Verify(q)
    <3>1. pc' = [pc EXCEPT ![q] = "truncate"] /\ answer' = answer /\ pc[q] = "verify"
      BY <2>3 DEF Verify, Go
    <3>2. q = p => artifact[p] = 1 /\ pc'[p] = "truncate" /\ answer[p] = "none"
      BY <1>1, <3>1 DEF Fresh, TypeOK
    <3>3. q # p => pc'[p] = pc[p]
      BY <1>1, <3>1 DEF TypeOK
    <3>4. 1..(1 - 1) = {}
      OBVIOUS
    <3> QED BY <1>1, <2>2, <3>1, <3>2, <3>3, <3>4 DEF ArtifactsHeld
  <2>4. CASE ~Verify(q)
    BY <1>1, <2>1, <2>2, <2>4 DEF ProofStep, Replay, LogUnreadable, Record, StepFails, Ends, Go,
       Fresh, ArtifactsHeld, TypeOK
  <2> QED BY <2>3, <2>4
<1>8. CASE UNCHANGED <<callVars, files, overlapped, latest>>
  BY <1>1, <1>8 DEF callVars, ArtifactsHeld
<1> QED BY <1>3, <1>4, <1>5, <1>6, <1>7, <1>8
        DEF Next, ProofStep, OtherAppends, AppendFails, Tamper

\* Events keep who appended them, and a call appends its own behind all those
\* its verification saw.
LEMMA EventStep ==
  ASSUME IInv, TypeOK', Next, NEW p \in Prover
  PROVE  EventHeld(p)'
<1>1. TypeOK /\ Fresh(p) /\ IntegrityHeld(p) /\ EventHeld(p)
  BY DEF IInv
<1>2. CASE Record(p)
  <2> DEFINE e == [content |-> NoContent, genuine |-> TRUE, by |-> p]
  <2>1. /\ pc[p] = "record" /\ answer'[p] = "ok" /\ integrity' = integrity
        /\ log' = Append(log, e)
    BY <1>1, <1>2 DEF Record, Ends, TypeOK
  <2>2. e \in Event /\ e.by = p
    BY Events
  <2> HIDE DEF e
  <2>3. /\ DOMAIN log' = 1..(Len(log) + 1) /\ DOMAIN log = 1..Len(log) /\ Len(log) \in Nat
        /\ \A i \in DOMAIN log : log'[i] = log[i]
        /\ log'[Len(log) + 1] = e
    BY <1>1, <2>1, <2>2, Grows DEF TypeOK
  <2>4. \A i \in DOMAIN log : log[i].by # p
    BY <1>1, <2>1 DEF EventHeld, Fresh
  <2>5. integrity[p].count \in Nat /\ integrity[p].count <= Len(log)
    BY <1>1, <2>1 DEF IntegrityHeld, HasVerified, Integrity
  <2>6. \A i \in DOMAIN log' : i \in DOMAIN log \/ i = Len(log) + 1
    BY <2>3
  <2>7. \A i \in DOMAIN log' : log'[i].by = p => i = Len(log) + 1
    BY <2>3, <2>4, <2>6
  <2>8. Len(log) + 1 \in DOMAIN log' /\ Len(log) + 1 > integrity[p].count
    BY <2>3, <2>5
  <2> QED BY <2>1, <2>2, <2>3, <2>7, <2>8 DEF EventHeld
<1>3. CASE ~Record(p)
  <2>1. (answer'[p] = "ok" <=> answer[p] = "ok") /\ (answer[p] = "ok" => integrity'[p] = integrity[p])
    <3>1. CASE \E q \in Prover : ProofStep(q)
      <4>1. PICK q \in Prover : ProofStep(q)
        BY <3>1
      <4> QED BY <1>1, <1>3, <4>1 DEF ProofStep, Call, Replay, Verify, LogUnreadable, Running,
                 Truncate, WriteArtifact, Record, StepFails, Ends, Fresh, TypeOK
    <3>2. CASE UNCHANGED callVars
      BY <3>2 DEF callVars
    <3> QED BY <3>1, <3>2 DEF Next, OtherAppends, AppendFails, Tamper
  <2> DEFINE Kept == /\ \A i \in DOMAIN log : i \in DOMAIN log' /\ log'[i].by = log[i].by
                     /\ \A i \in DOMAIN log' : i \notin DOMAIN log => log'[i].by # p
  <2>2. Kept
    <3>1. CASE log' = log
      BY <3>1
    <3>2. CASE \E e \in Event : log' = Append(log, e) /\ e.by # p
      <4>1. PICK e \in Event : log' = Append(log, e) /\ e.by # p
        BY <3>2
      <4>2. /\ DOMAIN log' = 1..(Len(log) + 1) /\ DOMAIN log = 1..Len(log) /\ Len(log) \in Nat
            /\ \A i \in DOMAIN log : log'[i] = log[i]
            /\ log'[Len(log) + 1] = e
        BY <1>1, <4>1, Grows DEF TypeOK
      <4>3. \A i \in DOMAIN log' : i \notin DOMAIN log => i = Len(log) + 1
        BY <4>2
      <4>4. \A i \in DOMAIN log : i \in DOMAIN log'
        BY <4>2
      <4> HIDE DEF Event
      <4> QED BY <4>1, <4>2, <4>3, <4>4
    <3>3. CASE \E k \in DOMAIN log : Tamper(k)
      BY <1>1, <3>3, Spoils DEF Tamper
    <3>4. CASE \E c \in Content : OtherAppends(c)
      BY <3>2, <3>4, Events, ProofAssumption DEF OtherAppends
    <3>5. CASE \E q \in Prover \ {p} : Record(q)
      BY <3>2, <3>5, Events DEF Record
    <3> QED BY <1>3, <3>1, <3>3, <3>4, <3>5 DEF Next, ProofStep, Call, Replay, Verify,
               LogUnreadable, Truncate, WriteArtifact, StepFails, AppendFails
  <2> HIDE DEF Kept
  <2>3. CASE answer[p] = "ok"
    <3>1. PICK k \in DOMAIN log : /\ log[k].by = p /\ k > integrity[p].count
                                  /\ \A i \in DOMAIN log : log[i].by = p => i = k
      BY <1>1, <2>3 DEF EventHeld
    <3>2. k \in DOMAIN log' /\ log'[k].by = p /\ \A i \in DOMAIN log' : log'[i].by = p => i = k
      BY <2>2, <3>1 DEF Kept
    <3> QED BY <2>1, <2>3, <3>1, <3>2 DEF EventHeld
  <2>4. CASE answer[p] # "ok"
    BY <1>1, <2>1, <2>2, <2>4 DEF EventHeld, Kept
  <2> QED BY <2>3, <2>4
<1> QED BY <1>2, <1>3

----------------------------------------------------------------------------
(* The theorems.                                                           *)

\* A log that is empty holds everything.
LEMMA InitIInv == Init => IInv
<1> SUFFICES ASSUME Init PROVE IInv
  OBVIOUS
<1>1. TypeOK
  <2>1. 1 \in DOMAIN Artifacts
    BY DEF Artifacts
  <2>2. << >> \in Seq(Event)
    OBVIOUS
  <2>3. 0 \in 0..MaxEvents /\ 0 \in 0..MaxFaults
    BY ProofAssumption
  <2> QED BY <2>1, <2>2, <2>3 DEF Init, TypeOK
<1>2. \A p \in Prover : /\ pc[p] = "new" /\ artifact[p] = 1 /\ integrity[p] = None
                        /\ answer[p] = "none" /\ events[p] = << >>
  BY DEF Init
<1>3. log = << >> /\ DOMAIN log = {} /\ Len(log) = 0 /\ Running = {}
  BY <1>2 DEF Init, Running
<1>4. DOMAIN << >> = {} /\ Len(<< >>) = 0
  OBVIOUS
<1>5. \A p \in Prover : Fresh(p) /\ ReplayHeld(p) /\ EventHeld(p)
  BY <1>2, <1>3, <1>4 DEF Fresh, ReplayHeld, EventHeld
<1>6. \A p \in Prover : IntegrityHeld(p) /\ ArtifactsHeld(p)
  BY <1>2 DEF IntegrityHeld, HasVerified, ArtifactsHeld
<1>7. \A p \in Prover : Alone(p)
  BY <1>3 DEF Alone
<1> QED BY <1>1, <1>5, <1>6, <1>7 DEF IInv

\* Every step keeps the invariant.
LEMMA NextIInv == IInv /\ [Next]_vars => IInv'
<1> SUFFICES ASSUME IInv, [Next]_vars PROVE IInv'
  OBVIOUS
<1>1. TypeOK
  BY DEF IInv
<1>2. TypeOK' /\ Extended
  BY <1>1, Types
<1>3. CASE Next
  BY <1>2, <1>3, FreshStep, HeldStep, AloneStep, ArtifactsStep, EventStep DEF IInv
<1>4. CASE UNCHANGED vars
  BY <1>2, <1>4 DEF IInv, vars, Fresh, ReplayHeld, IntegrityHeld, HasVerified, Alone, Running,
     ArtifactsHeld, EventHeld
<1> QED BY <1>3, <1>4

\* The invariant holds in every state a behaviour reaches.
THEOREM InvariantHolds == Spec => []IInv
<1> QED BY InitIInv, NextIInv, PTL DEF Spec

\* Every variable stays in its type.
THEOREM TypeCorrect == Spec => []TypeOK
<1>1. IInv => TypeOK
  BY DEF IInv
<1> QED BY <1>1, InvariantHolds, PTL

\* A bundle that says "verified" summarises only events that are as they were
\* written, a first part of those that were verified, and none twice; one that
\* does not is of a log that was edited.
THEOREM Verification == Spec => []VerifiedCoversBundle
<1>1. IInv => VerifiedCoversBundle
  BY DEF IInv, VerifiedCoversBundle, Verified, IntegrityHeld, ReplayHeld
<1> QED BY <1>1, InvariantHolds, PTL

\* The newest proof that was answered and that no other overlapped left its own
\* bundle in all three artifacts, and any that was answered left one Proof event
\* behind what its bundle summarises.
THEOREM Bundles == Spec => []ArtifactsAreTheAnswer
<1>1. IInv => ArtifactsAreTheAnswer
  <2> SUFFICES ASSUME IInv, NEW p \in Prover \ overlapped, answer[p] = "ok"
               PROVE  /\ latest = p => \A i \in DOMAIN files : files[i] = p
                      /\ Cardinality({i \in DOMAIN log : log[i].by = p}) = 1
                      /\ \A i \in DOMAIN log : log[i].by = p => i > integrity[p].count
    BY DEF ArtifactsAreTheAnswer
  <2>1. latest = p => \A i \in DOMAIN files : files[i] = p
    BY DEF IInv, ArtifactsHeld
  <2>2. PICK k \in DOMAIN log : /\ log[k].by = p /\ k > integrity[p].count
                                /\ \A i \in DOMAIN log : log[i].by = p => i = k
    BY DEF IInv, EventHeld
  <2>3. {i \in DOMAIN log : log[i].by = p} = {k}
    BY <2>2
  <2> QED BY <2>1, <2>2, <2>3, FS_Singleton
<1> QED BY <1>1, InvariantHolds, PTL

----------------------------------------------------------------------------
(* The summary is right, event by event.                                   *)

\* A set of natural numbers has a least element.
LEMMA LeastElement ==
  ASSUME NEW S \in SUBSET Nat, S # {}
  PROVE  \E m \in S : \A n \in S : m <= n
<1> DEFINE heads == {0..n : n \in S}
           within == StrictSubsetOrdering(Nat)
<1>1. \A n \in Nat : 0..n \in FiniteSubsetsOf(Nat)
  BY FS_Interval DEF FiniteSubsetsOf
<1>2. heads \subseteq FiniteSubsetsOf(Nat) /\ heads # {}
  BY <1>1
<1>3. IsWellFoundedOn(within, FiniteSubsetsOf(Nat))
  BY FS_StrictSubsetOrderingWellFounded
<1>4. \E x \in heads : \A y \in heads : ~ (<<y, x>> \in within)
  <2> HIDE DEF heads, within
  <2> QED BY <1>2, <1>3, WFMin
<1>5. PICK m \in S : \A n \in S : ~ (<<0..n, 0..m>> \in within)
  BY <1>4
<1>6. ASSUME NEW n \in S, n < m PROVE FALSE
  <2>1. <<0..n, 0..m>> \in within
    BY <1>6 DEF StrictSubsetOrdering
  <2> QED BY <1>5, <2>1
<1> QED BY <1>6

\* The bundle is the last of the summaries that the loop goes through.
LEMMA Unrolled ==
  ASSUME NEW es, Len(es) \in Nat
  PROVE  \E f : /\ f[0] = NoSummary
                /\ \A n \in 1..Len(es) : f[n] = Summarise(f[n - 1], es[n].content)
                /\ Bundle(es) = f[Len(es)]
<1> DEFINE Unrolls(f, k) == f = [n \in 0..k |-> IF n = 0 THEN NoSummary
                                               ELSE Summarise(f[n - 1], es[n].content)]
           Stuck == {k \in 0..Len(es) : \A f : ~Unrolls(f, k)}
<1>1. Stuck = {}
  <2> SUFFICES ASSUME Stuck # {} PROVE FALSE
    OBVIOUS
  <2>1. PICK k \in Stuck : \A m \in Stuck : k <= m
    <3>1. Stuck \in SUBSET Nat
      OBVIOUS
    <3> HIDE DEF Stuck
    <3> QED BY <3>1, LeastElement
  <2>2. k # 0
    <3> DEFINE f == [n \in 0..0 |-> NoSummary]
    <3>1. Unrolls(f, 0)
      OBVIOUS
    <3> QED BY <3>1
  <2>3. k \in 1..Len(es) /\ k - 1 \in 0..Len(es) /\ k - 1 \notin Stuck
    BY <2>1, <2>2
  <2>4. PICK f : Unrolls(f, k - 1)
    BY <2>3
  <2> DEFINE next == Summarise(f[k - 1], es[k].content)
             g == [n \in 0..k |-> IF n = k THEN next ELSE f[n]]
  <2>5. f[0] = NoSummary /\ \A n \in 1..(k - 1) : f[n] = Summarise(f[n - 1], es[n].content)
    <3>1. \A n \in 0..(k - 1) : f[n] = IF n = 0 THEN NoSummary
                                       ELSE Summarise(f[n - 1], es[n].content)
      BY <2>4
    <3> HIDE DEF Unrolls
    <3> QED BY <2>3, <3>1
  <2>6. ASSUME NEW n \in 0..k
        PROVE  g[n] = IF n = 0 THEN NoSummary ELSE Summarise(g[n - 1], es[n].content)
    <3>1. CASE n = 0
      BY <2>3, <2>5, <3>1
    <3>2. CASE n \in 1..(k - 1)
      <4>1. g[n] = f[n] /\ g[n - 1] = f[n - 1]
        BY <2>3, <3>2
      <4> HIDE DEF g, next
      <4> QED BY <2>5, <3>2, <4>1
    <3>3. CASE n = k
      <4>1. g[n] = next /\ g[n - 1] = f[n - 1] /\ n # 0
        BY <2>3, <3>3
      <4> HIDE DEF g
      <4> QED BY <3>3, <4>1
    <3> QED BY <2>3, <2>6, <3>1, <3>2, <3>3
  <2>7. Unrolls(g, k)
    <3>1. g = [n \in 0..k |-> g[n]]
      OBVIOUS
    <3> HIDE DEF g
    <3> QED BY <2>6, <3>1
  <2> HIDE DEF g, Unrolls
  <2> QED BY <2>1, <2>7
<1> DEFINE s == CHOOSE f : Unrolls(f, Len(es))
<1>2. Unrolls(s, Len(es))
  <2>1. \E f : Unrolls(f, Len(es))
    BY <1>1
  <2> HIDE DEF Unrolls
  <2> QED BY <2>1
<1>3. Bundle(es) = s[Len(es)]
  BY DEF Bundle
<1>4. \A n \in 0..Len(es) : s[n] = IF n = 0 THEN NoSummary ELSE Summarise(s[n - 1], es[n].content)
  <2> HIDE DEF s
  <2> QED BY <1>2
<1> HIDE DEF s, Unrolls
<1>5. s[0] = NoSummary /\ \A n \in 1..Len(es) : s[n] = Summarise(s[n - 1], es[n].content)
  BY <1>4
<1> QED BY <1>3, <1>5

\* A summary has the six parts of NoSummary.
IsSummary(s) ==
  s = [commands |-> s.commands, changed |-> s.changed, flags |-> s.flags,
       status |-> s.status, diff |-> s.diff, screen |-> s.screen]

\* What one event does to each part of a summary.
LEMMA Summarised ==
  ASSUME NEW s, IsSummary(s), NEW c
  PROVE  LET next == Summarise(s, c) IN
         /\ IsSummary(next)
         /\ next.commands = IF IsCommand(c) THEN Append(s.commands, c.text) ELSE s.commands
         /\ next.changed = IF c.git = None THEN s.changed ELSE Put(s.changed, Changes(c.git))
         /\ next.status = IF c.git = None THEN s.status ELSE c.git.status
         /\ next.diff = IF c.git = None THEN s.diff ELSE c.git.diff
         /\ next.screen = IF Shows(c) THEN Shown(c) ELSE s.screen
         /\ next.flags = s.flags \cup FlagsOf(c)
<1> DEFINE g == WithGit(s, c.git)
<1>1. /\ IsSummary(g)
      /\ g.commands = s.commands /\ g.screen = s.screen /\ g.flags = s.flags
      /\ g.changed = IF c.git = None THEN s.changed ELSE Put(s.changed, Changes(c.git))
      /\ g.status = IF c.git = None THEN s.status ELSE c.git.status
      /\ g.diff = IF c.git = None THEN s.diff ELSE c.git.diff
  BY DEF WithGit, IsSummary
<1> HIDE DEF g
<1>2. CASE IsCommand(c)
  <2>1. Summarise(s, c) = [g EXCEPT !.commands = Append(@, c.text)]
    BY <1>2 DEF Summarise, IsCommand, g
  <2>2. ~Shows(c) /\ FlagsOf(c) = {}
    BY <1>2 DEF IsCommand, Shows, FlagsOf
  <2> QED BY <1>1, <1>2, <2>1, <2>2 DEF IsSummary
<1>3. CASE c.type \in {"denied", "approved"}
  <2>1. Summarise(s, c) = [g EXCEPT !.flags = @ \cup {<<c.type, c.text>>}]
    BY <1>3 DEF Summarise, g
  <2>2. ~Shows(c) /\ ~IsCommand(c) /\ FlagsOf(c) = {<<c.type, c.text>>}
    BY <1>3 DEF IsCommand, Shows, FlagsOf
  <2> QED BY <1>1, <2>1, <2>2 DEF IsSummary
<1>4. CASE c.type = "observation"
  <2>1. Summarise(s, c) = Observed(g, c)
    BY <1>4 DEF Summarise, g
  <2>2. ~IsCommand(c) /\ (Shows(c) <=> (c.screen # None \/ c.stdout # ""))
    BY <1>4 DEF IsCommand, Shows
  <2>3. FlagsOf(c) = IF c.exit \in {None, 0} THEN {} ELSE {<<"exit", c.exit>>}
    BY <1>4 DEF FlagsOf
  <2>4. /\ IsSummary(Observed(g, c))
        /\ Observed(g, c).screen = IF Shows(c) THEN Shown(c) ELSE g.screen
        /\ Observed(g, c).flags = g.flags \cup FlagsOf(c)
        /\ Observed(g, c).commands = g.commands /\ Observed(g, c).changed = g.changed
        /\ Observed(g, c).status = g.status /\ Observed(g, c).diff = g.diff
    <3> DEFINE shown == IF c.screen # None THEN c.screen
                        ELSE IF c.stdout # "" THEN c.stdout ELSE g.screen
               flags == g.flags \cup IF c.exit \in {None, 0} THEN {} ELSE {<<"exit", c.exit>>}
    <3>1. Observed(g, c) = [g EXCEPT !.screen = shown, !.flags = flags]
      BY DEF Observed
    <3>2. shown = IF Shows(c) THEN Shown(c) ELSE g.screen
      BY <2>2 DEF Shown
    <3>3. flags = g.flags \cup FlagsOf(c)
      BY <2>3
    <3> HIDE DEF shown, flags
    <3>4. /\ Observed(g, c).screen = shown /\ Observed(g, c).flags = flags
          /\ Observed(g, c).commands = g.commands /\ Observed(g, c).changed = g.changed
          /\ Observed(g, c).status = g.status /\ Observed(g, c).diff = g.diff
          /\ IsSummary(Observed(g, c))
      BY <1>1, <3>1 DEF IsSummary
    <3> QED BY <3>2, <3>3, <3>4
  <2> QED BY <1>1, <2>1, <2>2, <2>4
<1>5. CASE ~IsCommand(c) /\ c.type \notin {"denied", "approved", "observation"}
  <2>1. Summarise(s, c) = g
    BY <1>5 DEF Summarise, IsCommand, g
  <2>2. ~Shows(c) /\ FlagsOf(c) = {}
    BY <1>5 DEF Shows, FlagsOf
  <2> QED BY <1>1, <1>5, <2>1, <2>2
<1> QED BY <1>2, <1>3, <1>4, <1>5

\* One more event is one more command, one more snapshot, one more screen, or none.
LEMMA OneMore ==
  ASSUME NEW es, NEW n \in Nat \ {0}
  PROVE  LET c == es[n].content IN
         /\ Commands(es, n) = Commands(es, n - 1) \cup IF IsCommand(c) THEN {n} ELSE {}
         /\ Snapshots(es, n) = Snapshots(es, n - 1) \cup IF c.git = None THEN {} ELSE {n}
         /\ Screens(es, n) = Screens(es, n - 1) \cup IF Shows(c) THEN {n} ELSE {}
<1>1. 1..n = 1..(n - 1) \cup {n} /\ n \notin 1..(n - 1)
  OBVIOUS
<1> QED BY <1>1 DEF Commands, Snapshots, Screens

\* The commands of a first part of the events can be counted.
LEMMA CommandsCount ==
  ASSUME NEW es, NEW n \in Nat
  PROVE  /\ IsFiniteSet(Commands(es, n)) /\ Cardinality(Commands(es, n)) \in Nat
         /\ \A i \in Commands(es, n) : /\ Cardinality(Commands(es, i)) \in Nat
                                       /\ 1 <= Cardinality(Commands(es, i))
                                       /\ Cardinality(Commands(es, i)) <= Cardinality(Commands(es, n))
<1>1. \A m \in Nat : IsFiniteSet(Commands(es, m)) /\ Cardinality(Commands(es, m)) \in Nat
  <2>1. ASSUME NEW m \in Nat PROVE IsFiniteSet(Commands(es, m))
    <3>1. IsFiniteSet(1..m) /\ Commands(es, m) \in SUBSET (1..m)
      BY FS_Interval DEF Commands
    <3> QED BY <3>1, FS_Subset
  <2> QED BY <2>1, FS_CardinalityType
<1>2. ASSUME NEW i \in Commands(es, n)
      PROVE  /\ 1 <= Cardinality(Commands(es, i))
             /\ Cardinality(Commands(es, i)) <= Cardinality(Commands(es, n))
  <2>1. i \in Nat /\ i \in Commands(es, i) /\ Commands(es, i) \in SUBSET Commands(es, n)
    BY DEF Commands
  <2>2. Cardinality(Commands(es, i)) # 0
    BY <1>1, <2>1, FS_EmptySet
  <2>3. Cardinality(Commands(es, i)) \in Nat
    BY <1>1, <2>1
  <2>4. Cardinality(Commands(es, i)) <= Cardinality(Commands(es, n))
    BY <1>1, <2>1, FS_Subset
  <2> QED BY <2>2, <2>3, <2>4
<1>3. \A i \in Commands(es, n) : i \in Nat
  BY DEF Commands
<1> QED BY <1>1, <1>2, <1>3

\* The body of the loop keeps the summary right: each part loses nothing of what
\* the events before said, but for what the new one replaces.
LEMMA RightStep ==
  ASSUME NEW es, NEW n \in Nat \ {0}, NEW Texts, es[n].content.text \in Texts,
         NEW s, IsSummary(s), s.commands \in Seq(Texts), RightSummary(s, es, n - 1)
  PROVE  LET next == Summarise(s, es[n].content) IN
         IsSummary(next) /\ next.commands \in Seq(Texts) /\ RightSummary(next, es, n)
<1> DEFINE c == es[n].content
           next == Summarise(s, c)
<1>1. /\ IsSummary(next)
      /\ next.commands = IF IsCommand(c) THEN Append(s.commands, c.text) ELSE s.commands
      /\ next.changed = IF c.git = None THEN s.changed ELSE Put(s.changed, Changes(c.git))
      /\ next.status = IF c.git = None THEN s.status ELSE c.git.status
      /\ next.diff = IF c.git = None THEN s.diff ELSE c.git.diff
      /\ next.screen = IF Shows(c) THEN Shown(c) ELSE s.screen
      /\ next.flags = s.flags \cup FlagsOf(c)
  BY Summarised
<1> HIDE DEF next
<1>2. /\ Commands(es, n) = Commands(es, n - 1) \cup IF IsCommand(c) THEN {n} ELSE {}
      /\ Snapshots(es, n) = Snapshots(es, n - 1) \cup IF c.git = None THEN {} ELSE {n}
      /\ Screens(es, n) = Screens(es, n - 1) \cup IF Shows(c) THEN {n} ELSE {}
  BY OneMore
<1>3. n - 1 \in Nat /\ n \notin 1..(n - 1) /\ 1..n = 1..(n - 1) \cup {n}
  OBVIOUS
<1>4. /\ next.commands \in Seq(Texts)
      /\ Len(next.commands) = Cardinality(Commands(es, n))
      /\ \A i \in Commands(es, n) :
           next.commands[Cardinality(Commands(es, i))] = es[i].content.text
  <2>1. /\ Len(s.commands) = Cardinality(Commands(es, n - 1))
        /\ \A i \in Commands(es, n - 1) :
             s.commands[Cardinality(Commands(es, i))] = es[i].content.text
    BY DEF RightSummary
  <2>2. CASE ~IsCommand(c)
    <3>1. next.commands = s.commands /\ Commands(es, n) = Commands(es, n - 1)
      BY <1>1, <1>2, <2>2
    <3> QED BY <2>1, <3>1
  <2>3. CASE IsCommand(c)
    <3>1. next.commands = Append(s.commands, c.text) /\ Commands(es, n) = Commands(es, n - 1) \cup {n}
      BY <1>1, <1>2, <2>3
    <3>2. n \notin Commands(es, n - 1)
      BY <1>3 DEF Commands
    <3>3. Cardinality(Commands(es, n)) = Cardinality(Commands(es, n - 1)) + 1
      BY <1>3, <3>1, <3>2, CommandsCount, FS_AddElement
    <3>4. /\ next.commands \in Seq(Texts) /\ Len(next.commands) = Len(s.commands) + 1
          /\ next.commands[Len(s.commands) + 1] = c.text
          /\ \A k \in 1..Len(s.commands) : next.commands[k] = s.commands[k]
      BY <3>1
    <3>5. \A i \in Commands(es, n - 1) : Cardinality(Commands(es, i)) \in 1..Len(s.commands)
      BY <1>3, <2>1, CommandsCount
    <3>6. \A i \in Commands(es, n) :
            next.commands[Cardinality(Commands(es, i))] = es[i].content.text
      BY <2>1, <3>1, <3>3, <3>4, <3>5
    <3> QED BY <2>1, <3>3, <3>4, <3>6
  <2> QED BY <2>2, <2>3
<1>5. IF Snapshots(es, n) = {} THEN next.status = None /\ next.diff = None
      ELSE \E i \in Snapshots(es, n) :
             /\ \A j \in Snapshots(es, n) : j <= i
             /\ next.status = es[i].content.git.status /\ next.diff = es[i].content.git.diff
  <2>1. CASE c.git = None
    <3>1. /\ Snapshots(es, n) = Snapshots(es, n - 1)
          /\ next.status = s.status /\ next.diff = s.diff
      BY <1>1, <1>2, <2>1
    <3> QED BY <3>1 DEF RightSummary
  <2>2. CASE c.git # None
    <3>1. n \in Snapshots(es, n) /\ \A j \in Snapshots(es, n) : j <= n
      BY <1>2, <2>2 DEF Snapshots
    <3>2. next.status = c.git.status /\ next.diff = c.git.diff
      BY <1>1, <2>2
    <3> QED BY <3>1, <3>2
  <2> QED BY <2>1, <2>2
<1>6. IF Screens(es, n) = {} THEN next.screen = ""
      ELSE \E i \in Screens(es, n) : /\ \A j \in Screens(es, n) : j <= i
                                     /\ next.screen = Shown(es[i].content)
  <2>1. CASE ~Shows(c)
    <3>1. Screens(es, n) = Screens(es, n - 1) /\ next.screen = s.screen
      BY <1>1, <1>2, <2>1
    <3> QED BY <3>1 DEF RightSummary
  <2>2. CASE Shows(c)
    <3>1. n \in Screens(es, n) /\ \A j \in Screens(es, n) : j <= n
      BY <1>2, <2>2 DEF Screens
    <3>2. next.screen = Shown(c)
      BY <1>1, <2>2
    <3> QED BY <3>1, <3>2
  <2> QED BY <2>1, <2>2
<1>7. next.changed = UNION {Lasting(es, i, n) : i \in 1..n}
  <2> DEFINE kept == {x \in s.changed : \A y \in Changes(c.git) : y[1] # x[1]}
  <2>1. s.changed = UNION {Lasting(es, i, n - 1) : i \in 1..(n - 1)}
    BY DEF RightSummary
  <2>2. Lasting(es, n, n) = Changes(c.git)
    BY DEF Lasting
  <2>3. \A i \in 1..(n - 1) :
          Lasting(es, i, n) = {x \in Lasting(es, i, n - 1) : \A y \in Changes(c.git) : y[1] # x[1]}
    <3>1. \A i \in 1..(n - 1) : (i + 1)..n = (i + 1)..(n - 1) \cup {n}
      OBVIOUS
    <3> QED BY <3>1 DEF Lasting
  <2>4. UNION {Lasting(es, i, n) : i \in 1..(n - 1)} = kept
    BY <2>1, <2>3
  <2>5. UNION {Lasting(es, i, n) : i \in 1..n} = kept \cup Changes(c.git)
    <3>1. {Lasting(es, i, n) : i \in 1..n}
            = {Lasting(es, i, n) : i \in 1..(n - 1)} \cup {Lasting(es, n, n)}
      BY <1>3, Zenon
    <3>2. UNION ({Lasting(es, i, n) : i \in 1..(n - 1)} \cup {Lasting(es, n, n)})
            = (UNION {Lasting(es, i, n) : i \in 1..(n - 1)}) \cup Lasting(es, n, n)
      BY Zenon
    <3> HIDE DEF kept
    <3> QED BY <2>2, <2>4, <3>1, <3>2, Zenon
  <2>6. next.changed = kept \cup Changes(c.git)
    <3>1. CASE c.git = None
      BY <1>1, <3>1 DEF Changes
    <3>2. CASE c.git # None
      BY <1>1, <3>2 DEF Put
    <3> QED BY <3>1, <3>2
  <2> QED BY <2>5, <2>6
<1>8. next.flags = UNION {FlagsOf(es[i].content) : i \in 1..n}
  <2>1. s.flags = UNION {FlagsOf(es[i].content) : i \in 1..(n - 1)}
    BY DEF RightSummary
  <2> QED BY <1>1, <1>3, <2>1
<1>9. RightSummary(next, es, n)
  BY <1>4, <1>5, <1>6, <1>7, <1>8 DEF RightSummary
<1> QED BY <1>1, <1>4, <1>9 DEF next

\* So it is right after any number of events.
LEMMA BundleRight ==
  ASSUME NEW es, Len(es) \in Nat
  PROVE  RightSummary(Bundle(es), es, Len(es))
<1> DEFINE Texts == {es[i].content.text : i \in 1..Len(es)}
<1>1. PICK f : /\ f[0] = NoSummary
               /\ \A n \in 1..Len(es) : f[n] = Summarise(f[n - 1], es[n].content)
               /\ Bundle(es) = f[Len(es)]
  BY Unrolled
<1> DEFINE Right(n) == /\ IsSummary(f[n]) /\ f[n].commands \in Seq(Texts)
                       /\ RightSummary(f[n], es, n)
           Wrong == {n \in 0..Len(es) : ~Right(n)}
<1>2. Right(0)
  <2>1. /\ f[0].commands = << >> /\ f[0].changed = {} /\ f[0].flags = {}
        /\ f[0].status = None /\ f[0].diff = None /\ f[0].screen = ""
    <3>1. /\ NoSummary.commands = << >> /\ NoSummary.changed = {} /\ NoSummary.flags = {}
          /\ NoSummary.status = None /\ NoSummary.diff = None /\ NoSummary.screen = ""
      BY DEF NoSummary
    <3>2. f[0] = NoSummary
      BY <1>1
    <3> QED BY <3>1, <3>2
  <2>2. IsSummary(f[0]) /\ f[0].commands \in Seq(Texts)
    <3>1. IsSummary(NoSummary)
      BY DEF NoSummary, IsSummary
    <3>2. f[0] = NoSummary
      BY <1>1
    <3> HIDE DEF Texts
    <3>3. << >> \in Seq(Texts)
      OBVIOUS
    <3> QED BY <2>1, <3>1, <3>2, <3>3
  <2>3. 1..0 = {}
    OBVIOUS
  <2>4. Commands(es, 0) = {} /\ Snapshots(es, 0) = {} /\ Screens(es, 0) = {}
    BY <2>3 DEF Commands, Snapshots, Screens
  <2>5. /\ UNION {Lasting(es, i, 0) : i \in 1..0} = {}
        /\ UNION {FlagsOf(es[i].content) : i \in 1..0} = {}
    BY <2>3
  <2>6. Cardinality(Commands(es, 0)) = 0 /\ Len(f[0].commands) = 0
    BY <2>1, <2>4, FS_EmptySet
  <2>7. RightSummary(f[0], es, 0)
    BY <2>1, <2>4, <2>5, <2>6 DEF RightSummary
  <2> QED BY <2>2, <2>7
<1>3. ASSUME NEW n \in 1..Len(es), Right(n - 1) PROVE Right(n)
  <2>1. f[n] = Summarise(f[n - 1], es[n].content) /\ es[n].content.text \in Texts
    BY <1>1
  <2>2. n \in Nat \ {0}
    OBVIOUS
  <2> HIDE DEF Texts
  <2> QED BY <1>3, <2>1, <2>2, RightStep
<1>4. Wrong = {}
  <2> SUFFICES ASSUME Wrong # {} PROVE FALSE
    OBVIOUS
  <2> HIDE DEF Right
  <2>1. PICK n \in Wrong : \A m \in Wrong : n <= m
    <3>1. Wrong \in SUBSET Nat
      OBVIOUS
    <3> HIDE DEF Wrong
    <3> QED BY <3>1, LeastElement
  <2>2. n \in 1..Len(es) /\ n - 1 \in 0..Len(es) /\ n - 1 \notin Wrong
    BY <1>2, <2>1
  <2> QED BY <1>3, <2>1, <2>2
<1>5. Right(Len(es))
  <2> HIDE DEF Right
  <2> QED BY <1>4
<1> QED BY <1>1, <1>5

\* Every bundle says what the events it was made of say (session.rs, proof).
THEOREM SummaryRight == Spec => []SummaryIsRight
<1>1. IInv => SummaryIsRight
  <2> SUFFICES ASSUME IInv, NEW p \in Prover
               PROVE  RightSummary(Bundle(events[p]), events[p], Len(events[p]))
    BY DEF SummaryIsRight, Verified
  <2>1. Len(events[p]) \in Nat
    <3>1. events[p] \in Seq(Event)
      BY DEF IInv, TypeOK
    <3> QED BY <3>1
  <2> QED BY <2>1, BundleRight
<1> QED BY <1>1, InvariantHolds, PTL
=============================================================================
