------------------------ MODULE EvidenceLog_proofs ------------------------
(***************************************************************************)
(* Proofs about EvidenceLog, for any number of events, threads, processes, *)
(* crashes and failed writes.                                              *)
(***************************************************************************)
EXTENDS EvidenceLog, SequenceTheorems, TLAPS

----------------------------------------------------------------------------
(* The inductive invariants.                                               *)

\* The hash the next event is chained to when the log verifies.
HeadHash(events) ==
  IF events = << >> THEN NoHash ELSE events[Len(events)].event_hash

\* ev carries the chain fields append computes from a log that verifies.
ChainedTo(ev, events) ==
  /\ ev.sequence = Len(events) + 1
  /\ ev.previous_hash = HeadHash(events)
  /\ ev.event_hash = EventHash(ev)

EventHeld == \A t \in Thread : pc[t] \in AppendPC => event[t] \in EvidenceEvent

\* One writer, and no reader beside it.
Locked ==
  /\ \A t \in Thread : pc[t] \in HoldsFlock => exclusive = t
  /\ \A t \in Thread : pc[t] = "load" => t \in shared
  /\ exclusive # NoThread => shared = {}

\* What the writer read is still what is in the file when it writes.
WriterReady ==
  \A t \in Thread :
    /\ pc[t] = "write" => tail \in {"clean", "whole"} /\ ChainedTo(event[t], log)
    /\ pc[t] = "body" => /\ tail \in {"torn", "glued"}
                         /\ tail = "torn" => ChainedTo(event[t], log)

WholeLine == tail = "whole" => log # << >>

IInv == /\ TypeOK
        /\ EventHeld
        /\ Locked
        /\ WriterReady
        /\ WholeLine
        /\ ChainIntact

\* Where the event of every append call is, at every point of the call: behind a
\* line that is spoilt it goes nowhere.
CallInv ==
  /\ \A t \in Thread : pc[t] \in AppendPC => fate[event[t].id] = "open"
  /\ \A t, u \in Thread :
       (pc[t] \in AppendPC /\ pc[u] \in AppendPC /\ event[t].id = event[u].id)
         => t = u
  /\ \A t \in Thread : pc[t] \in {"mutex", "flock", "read", "write", "body"}
                          => ~InLog(event[t].id)
  /\ \A t \in Thread : pc[t] = "newline" => tail \in {"whole", "glued"}
  /\ \A t \in Thread : pc[t] = "return" => tail \in {"clean", "glued"}
  /\ \A t \in Thread : pc[t] \in {"newline", "return"}
                          => (InLog(event[t].id) <=> tail # "glued")
  /\ \A i \in DOMAIN log : fate[log[i].id] # "new"

\* A line that lacks only its newline is still being written, or its append has
\* not succeeded.
LastLine ==
  tail = "whole" =>
    LET last == log[Len(log)].id
    IN  \/ fate[last] = "err"
        \/ \E t \in Thread : pc[t] \in {"newline", "fail"} /\ event[t].id = last

\* Every acknowledged event is in the file, once, but for the one of the append
\* that spoilt it; while that one runs none is missing.
Acknowledged ==
  /\ \A i, j \in DOMAIN log : log[i].id = log[j].id => i = j
  /\ \A e, f \in Event : Vanished(e) /\ Vanished(f) => tail = "glued" /\ e = f
  /\ \A t \in Thread : pc[t] \in {"body", "newline", "return"} =>
       \A e \in Event : ~Vanished(e)

DInv == IInv /\ CallInv /\ LastLine /\ Acknowledged

\* Without a fault a part of a line, or one without its newline, is being written.
FaultFree ==
  faults = 0 =>
    /\ tail # "glued"
    /\ tail = "torn" => \E t \in Thread : pc[t] = "body"
    /\ tail = "whole" => \E t \in Thread : pc[t] = "newline"
    /\ \A t \in Thread : pc[t] # "fail" /\ result[t].ok
    /\ \A e \in Event : fate[e] # "err"

\* Where no write can stop just before its newline, a line that lacks it is
\* still being written, and no line is ever spoilt.
NoGlue == /\ tail # "glued"
          /\ tail = "whole" => \E t \in Thread : pc[t] = "newline"

----------------------------------------------------------------------------
(* Lemmas about the operators of the hash chain.                           *)

\* The hash of an event is a hash, and never the empty one.
LEMMA EventHashType ==
  ASSUME NEW ev, ev.id \in Event, ev.sequence \in Nat, ev.previous_hash \in Hash
  PROVE  EventHash(ev) \in Hash /\ EventHash(ev) # NoHash
<1> DEFINE h == ev.previous_hash
           x == <<ev.id, ev.sequence>>
<1>1. h \in Seq(Event \X Nat) /\ x \in Event \X Nat
  BY DEF Hash
<1>2. EventHash(ev) = Append(h, x)
  BY DEF EventHash
<1> HIDE DEF h, x
<1>3. Append(h, x) \in Seq(Event \X Nat) /\ Append(h, x) # << >>
  BY <1>1, AppendProperties
<1> QED BY <1>2, <1>3 DEF Hash, NoHash

\* next_integrity_fields gives the successor of the length: the maximum of a
\* verified log's sequence numbers is its length.
LEMMA NextSequenceValue ==
  ASSUME NEW s \in Seq(EvidenceEvent), Verified(s)
  PROVE  NextSequence(s) = Len(s) + 1
<1> DEFINE S == {1} \cup {s[i].sequence + 1 : i \in DOMAIN s}
<1>1. \A i \in DOMAIN s : s[i].sequence = i
  BY DEF Verified, VerifiesAt
<1>2. DOMAIN s = 1..Len(s) /\ Len(s) \in Nat
  OBVIOUS
<1>3. Len(s) + 1 \in S
  <2>1. CASE Len(s) = 0
    BY <2>1
  <2>2. CASE Len(s) # 0
    <3>1. Len(s) \in DOMAIN s
      BY <1>2, <2>2
    <3>2. s[Len(s)].sequence + 1 = Len(s) + 1
      BY <1>1, <3>1
    <3> QED BY <3>1, <3>2
  <2> QED BY <2>1, <2>2
<1>4. \A y \in S : y \in Nat /\ Len(s) + 1 >= y
  <2> SUFFICES ASSUME NEW y \in S PROVE y \in Nat /\ Len(s) + 1 >= y
    OBVIOUS
  <2>1. CASE y = 1
    BY <1>2, <2>1
  <2>2. CASE \E i \in DOMAIN s : y = s[i].sequence + 1
    <3>1. PICK i \in DOMAIN s : y = s[i].sequence + 1
      BY <2>2
    <3> QED BY <1>1, <1>2, <3>1
  <2> QED BY <2>1, <2>2
<1>5. \E x \in S : \A y \in S : x >= y
  BY <1>3, <1>4
<1>6. Max(S) \in S /\ \A y \in S : Max(S) >= y
  <2> HIDE DEF S
  <2> QED BY <1>5 DEF Max
<1>7. Max(S) = Len(s) + 1
  <2> HIDE DEF S
  <2> QED BY <1>2, <1>3, <1>4, <1>6
<1> QED BY <1>7 DEF NextSequence

\* No event of a verified log has an empty hash.
LEMMA VerifiedHashes ==
  ASSUME NEW s \in Seq(EvidenceEvent), Verified(s), NEW i \in DOMAIN s
  PROVE  s[i].event_hash # NoHash
<1>1. s[i] \in EvidenceEvent
  OBVIOUS
<1>2. s[i].event_hash = EventHash(s[i])
  BY DEF Verified, VerifiesAt
<1> QED BY <1>1, <1>2, EventHashType DEF EvidenceEvent

\* ... so the last non-empty hash is the hash of the last event.
LEMMA LastHashValue ==
  ASSUME NEW s \in Seq(EvidenceEvent), Verified(s)
  PROVE  LastHash(s) = HeadHash(s)
<1> DEFINE H == {i \in DOMAIN s : s[i].event_hash # NoHash}
<1>1. H = 1..Len(s) /\ Len(s) \in Nat
  BY VerifiedHashes
<1>2. CASE Len(s) = 0
  <2>1. H = {} /\ s = << >>
    BY <1>1, <1>2
  <2> QED BY <2>1 DEF LastHash, HeadHash
<1>3. CASE Len(s) # 0
  <2>1. Len(s) \in H /\ \A y \in H : y \in Nat /\ Len(s) >= y
    BY <1>1, <1>3
  <2>2. Max(H) \in H /\ \A y \in H : Max(H) >= y
    <3> HIDE DEF H
    <3> QED BY <2>1 DEF Max
  <2>3. Max(H) = Len(s)
    <3> HIDE DEF H
    <3> QED BY <1>1, <2>1, <2>2
  <2>4. H # {} /\ s # << >>
    BY <2>1, <1>3
  <2> QED BY <2>3, <2>4 DEF LastHash, HeadHash
<1> QED BY <1>1, <1>2, <1>3

\* What append makes of an event continues the chain it was computed from.
LEMMA ChainContinues ==
  ASSUME NEW s \in Seq(EvidenceEvent), Verified(s), NEW ev \in EvidenceEvent
  PROVE  /\ Chain(ev, s) \in EvidenceEvent
         /\ Chain(ev, s).id = ev.id
         /\ ChainedTo(Chain(ev, s), s)
<1> DEFINE L == [ev EXCEPT !.sequence = NextSequence(s),
                           !.previous_hash = LastHash(s)]
<1>1. NextSequence(s) = Len(s) + 1 /\ NextSequence(s) \in Nat
  BY NextSequenceValue
<1>2. LastHash(s) = HeadHash(s)
  BY LastHashValue
<1>3. HeadHash(s) \in Hash
  <2>1. CASE s = << >>
    BY <2>1 DEF HeadHash, NoHash, Hash
  <2>2. CASE s # << >>
    <3>1. Len(s) \in DOMAIN s
      BY <2>2
    <3>2. s[Len(s)] \in EvidenceEvent
      BY <3>1
    <3> QED BY <2>2, <3>2 DEF HeadHash, EvidenceEvent
  <2> QED BY <2>1, <2>2
<1>4. /\ L \in EvidenceEvent
      /\ L.id = ev.id
      /\ L.sequence = Len(s) + 1
      /\ L.previous_hash = HeadHash(s)
  BY <1>1, <1>2, <1>3 DEF EvidenceEvent
<1>5. EventHash(L) \in Hash
  BY <1>4, EventHashType DEF EvidenceEvent
<1>6. Chain(ev, s) = [L EXCEPT !.event_hash = EventHash(L)]
  BY DEF Chain
<1> HIDE DEF L
<1>7. /\ Chain(ev, s) \in EvidenceEvent
      /\ Chain(ev, s).id = ev.id
      /\ Chain(ev, s).sequence = L.sequence
      /\ Chain(ev, s).previous_hash = L.previous_hash
      /\ Chain(ev, s).id = L.id
      /\ Chain(ev, s).event_hash = EventHash(L)
  BY <1>4, <1>5, <1>6 DEF EvidenceEvent
<1>8. EventHash(Chain(ev, s)) = EventHash(L)
  BY <1>7 DEF EventHash
<1> QED BY <1>4, <1>7, <1>8 DEF ChainedTo

\* Appending such an event keeps the log verified.
LEMMA VerifiedAppend ==
  ASSUME NEW s \in Seq(EvidenceEvent), Verified(s), NEW ev \in EvidenceEvent,
         ChainedTo(ev, s)
  PROVE  Verified(Append(s, ev))
<1> DEFINE a == Append(s, ev)
<1>1. /\ a \in Seq(EvidenceEvent)
      /\ Len(a) = Len(s) + 1
      /\ DOMAIN a = 1..(Len(s) + 1)
      /\ \A i \in 1..Len(s) : a[i] = s[i]
      /\ a[Len(s) + 1] = ev
  OBVIOUS
<1> HIDE DEF a
<1> SUFFICES ASSUME NEW i \in DOMAIN a PROVE VerifiesAt(a, i)
  BY DEF Verified, a
<1>2. CASE i \in 1..Len(s)
  <2>1. VerifiesAt(s, i)
    BY <1>2 DEF Verified
  <2>2. i # 1 => i - 1 \in 1..Len(s)
    BY <1>2
  <2> QED BY <1>1, <1>2, <2>1, <2>2 DEF VerifiesAt
<1>3. CASE i = Len(s) + 1
  <2>1. CASE s = << >>
    BY <1>1, <1>3, <2>1 DEF ChainedTo, HeadHash, VerifiesAt
  <2>2. CASE s # << >>
    <3>1. Len(s) \in 1..Len(s) /\ i - 1 = Len(s) /\ i # 1
      BY <1>3, <2>2
    <3> QED BY <1>1, <1>3, <2>2, <3>1 DEF ChainedTo, HeadHash, VerifiesAt
  <2> QED BY <2>1, <2>2
<1> QED BY <1>1, <1>2, <1>3

\* The events in front of the last one.
LEMMA FrontElements ==
  ASSUME NEW S, NEW s \in Seq(S), s # << >>
  PROVE  /\ Front(s) \in Seq(S)
         /\ Len(Front(s)) = Len(s) - 1
         /\ \A i \in 1..(Len(s) - 1) : Front(s)[i] = s[i]
<1> DEFINE n == Len(s) - 1
<1>1. n \in Nat /\ \A i \in 1..n : s[i] \in S
  OBVIOUS
<1>2. Front(s) = SubSeq(s, 1, n)
  BY DEF Front
<1> HIDE DEF n
<1>3. /\ SubSeq(s, 1, n) \in Seq(S)
      /\ Len(SubSeq(s, 1, n)) = (IF 1 <= n THEN n - 1 + 1 ELSE 0)
      /\ \A i \in 1..(n - 1 + 1) : SubSeq(s, 1, n)[i] = s[1 + i - 1]
  BY <1>1, SubSeqProperties
<1>4. Len(SubSeq(s, 1, n)) = n
  BY <1>1, <1>3
<1>5. \A i \in 1..n : SubSeq(s, 1, n)[i] = s[i]
  <2> SUFFICES ASSUME NEW i \in 1..n PROVE SubSeq(s, 1, n)[i] = s[i]
    OBVIOUS
  <2>1. i \in 1..(n - 1 + 1) /\ 1 + i - 1 = i
    BY <1>1
  <2> QED BY <1>3, <2>1
<1> QED BY <1>2, <1>3, <1>4, <1>5 DEF n

\* Losing the last line keeps a log verified.
LEMMA VerifiedFront ==
  ASSUME NEW s \in Seq(EvidenceEvent), Verified(s), s # << >>
  PROVE  Verified(Front(s))
<1>1. /\ Front(s) \in Seq(EvidenceEvent)
      /\ Len(Front(s)) = Len(s) - 1
      /\ \A i \in 1..(Len(s) - 1) : Front(s)[i] = s[i]
  BY FrontElements
<1>2. DOMAIN Front(s) = 1..(Len(s) - 1) /\ Len(s) \in Nat
  BY <1>1
<1> SUFFICES ASSUME NEW i \in DOMAIN Front(s) PROVE VerifiesAt(Front(s), i)
  BY DEF Verified
<1>3. VerifiesAt(s, i) /\ i \in 1..(Len(s) - 1)
  BY <1>2 DEF Verified
<1>4. i # 1 => i - 1 \in 1..(Len(s) - 1)
  BY <1>2, <1>3
<1> QED BY <1>1, <1>3, <1>4 DEF VerifiesAt

----------------------------------------------------------------------------
(* The chain stays intact.                                                 *)

\* The invariant holds of an empty log without a file.
LEMMA InitIInv == Init => IInv
<1> SUFFICES ASSUME Init PROVE IInv
  OBVIOUS
<1>1. TypeOK
  <2>1. log \in Seq(EvidenceEvent) /\ tail \in FileEnd
    BY EmptySeq DEF Init, FileEnd
  <2>2. /\ mutex \in [Process -> Thread \cup {NoThread}]
        /\ exclusive \in Thread \cup {NoThread}
        /\ shared \in SUBSET Thread
    BY DEF Init
  <2>3. /\ pc \in [Thread -> {"idle"} \cup AppendPC \cup ReplayPC]
        /\ event \in [Thread -> EvidenceEvent \cup {NoEvent}]
        /\ fate \in [Event -> {"new", "open", "ok", "err"}]
    BY DEF Init
  <2>4. result \in [Thread -> ReplayResult]
    <3>1. [ok |-> TRUE, events |-> << >>] \in ReplayResult
      BY DEF ReplayResult
    <3> QED BY <3>1 DEF Init
  <2>5. 0 \in 0..MaxFaults /\ 0 \in 0..MaxReplays
    BY LogAssumption
  <2>6. faults \in 0..MaxFaults /\ replays \in 0..MaxReplays
    BY <2>5 DEF Init
  <2>7. exists \in BOOLEAN
    BY DEF Init
  <2> QED BY <2>1, <2>2, <2>3, <2>4, <2>6, <2>7 DEF TypeOK
<1> QED BY <1>1 DEF Init, IInv, EventHeld, Locked, WriterReady, WholeLine,
              ChainIntact, Verified, AppendPC, HoldsFlock, HoldsMutex

\* One step per action; under it, one per part of the invariant that the
\* action can disturb.
LEMMA NextIInv == IInv /\ [Next]_vars => IInv'
<1> SUFFICES ASSUME IInv, [Next]_vars PROVE IInv'
  OBVIOUS
<1> USE LogAssumption DEF AppendPC, ReplayPC, FileEnd, HoldsMutex, HoldsFlock
<1>0. TypeOK /\ EventHeld /\ Locked /\ WriterReady /\ WholeLine /\ ChainIntact
  BY DEF IInv
<1>1. ASSUME NEW t \in Thread, NEW e \in Event, AppendCall(t, e) PROVE IInv'
  <2>1. NewEvent(e) \in EvidenceEvent
    BY DEF NewEvent, EvidenceEvent, Hash, NoHash
  <2>2. TypeOK' /\ EventHeld'
    BY <1>0, <1>1, <2>1 DEF AppendCall, TypeOK, EventHeld, fileVars, lockVars
  <2>3. Locked' /\ WriterReady' /\ WholeLine' /\ ChainIntact'
    BY <1>0, <1>1 DEF AppendCall, TypeOK, Locked, WriterReady, WholeLine,
                      ChainIntact, fileVars, lockVars
  <2> QED BY <2>2, <2>3 DEF IInv
<1>2. ASSUME NEW t \in Thread, LockMutex(t) PROVE IInv'
  <2>1. TypeOK' /\ EventHeld'
    BY <1>0, <1>2 DEF LockMutex, TypeOK, EventHeld
  <2>2. Locked' /\ WriterReady' /\ WholeLine' /\ ChainIntact'
    BY <1>0, <1>2 DEF LockMutex, TypeOK, Locked, WriterReady, WholeLine, ChainIntact
  <2> QED BY <2>1, <2>2 DEF IInv
<1>3. ASSUME NEW t \in Thread, LockExclusive(t) PROVE IInv'
  <2>1. TypeOK' /\ EventHeld'
    BY <1>0, <1>3 DEF LockExclusive, TypeOK, EventHeld, fileVars
  <2>2. Locked'
    BY <1>0, <1>3 DEF LockExclusive, TypeOK, Locked
  <2>3. WriterReady' /\ WholeLine' /\ ChainIntact'
    BY <1>0, <1>3 DEF LockExclusive, TypeOK, WriterReady, WholeLine, ChainIntact,
                      fileVars
  <2> QED BY <2>1, <2>2, <2>3 DEF IInv
<1>4. ASSUME NEW t \in Thread, ReadExisting(t) PROVE IInv'
  <2>1. /\ Chain(event[t], log) \in EvidenceEvent
        /\ ChainedTo(Chain(event[t], log), log)
    BY <1>0, <1>4, ChainContinues DEF ReadExisting, TypeOK, EventHeld, ChainIntact
  <2>2. TypeOK' /\ EventHeld'
    BY <1>0, <1>4, <2>1 DEF ReadExisting, TypeOK, EventHeld, fileVars, lockVars
  <2>3. WriterReady'
    <3>1. exclusive = t /\ \A u \in Thread : pc[u] \in {"write", "body"} => u = t
      BY <1>0, <1>4 DEF ReadExisting, Locked
    <3> QED BY <1>0, <1>4, <2>1, <3>1
            DEF ReadExisting, TypeOK, WriterReady, Parses, fileVars
  <2>4. Locked' /\ WholeLine' /\ ChainIntact'
    BY <1>0, <1>4 DEF ReadExisting, TypeOK, Locked, WholeLine, ChainIntact,
                      fileVars, lockVars
  <2> QED BY <2>2, <2>3, <2>4 DEF IInv
<1>5. ASSUME NEW t \in Thread, WriteFirst(t) PROVE IInv'
  <2>1. log' \in Seq(EvidenceEvent) /\ ChainIntact'
    BY <1>0, <1>5, FrontElements, VerifiedFront
    DEF WriteFirst, TypeOK, WholeLine, ChainIntact
  <2>2. TypeOK' /\ EventHeld'
    BY <1>0, <1>5, <2>1 DEF WriteFirst, TypeOK, EventHeld, lockVars
  <2>3. Locked' /\ WholeLine'
    BY <1>0, <1>5 DEF WriteFirst, TypeOK, Locked, WholeLine, lockVars
  <2>4. WriterReady'
    <3>1. \A u \in Thread : pc[u] \in {"write", "body"} => u = t
      BY <1>0, <1>5 DEF WriteFirst, Locked
    <3>2. tail \in {"clean", "whole"} /\ ChainedTo(event[t], log)
      BY <1>0, <1>5 DEF WriteFirst, WriterReady
    <3> QED BY <1>0, <1>5, <3>1, <3>2 DEF WriteFirst, TypeOK, WriterReady
  <2> QED BY <2>1, <2>2, <2>3, <2>4 DEF IInv
<1>6. ASSUME NEW t \in Thread, WriteBody(t) PROVE IInv'
  <2>1. event[t] \in EvidenceEvent
    BY <1>0, <1>6 DEF WriteBody, EventHeld
  <2>2. tail = "torn" => ChainedTo(event[t], log)
    BY <1>0, <1>6 DEF WriteBody, WriterReady
  <2>3. log' \in Seq(EvidenceEvent) /\ ChainIntact' /\ WholeLine'
    <3>1. CASE tail = "torn"
      <4>1. log' = Append(log, event[t])
        BY <1>6, <3>1 DEF WriteBody
      <4>2. Append(log, event[t]) # << >> /\ Append(log, event[t]) \in Seq(EvidenceEvent)
        BY <1>0, <2>1, AppendProperties DEF TypeOK
      <4> QED BY <1>0, <2>1, <2>2, <3>1, <4>1, <4>2, VerifiedAppend
              DEF TypeOK, ChainIntact, WholeLine
    <3>2. CASE tail # "torn"
      BY <1>0, <1>6, <3>2 DEF WriteBody, TypeOK, ChainIntact, WholeLine
    <3> QED BY <3>1, <3>2
  <2>4. TypeOK' /\ EventHeld'
    BY <1>0, <1>6, <2>3 DEF WriteBody, TypeOK, EventHeld, lockVars
  <2>5. Locked'
    BY <1>0, <1>6 DEF WriteBody, TypeOK, Locked, lockVars
  <2>6. WriterReady'
    <3>1. \A u \in Thread : pc[u] \in {"write", "body"} => u = t
      BY <1>0, <1>6 DEF WriteBody, Locked
    <3> QED BY <1>0, <1>6, <3>1 DEF WriteBody, TypeOK, WriterReady
  <2> QED BY <2>3, <2>4, <2>5, <2>6 DEF IInv
<1>7. ASSUME NEW t \in Thread, WriteNewline(t) PROVE IInv'
  <2>1. TypeOK' /\ EventHeld'
    BY <1>0, <1>7 DEF WriteNewline, TypeOK, EventHeld, lockVars
  <2>2. Locked' /\ WholeLine' /\ ChainIntact'
    BY <1>0, <1>7 DEF WriteNewline, TypeOK, Locked, WholeLine, ChainIntact, lockVars
  <2>3. WriterReady'
    <3>1. \A u \in Thread : pc[u] \in {"write", "body"} => u = t
      BY <1>0, <1>7 DEF WriteNewline, Locked
    <3> QED BY <1>0, <1>7, <3>1 DEF WriteNewline, TypeOK, WriterReady
  <2> QED BY <2>1, <2>2, <2>3 DEF IInv
<1>8. ASSUME NEW t \in Thread, WriteFails(t) PROVE IInv'
  <2>1. TypeOK' /\ EventHeld'
    BY <1>0, <1>8 DEF WriteFails, Writing, TypeOK, EventHeld, fileVars, lockVars
  <2>2. Locked' /\ WholeLine' /\ ChainIntact' /\ WriterReady'
    BY <1>0, <1>8 DEF WriteFails, Writing, TypeOK, Locked, WholeLine, ChainIntact,
                      WriterReady, fileVars, lockVars
  <2> QED BY <2>1, <2>2 DEF IInv
<1>9. ASSUME NEW t \in Thread, AppendReturn(t) PROVE IInv'
  <2>1. event[t].id \in Event
    BY <1>0, <1>9 DEF AppendReturn, EventHeld, EvidenceEvent
  <2>2. TypeOK' /\ EventHeld'
    BY <1>0, <1>9, <2>1 DEF AppendReturn, Unlock, TypeOK, EventHeld, fileVars
  <2>3. Locked'
    BY <1>0, <1>9 DEF AppendReturn, Unlock, TypeOK, Locked
  <2>4. WholeLine' /\ ChainIntact' /\ WriterReady'
    BY <1>0, <1>9 DEF AppendReturn, TypeOK, WholeLine, ChainIntact, WriterReady,
                      fileVars
  <2> QED BY <2>2, <2>3, <2>4 DEF IInv
<1>10. ASSUME NEW t \in Thread, ReplayCall(t) PROVE IInv'
  <2>1. [ok |-> TRUE, events |-> << >>] \in ReplayResult
    BY DEF ReplayResult
  <2>2. TypeOK' /\ EventHeld'
    <3>1. result' \in [Thread -> ReplayResult]
      BY <1>0, <1>10, <2>1 DEF ReplayCall, TypeOK
    <3>2. replays' \in 0..MaxReplays
      BY <1>0, <1>10 DEF ReplayCall, TypeOK
    <3>3. /\ pc' \in [Thread -> {"idle"} \cup AppendPC \cup ReplayPC]
          /\ EventHeld'
      BY <1>0, <1>10 DEF ReplayCall, TypeOK, EventHeld
    <3> QED BY <1>0, <1>10, <3>1, <3>2, <3>3
            DEF ReplayCall, TypeOK, fileVars, lockVars
  <2>3. Locked' /\ WholeLine' /\ ChainIntact' /\ WriterReady'
    BY <1>0, <1>10 DEF ReplayCall, TypeOK, Locked, WholeLine, ChainIntact,
                       WriterReady, fileVars, lockVars
  <2> QED BY <2>2, <2>3 DEF IInv
<1>11. ASSUME NEW t \in Thread, LockShared(t) PROVE IInv'
  <2>1. TypeOK' /\ EventHeld'
    BY <1>0, <1>11 DEF LockShared, TypeOK, EventHeld, fileVars
  <2>2. Locked' /\ WholeLine' /\ ChainIntact' /\ WriterReady'
    BY <1>0, <1>11 DEF LockShared, TypeOK, Locked, WholeLine, ChainIntact,
                       WriterReady, fileVars
  <2> QED BY <2>1, <2>2 DEF IInv
<1>12. ASSUME NEW t \in Thread, ReplayLoad(t) PROVE IInv'
  <2>1. [ok |-> Parses, events |-> IF Parses THEN log ELSE << >>] \in ReplayResult
    BY <1>0 DEF Parses, ReplayResult, TypeOK
  <2>2. TypeOK' /\ EventHeld'
    BY <1>0, <1>12, <2>1 DEF ReplayLoad, TypeOK, EventHeld, fileVars
  <2>3. Locked' /\ WholeLine' /\ ChainIntact' /\ WriterReady'
    BY <1>0, <1>12 DEF ReplayLoad, TypeOK, Locked, WholeLine, ChainIntact,
                       WriterReady, fileVars
  <2> QED BY <2>2, <2>3 DEF IInv
<1>13. ASSUME NEW p \in Process, Crash(p) PROVE IInv'
  <2>1. TypeOK' /\ EventHeld'
    BY <1>0, <1>13 DEF Crash, Of, TypeOK, EventHeld, fileVars
  <2>2. Locked'
    BY <1>0, <1>13 DEF Crash, Of, TypeOK, Locked
  <2>3. WholeLine' /\ ChainIntact' /\ WriterReady'
    BY <1>0, <1>13 DEF Crash, Of, TypeOK, WholeLine, ChainIntact, WriterReady,
                       fileVars
  <2> QED BY <2>1, <2>2, <2>3 DEF IInv
<1>14. CASE UNCHANGED vars
  BY <1>0, <1>14 DEF vars, IInv, TypeOK, EventHeld, Locked, WriterReady, WholeLine,
                     ChainIntact
<1> QED BY <1>1, <1>2, <1>3, <1>4, <1>5, <1>6, <1>7, <1>8, <1>9, <1>10, <1>11,
           <1>12, <1>13, <1>14 DEF Next, AppendStep, ReplayStep

\* The inductive invariant holds in every reachable state.
THEOREM InvariantHolds == Spec => []IInv
<1>1. Init => IInv
  BY InitIInv
<1>2. IInv /\ [Next]_vars => IInv'
  BY NextIInv
<1> QED BY <1>1, <1>2, PTL DEF Spec

\* Every variable stays in its type, for every number of threads, processes,
\* events, crashes and failed writes.
THEOREM TypeCorrect == Spec => []TypeOK
<1>1. IInv => TypeOK
  BY DEF IInv
<1> QED BY <1>1, InvariantHolds, PTL

\* The events in the file verify in every reachable state, wherever a writer is
\* killed or its write fails, a line without its newline included.
THEOREM ChainAlwaysIntact == Spec => []ChainIntact
<1>1. IInv => ChainIntact
  BY DEF IInv
<1> QED BY <1>1, InvariantHolds, PTL

----------------------------------------------------------------------------
(* What was acknowledged stays in the log.                                 *)

\* Every event of the log has the identifier of an append call.
LEMMA LogIds ==
  ASSUME TypeOK PROVE \A i \in DOMAIN log : log[i].id \in Event
<1>1. log \in Seq(EvidenceEvent)
  BY DEF TypeOK
<1>2. \A i \in DOMAIN log : log[i] \in EvidenceEvent
  BY <1>1
<1> QED BY <1>2 DEF EvidenceEvent

\* One thread at a time is behind the exclusive flock.
LEMMA OneWriter ==
  ASSUME Locked, NEW t \in Thread, NEW u \in Thread, pc[t] \in HoldsFlock, pc[u] \in HoldsFlock
  PROVE  t = u
BY DEF Locked

\* The parts of DInv hold of an empty log.
LEMMA InitDInv == Init => DInv
<1> SUFFICES ASSUME Init PROVE DInv
  OBVIOUS
<1>1. IInv
  BY InitIInv
<1>2. CallInv /\ LastLine /\ Acknowledged
  BY DEF Init, CallInv, LastLine, Acknowledged, Vanished, InLog, AppendPC
<1> QED BY <1>1, <1>2 DEF DInv

\* What is in a log that gains an event.
LEMMA InLogAppend ==
  ASSUME TypeOK, NEW ev \in EvidenceEvent, log' = Append(log, ev)
  PROVE  /\ \A e : InLog(e)' <=> (InLog(e) \/ e = ev.id)
         /\ DOMAIN log = 1..Len(log) /\ Len(log) \in Nat
         /\ DOMAIN log' = 1..(Len(log) + 1) /\ Len(log') = Len(log) + 1
         /\ \A i \in 1..Len(log) : log'[i] = log[i]
         /\ log'[Len(log) + 1] = ev
<1>1. /\ DOMAIN log = 1..Len(log) /\ Len(log) \in Nat
      /\ DOMAIN log' = 1..(Len(log) + 1) /\ Len(log') = Len(log) + 1
      /\ \A i \in 1..Len(log) : log'[i] = log[i]
      /\ log'[Len(log) + 1] = ev
  BY DEF TypeOK
<1>2. ASSUME NEW e, InLog(e)' PROVE InLog(e) \/ e = ev.id
  <2>1. PICK i \in DOMAIN log' : log'[i].id = e
    BY <1>2 DEF InLog
  <2>2. i \in 1..Len(log) \/ i = Len(log) + 1
    BY <1>1, <2>1
  <2> QED BY <1>1, <2>1, <2>2 DEF InLog
<1>3. ASSUME NEW e, InLog(e) PROVE InLog(e)'
  <2>1. PICK i \in DOMAIN log : log[i].id = e
    BY <1>3 DEF InLog
  <2>2. i \in DOMAIN log' /\ log'[i].id = e
    BY <1>1, <2>1
  <2> QED BY <2>2 DEF InLog
<1>4. InLog(ev.id)'
  <2>1. Len(log) + 1 \in DOMAIN log' /\ log'[Len(log) + 1].id = ev.id
    BY <1>1
  <2> QED BY <2>1 DEF InLog
<1> QED BY <1>1, <1>2, <1>3, <1>4

\* What is in a log that loses its last event.
LEMMA InLogFront ==
  ASSUME TypeOK, log # << >>, log' = Front(log)
  PROVE  /\ DOMAIN log = 1..Len(log) /\ Len(log) \in Nat \ {0}
         /\ DOMAIN log' = 1..(Len(log) - 1)
         /\ \A i \in DOMAIN log' : i \in DOMAIN log /\ log'[i] = log[i]
         /\ \A e : InLog(e)' => InLog(e)
         /\ \A e : InLog(e) => InLog(e)' \/ e = log[Len(log)].id
<1>1. /\ log' \in Seq(EvidenceEvent) /\ Len(log') = Len(log) - 1
      /\ \A i \in 1..(Len(log) - 1) : log'[i] = log[i]
      /\ DOMAIN log = 1..Len(log) /\ Len(log) \in Nat \ {0}
  BY FrontElements DEF TypeOK
<1>2. DOMAIN log' = 1..(Len(log) - 1)
  BY <1>1
<1>3. \A i \in DOMAIN log' : i \in DOMAIN log /\ log'[i] = log[i]
  BY <1>1, <1>2
<1>4. \A e : InLog(e)' => InLog(e)
  BY <1>3 DEF InLog
<1>5. ASSUME NEW e, InLog(e) PROVE InLog(e)' \/ e = log[Len(log)].id
  <2>1. PICK i \in DOMAIN log : log[i].id = e
    BY <1>5 DEF InLog
  <2>2. i \in DOMAIN log' \/ i = Len(log)
    BY <1>1, <1>2, <2>1
  <2> QED BY <1>3, <2>1, <2>2 DEF InLog
<1> QED BY <1>1, <1>2, <1>3, <1>4, <1>5

\* One step per action, for the parts that InvariantHolds does not cover.
LEMMA NextDInv == DInv /\ [Next]_vars => DInv'
<1> SUFFICES ASSUME DInv, [Next]_vars PROVE DInv'
  OBVIOUS
<1> USE LogAssumption DEF AppendPC, ReplayPC, HoldsMutex, HoldsFlock
<1>0. /\ IInv /\ TypeOK /\ EventHeld /\ Locked /\ WriterReady /\ WholeLine
      /\ CallInv /\ LastLine /\ Acknowledged
  BY DEF DInv, IInv
<1>a. IInv'
  BY <1>0, NextIInv DEF DInv
<1> SUFFICES CallInv' /\ LastLine' /\ Acknowledged'
  BY <1>a DEF DInv
<1>b. tail = "whole" => Len(log) \in DOMAIN log /\ log[Len(log)].id \in Event
  <2>1. log \in Seq(EvidenceEvent) /\ (tail = "whole" => log # << >>)
    BY <1>0 DEF TypeOK, WholeLine
  <2> QED BY <1>0, <2>1, LogIds
<1>c. ASSUME log' = log PROVE \A e : InLog(e)' <=> InLog(e)
  BY <1>c DEF InLog
<1>d. \A e, f \in Event : Vanished(e) => tail = "glued"
  BY <1>0 DEF Acknowledged
<1>1. ASSUME NEW t \in Thread, NEW e \in Event, AppendCall(t, e)
      PROVE  CallInv' /\ LastLine' /\ Acknowledged'
  <2>1. /\ pc[t] = "idle" /\ pc' = [pc EXCEPT ![t] = "mutex"]
        /\ fate[e] = "new" /\ fate' = [fate EXCEPT ![e] = "open"]
        /\ event'[t].id = e /\ \A u \in Thread : u # t => event'[u] = event[u]
        /\ log' = log /\ tail' = tail
    BY <1>0, <1>1 DEF AppendCall, NewEvent, TypeOK, fileVars
  <2>2. ~InLog(e)
    BY <1>0, <2>1 DEF CallInv, InLog
  <2>3. \A u \in Thread : pc[u] \in AppendPC => event[u].id # e
    BY <1>0, <2>1 DEF CallInv
  <2>4. CallInv'
    BY <1>0, <2>1, <2>2, <2>3 DEF CallInv, InLog, TypeOK
  <2>5. LastLine'
    <3>1. tail = "whole" => log[Len(log)].id # e
      BY <1>0, <1>b, <2>1 DEF CallInv
    <3> QED BY <1>0, <1>b, <2>1, <3>1 DEF LastLine, TypeOK
  <2>6. \A f \in Event : Vanished(f)' <=> Vanished(f)
    BY <1>0, <1>c, <2>1 DEF Vanished, TypeOK
  <2>7. Acknowledged'
    BY <1>0, <2>1, <2>6 DEF Acknowledged, TypeOK
  <2> QED BY <2>4, <2>5, <2>7
<1>2. ASSUME NEW t \in Thread,
             LockMutex(t) \/ LockExclusive(t) \/ ReplayCall(t) \/ LockShared(t)
               \/ ReplayLoad(t)
      PROVE  CallInv' /\ LastLine' /\ Acknowledged'
  <2>1. /\ log' = log /\ tail' = tail /\ event' = event /\ fate' = fate
        /\ \A u \in Thread : u # t => pc'[u] = pc[u]
    BY <1>0, <1>2 DEF LockMutex, LockExclusive, ReplayCall, LockShared, ReplayLoad,
                      fileVars, TypeOK
  <2>2. \/ pc[t] \in {"mutex", "flock"} /\ pc'[t] \in {"flock", "read"}
        \/ /\ pc[t] \in {"idle", "shared", "load"}
           /\ pc'[t] \in {"idle", "shared", "load"}
    BY <1>0, <1>2 DEF LockMutex, LockExclusive, ReplayCall, LockShared, ReplayLoad,
                      TypeOK
  <2>3. \A f : Vanished(f)' <=> Vanished(f)
    BY <1>c, <2>1 DEF Vanished
  <2>4. CallInv'
    BY <1>0, <1>c, <2>1, <2>2 DEF CallInv
  <2>5. LastLine'
    BY <1>0, <2>1, <2>2 DEF LastLine
  <2>6. Acknowledged'
    BY <1>0, <2>1, <2>2, <2>3 DEF Acknowledged
  <2> QED BY <2>4, <2>5, <2>6
<1>3. ASSUME NEW t \in Thread, ReadExisting(t)
      PROVE  CallInv' /\ LastLine' /\ Acknowledged'
  <2>1. /\ pc[t] = "read" /\ pc' \in [Thread -> {"idle"} \cup AppendPC \cup ReplayPC]
        /\ pc'[t] \in {"write", "fail"}
        /\ \A u \in Thread : u # t => pc'[u] = pc[u]
        /\ log' = log /\ tail' = tail /\ fate' = fate
    BY <1>0, <1>3 DEF ReadExisting, fileVars, TypeOK
  <2>2. event[t] \in EvidenceEvent
    BY <1>0, <2>1 DEF EventHeld
  <2>3. \A u \in Thread : event'[u].id = event[u].id
    <3>1. Chain(event[t], log).id = event[t].id
      BY <1>0, <1>3, <2>2, ChainContinues
      DEF IInv, TypeOK, ChainIntact
    <3> QED BY <1>0, <1>3, <3>1 DEF ReadExisting, TypeOK
  <2>4. \A f : Vanished(f)' <=> Vanished(f)
    BY <1>c, <2>1 DEF Vanished
  <2>5. CallInv'
    BY <1>0, <1>c, <2>1, <2>3 DEF CallInv
  <2>6. LastLine'
    BY <1>0, <2>1, <2>3 DEF LastLine
  <2>7. Acknowledged'
    BY <1>0, <2>1, <2>4 DEF Acknowledged
  <2> QED BY <2>5, <2>6, <2>7
<1>4. ASSUME NEW t \in Thread, WriteFirst(t)
      PROVE  CallInv' /\ LastLine' /\ Acknowledged'
  <2>1. /\ pc[t] = "write" /\ pc' = [pc EXCEPT ![t] = "body"] /\ fate' = fate /\ event' = event
        /\ tail \in {"clean", "whole"}
    BY <1>0, <1>4 DEF WriteFirst, WriterReady
  <2>2. \A u \in Thread : pc[u] \in HoldsFlock => u = t
    BY <1>0, <2>1, OneWriter
  <2>3. CASE tail = "clean"
    <3>1. log' = log /\ tail' = "torn"
      BY <1>4, <2>3 DEF WriteFirst
    <3>2. \A f \in Event : ~Vanished(f) /\ ~Vanished(f)'
      BY <1>c, <1>d, <2>1, <2>3, <3>1 DEF Vanished
    <3>3. CallInv'
      BY <1>0, <1>c, <2>1, <2>2, <3>1 DEF CallInv, TypeOK
    <3> QED BY <1>0, <3>1, <3>2, <3>3 DEF LastLine, Acknowledged
  <2>4. CASE tail = "whole"
    <3>1. log' = Front(log) /\ tail' = "glued" /\ log # << >>
      BY <1>0, <1>4, <2>4 DEF WriteFirst, WholeLine
    <3>2. fate[log[Len(log)].id] = "err"
      BY <1>0, <2>1, <2>2, <2>4 DEF LastLine
    <3>3. /\ \A i \in DOMAIN log' : i \in DOMAIN log /\ log'[i] = log[i]
          /\ \A e : InLog(e)' => InLog(e)
          /\ \A e : InLog(e) => InLog(e)' \/ e = log[Len(log)].id
      BY <1>0, <3>1, InLogFront
    <3>4. \A f \in Event : ~Vanished(f)'
      BY <1>d, <2>1, <2>4, <3>2, <3>3 DEF Vanished
    <3>5. CallInv'
      BY <1>0, <2>1, <2>2, <3>1, <3>3 DEF CallInv, TypeOK
    <3>6. \A i, j \in DOMAIN log' : log'[i].id = log'[j].id => i = j
      BY <1>0, <3>3 DEF Acknowledged
    <3> QED BY <3>1, <3>4, <3>5, <3>6 DEF LastLine, Acknowledged
  <2> QED BY <2>1, <2>3, <2>4
<1>5. ASSUME NEW t \in Thread, WriteBody(t)
      PROVE  CallInv' /\ LastLine' /\ Acknowledged'
  <2>1. /\ pc[t] = "body" /\ pc' = [pc EXCEPT ![t] = "newline"]
        /\ fate' = fate /\ event' = event /\ tail \in {"torn", "glued"}
    BY <1>0, <1>5 DEF WriteBody, WriterReady
  <2>2. \A u \in Thread : pc[u] \in HoldsFlock => u = t
    BY <1>0, <2>1, OneWriter
  <2>3. event[t] \in EvidenceEvent /\ ~InLog(event[t].id) /\ fate[event[t].id] = "open"
    BY <1>0, <2>1 DEF EventHeld, CallInv
  <2>4. CASE tail = "torn"
    <3>1. log' = Append(log, event[t]) /\ tail' = "whole"
      BY <1>5, <2>4 DEF WriteBody
    <3>2. /\ \A e : InLog(e)' <=> (InLog(e) \/ e = event[t].id)
          /\ DOMAIN log = 1..Len(log) /\ Len(log) \in Nat
          /\ DOMAIN log' = 1..(Len(log) + 1) /\ Len(log') = Len(log) + 1
          /\ \A i \in 1..Len(log) : log'[i] = log[i]
          /\ log'[Len(log) + 1] = event[t]
      BY <1>0, <2>3, <3>1, InLogAppend
    <3>3. \A u \in Thread : u # t /\ pc[u] \in AppendPC => event[u].id # event[t].id
      BY <1>0, <2>1 DEF CallInv
    <3>4. \A i \in DOMAIN log' : fate'[log'[i].id] # "new"
      <4> TAKE i \in DOMAIN log'
      <4>1. CASE i \in 1..Len(log)
        BY <1>0, <2>1, <3>2, <4>1 DEF CallInv
      <4>2. CASE i = Len(log) + 1
        BY <2>1, <2>3, <3>2, <4>2
      <4> QED BY <3>2, <4>1, <4>2
    <3>5. CallInv'
      <4>1. /\ pc'[t] = "newline"
            /\ \A u \in Thread : u # t => pc'[u] = pc[u]
        BY <1>0, <2>1 DEF TypeOK
      <4>2. \A u \in Thread : pc'[u] \in {"mutex", "flock", "read", "write", "body"}
                               => ~InLog(event[u].id)'
        BY <1>0, <2>1, <3>2, <3>3, <4>1 DEF CallInv
      <4>3. \A u \in Thread : pc'[u] \in {"newline", "return"} => u = t /\ pc'[u] = "newline"
        BY <2>2, <4>1
      <4>4. InLog(event[t].id)'
        BY <2>1, <3>2
      <4>5. \A u \in Thread : pc'[u] \in AppendPC => pc[u] \in AppendPC
        BY <2>1, <4>1
      <4> QED BY <1>0, <2>1, <3>1, <3>4, <4>2, <4>3, <4>4, <4>5 DEF CallInv
    <3>6. LastLine'
      BY <1>0, <2>1, <3>2 DEF LastLine, TypeOK
    <3>7. \A f \in Event : ~Vanished(f)'
      BY <1>d, <2>1, <2>4, <3>2 DEF Vanished
    <3>8. ASSUME NEW i \in DOMAIN log', NEW j \in DOMAIN log', log'[i].id = log'[j].id
          PROVE  i = j
      <4>1. CASE i \in 1..Len(log) /\ j \in 1..Len(log)
        BY <1>0, <3>2, <3>8, <4>1 DEF Acknowledged
      <4>2. CASE i \in 1..Len(log) /\ j = Len(log) + 1
        BY <2>3, <3>2, <3>8, <4>2 DEF InLog
      <4>3. CASE i = Len(log) + 1 /\ j \in 1..Len(log)
        BY <2>3, <3>2, <3>8, <4>3 DEF InLog
      <4> QED BY <3>2, <4>1, <4>2, <4>3
    <3> QED BY <3>5, <3>6, <3>7, <3>8 DEF Acknowledged
  <2>5. CASE tail = "glued"
    <3>1. log' = log /\ tail' = tail
      BY <1>5, <2>5 DEF WriteBody
    <3>2. \A f \in Event : ~Vanished(f) /\ ~Vanished(f)'
      BY <1>0, <1>c, <2>1, <3>1 DEF Vanished, Acknowledged
    <3>3. CallInv'
      BY <1>0, <1>c, <2>1, <2>2, <2>3, <2>5, <3>1 DEF CallInv, TypeOK
    <3> QED BY <1>0, <2>5, <3>1, <3>2, <3>3 DEF LastLine, Acknowledged
  <2> QED BY <2>1, <2>4, <2>5
<1>6. ASSUME NEW t \in Thread, WriteNewline(t)
      PROVE  CallInv' /\ LastLine' /\ Acknowledged'
  <2>1. /\ pc[t] = "newline" /\ pc' = [pc EXCEPT ![t] = "return"]
        /\ log' = log /\ fate' = fate /\ event' = event
        /\ tail' = IF tail = "whole" THEN "clean" ELSE tail
    BY <1>6 DEF WriteNewline
  <2>2. \A u \in Thread : pc[u] \in HoldsFlock => u = t
    BY <1>0, <2>1, OneWriter
  <2>3. tail \in {"whole", "glued"}
    BY <1>0, <2>1 DEF CallInv
  <2>4. \A f \in Event : ~Vanished(f) /\ ~Vanished(f)'
    BY <1>0, <1>c, <2>1 DEF Vanished, Acknowledged
  <2>5. CallInv'
    BY <1>0, <1>c, <2>1, <2>2, <2>3 DEF CallInv, TypeOK
  <2> QED BY <1>0, <2>1, <2>3, <2>4, <2>5 DEF LastLine, Acknowledged
<1>7. ASSUME NEW t \in Thread, WriteFails(t)
      PROVE  CallInv' /\ LastLine' /\ Acknowledged'
  <2>1. /\ pc[t] \in {"body", "newline"} /\ pc' = [pc EXCEPT ![t] = "fail"]
        /\ log' = log /\ fate' = fate /\ event' = event /\ tail' = tail
    BY <1>7 DEF WriteFails, Writing, fileVars
  <2>2. \A f : Vanished(f)' <=> Vanished(f)
    BY <1>c, <2>1 DEF Vanished
  <2>3. CallInv'
    BY <1>0, <1>c, <2>1 DEF CallInv, TypeOK
  <2>4. LastLine'
    BY <1>0, <2>1 DEF LastLine, TypeOK
  <2>5. Acknowledged'
    BY <1>0, <2>1, <2>2 DEF Acknowledged, TypeOK
  <2> QED BY <2>3, <2>4, <2>5
<1>8. ASSUME NEW t \in Thread, AppendReturn(t)
      PROVE  CallInv' /\ LastLine' /\ Acknowledged'
  <2> DEFINE x == event[t].id
  <2>1. /\ pc[t] \in {"return", "fail"} /\ pc' = [pc EXCEPT ![t] = "idle"]
        /\ log' = log /\ tail' = tail
        /\ \A u \in Thread : u # t => event'[u] = event[u]
    BY <1>0, <1>8 DEF AppendReturn, fileVars, TypeOK
  <2>2. x \in Event /\ fate[x] = "open"
    BY <1>0, <2>1 DEF EventHeld, EvidenceEvent, CallInv
  <2>3. /\ fate'[x] = IF pc[t] = "return" THEN "ok" ELSE "err"
        /\ \A e \in Event : e # x => fate'[e] = fate[e]
    BY <1>0, <1>8, <2>2 DEF AppendReturn, TypeOK
  <2>4. \A u \in Thread : u # t /\ pc[u] \in AppendPC
          => event[u].id # x /\ event[u].id \in Event
    BY <1>0, <2>1 DEF CallInv, EventHeld, EvidenceEvent
  <2>5. \A i \in DOMAIN log : log[i].id \in Event
    BY <1>0, LogIds
  <2>6. \A u \in Thread : pc[u] \in HoldsFlock => u = t
    BY <1>0, <2>1, OneWriter
  <2>7. pc[t] = "return" => /\ tail \in {"clean", "glued"}
                            /\ InLog(x) <=> tail # "glued"
    BY <1>0 DEF CallInv
  <2> HIDE DEF x
  <2>8. CallInv'
    BY <1>0, <1>c, <2>1, <2>3, <2>4, <2>5 DEF CallInv, TypeOK
  <2>9. LastLine'
    <3> SUFFICES ASSUME tail = "whole" PROVE fate'[log[Len(log)].id] = "err"
      BY <2>1 DEF LastLine
    <3>1. pc[t] = "fail" /\ log[Len(log)].id \in Event
      BY <1>b, <2>1, <2>7
    <3>2. CASE fate[log[Len(log)].id] = "err"
      BY <2>2, <2>3, <3>1, <3>2
    <3>3. CASE log[Len(log)].id = x
      BY <2>3, <3>1, <3>3
    <3> QED BY <1>0, <2>6, <3>2, <3>3 DEF LastLine, x
  <2>10. ASSUME NEW f \in Event, Vanished(f)'
         PROVE  Vanished(f) \/ (f = x /\ pc[t] = "return" /\ tail = "glued")
    BY <1>c, <2>1, <2>3, <2>7, <2>10 DEF Vanished
  <2>11. Acknowledged'
    <3>1. \A f, g \in Event : Vanished(f)' /\ Vanished(g)' => tail' = "glued" /\ f = g
      <4>1. CASE pc[t] = "return"
        BY <1>0, <2>1, <2>10, <4>1 DEF Acknowledged
      <4>2. CASE pc[t] # "return"
        BY <1>0, <2>1, <2>10, <4>2 DEF Acknowledged
      <4> QED BY <4>1, <4>2
    <3>2. \A u \in Thread : pc'[u] \notin {"body", "newline", "return"}
      BY <1>0, <2>1, <2>6 DEF TypeOK
    <3> QED BY <1>0, <2>1, <3>1, <3>2 DEF Acknowledged
  <2> QED BY <2>8, <2>9, <2>11
<1>9. ASSUME NEW p \in Process, Crash(p)
      PROVE  CallInv' /\ LastLine' /\ Acknowledged'
  <2>1. /\ log' = log /\ tail' = tail
        /\ \A u \in Thread : u \in Of(p) => pc'[u] = "idle"
        /\ \A u \in Thread : u \notin Of(p) => pc'[u] = pc[u] /\ event'[u] = event[u]
    BY <1>9 DEF Crash, fileVars
  <2>2. \A e \in Event :
          fate'[e] = IF \E t \in Of(p) : pc[t] \in AppendPC /\ event[t].id = e
                     THEN "err" ELSE fate[e]
    BY <1>9 DEF Crash
  <2>3. \A u \in Thread : u \notin Of(p) /\ pc[u] \in AppendPC
          => /\ event[u].id \in Event
             /\ \A t \in Of(p) : pc[t] \in AppendPC => event[t].id # event[u].id
    BY <1>0 DEF CallInv, EventHeld, EvidenceEvent, Of
  <2>4. \A i \in DOMAIN log : log[i].id \in Event
    BY <1>0, LogIds
  <2>5. CallInv'
    <3>1. \A u \in Thread : pc'[u] \in AppendPC => u \notin Of(p) /\ pc[u] = pc'[u]
      BY <2>1
    <3>2. \A u \in Thread : pc'[u] \in AppendPC => fate'[event'[u].id] = "open"
      BY <1>0, <2>1, <2>2, <2>3, <3>1 DEF CallInv
    <3>3. \A i \in DOMAIN log' : fate'[log'[i].id] # "new"
      BY <1>0, <2>1, <2>2, <2>4 DEF CallInv
    <3> QED BY <1>0, <1>c, <2>1, <3>1, <3>2, <3>3 DEF CallInv
  <2>6. LastLine'
    BY <1>0, <1>b, <2>1, <2>2 DEF LastLine
  <2>7. \A f \in Event : Vanished(f)' => Vanished(f)
    BY <1>c, <2>1, <2>2 DEF Vanished
  <2>8. Acknowledged'
    BY <1>0, <2>1, <2>7 DEF Acknowledged
  <2> QED BY <2>5, <2>6, <2>8
<1>10. CASE UNCHANGED vars
  BY <1>0, <1>10 DEF vars, CallInv, LastLine, Acknowledged, Vanished, InLog
<1> QED BY <1>1, <1>2, <1>3, <1>4, <1>5, <1>6, <1>7, <1>8, <1>9, <1>10
        DEF Next, AppendStep, ReplayStep

\* The calls, the acknowledgements and the last line hold in every reachable
\* state.
LEMMA DInvHolds == Spec => []DInv
<1>1. Init => DInv
  BY InitDInv
<1>2. DInv /\ [Next]_vars => DInv'
  BY NextDInv
<1> QED BY <1>1, <1>2, PTL DEF Spec

\* No event is twice in the log, and every event whose append returned Ok stays
\* there, wherever writes stop; one append may be lost, the one that was written
\* behind a line without its newline.
THEOREM AcknowledgedStays == Spec => []AcknowledgedOnce
<1>1. DInv => AcknowledgedOnce
  BY DEF DInv, Acknowledged, AcknowledgedOnce
<1> QED BY <1>1, DInvHolds, PTL

----------------------------------------------------------------------------
(* The log implements EvidenceChain.                                       *)

\* Appending to the log appends the identifier to the abstract chain.
LEMMA IdentifiersOfAppend ==
  ASSUME NEW s \in Seq(EvidenceEvent), NEW ev \in EvidenceEvent
  PROVE  [i \in DOMAIN Append(s, ev) |-> Append(s, ev)[i].id]
           = Append([i \in DOMAIN s |-> s[i].id], ev.id)
<1> DEFINE a == Append(s, ev)
           c == [i \in DOMAIN s |-> s[i].id]
           d == [i \in DOMAIN a |-> a[i].id]
<1>1. /\ a \in Seq(EvidenceEvent) /\ Len(a) = Len(s) + 1 /\ Len(s) \in Nat
      /\ \A i \in 1..Len(s) : a[i] = s[i]
      /\ a[Len(s) + 1] = ev
      /\ DOMAIN a = 1..(Len(s) + 1) /\ DOMAIN s = 1..Len(s)
  OBVIOUS
<1>2. \A i \in DOMAIN s : s[i].id \in Event
  <2>1. \A i \in DOMAIN s : s[i] \in EvidenceEvent
    OBVIOUS
  <2> QED BY <2>1 DEF EvidenceEvent
<1>3. c \in Seq(Event) /\ Len(c) = Len(s) /\ ev.id \in Event
  BY <1>1, <1>2 DEF EvidenceEvent
<1>4. /\ Append(c, ev.id) \in Seq(Event)
      /\ DOMAIN Append(c, ev.id) = 1..(Len(s) + 1)
      /\ \A i \in 1..Len(s) : Append(c, ev.id)[i] = c[i]
      /\ Append(c, ev.id)[Len(s) + 1] = ev.id
  <2> HIDE DEF c
  <2> QED BY <1>1, <1>3
<1>5. DOMAIN d = 1..(Len(s) + 1) /\ \A i \in DOMAIN d : d[i] = Append(c, ev.id)[i]
  <2>1. \A i \in 1..Len(s) : d[i] = c[i]
    BY <1>1
  <2>2. d[Len(s) + 1] = ev.id
    BY <1>1
  <2>3. DOMAIN d = 1..(Len(s) + 1)
    BY <1>1
  <2>4. \A i \in 1..(Len(s) + 1) : i \in 1..Len(s) \/ i = Len(s) + 1
    BY <1>1
  <2> HIDE DEF d, c
  <2> QED BY <1>4, <2>1, <2>2, <2>3, <2>4
<1>6. d = [i \in DOMAIN d |-> d[i]]
  OBVIOUS
<1>7. Append(c, ev.id) = [i \in DOMAIN Append(c, ev.id) |-> Append(c, ev.id)[i]]
  BY <1>4
<1>8. d = Append(c, ev.id)
  <2> HIDE DEF d, c
  <2> QED BY <1>4, <1>5, <1>6, <1>7
<1> QED BY <1>8

\* Losing the last line of the log takes the last identifier from the chain.
LEMMA IdentifiersOfFront ==
  ASSUME NEW s \in Seq(EvidenceEvent), s # << >>
  PROVE  LET c == [i \in DOMAIN s |-> s[i].id]
         IN  /\ [i \in DOMAIN Front(s) |-> Front(s)[i].id] = SubSeq(c, 1, Len(c) - 1)
             /\ c # << >> /\ Len(c) = Len(s) /\ c[Len(c)] = s[Len(s)].id
<1> DEFINE c == [i \in DOMAIN s |-> s[i].id]
           d == [i \in DOMAIN Front(s) |-> Front(s)[i].id]
<1>1. PICK n \in Nat : n = Len(s) - 1
  OBVIOUS
<1>2. /\ Front(s) \in Seq(EvidenceEvent) /\ Len(Front(s)) = n /\ Len(s) = n + 1
      /\ \A i \in 1..n : Front(s)[i] = s[i]
  BY <1>1, FrontElements
<1>3. DOMAIN s = 1..(n + 1) /\ DOMAIN Front(s) = 1..n
  BY <1>2
<1>4. \A i \in 1..(n + 1) : s[i].id \in Event
  <2>1. \A i \in 1..(n + 1) : s[i] \in EvidenceEvent
    BY <1>3
  <2> QED BY <2>1 DEF EvidenceEvent
<1>5. c \in Seq(Event) /\ Len(c) = n + 1 /\ \A i \in 1..(n + 1) : c[i] = s[i].id
  <2>1. c = [i \in 1..(n + 1) |-> s[i].id]
    BY <1>3
  <2>2. [i \in 1..(n + 1) |-> s[i].id] \in Seq(Event)
    BY <1>4
  <2> QED BY <2>1, <2>2
<1>6. d = [i \in 1..n |-> s[i].id]
  BY <1>2, <1>3
<1> HIDE DEF c, d
<1>7. /\ SubSeq(c, 1, n) = [i \in 1..n |-> c[i]]
  BY <1>5
<1>8. [i \in 1..n |-> c[i]] = [i \in 1..n |-> s[i].id]
  BY <1>5
<1>9. Len(c) - 1 = n /\ c # << >> /\ c[Len(c)] = s[Len(s)].id
  BY <1>2, <1>5
<1> QED BY <1>2, <1>5, <1>6, <1>7, <1>8, <1>9 DEF c, d

\* An empty log is the empty chain.
LEMMA InitRefines == Init => AbstractLog!Init
<1> SUFFICES ASSUME Init PROVE AbstractLog!Init
  OBVIOUS
<1>1. LogIdentifiers = << >>
  BY DEF Init, LogIdentifiers
<1> QED BY <1>1 DEF Init, AbstractLog!Init

\* WriteBody is the instant at which an append takes effect, and WriteFirst that
\* at which one behind a line without its newline spoils it; the call, its return
\* and a crash change only its fate; every other step is a stutter.
LEMMA NextRefines == DInv /\ [Next]_vars => [AbstractLog!Next]_(AbstractLog!chainVars)
<1> SUFFICES ASSUME DInv, [Next]_vars
             PROVE  AbstractLog!Next \/ UNCHANGED AbstractLog!chainVars
  OBVIOUS
<1>0. /\ IInv /\ TypeOK /\ EventHeld /\ Locked /\ WriterReady /\ WholeLine
      /\ CallInv /\ LastLine
      /\ AbstractLog!Present = {log[i].id : i \in DOMAIN log}
  BY DEF DInv, IInv, AbstractLog!Present, LogIdentifiers
<1>a. log' = log => LogIdentifiers' = LogIdentifiers
  BY DEF LogIdentifiers
<1>1. ASSUME NEW t \in Thread, NEW e \in Event, AppendCall(t, e)
      PROVE  AbstractLog!Begin(e)
  BY <1>1, <1>a DEF AppendCall, AbstractLog!Begin, fileVars
<1>2. ASSUME NEW t \in Thread, WriteBody(t)
      PROVE  AbstractLog!Commit(event[t].id) \/ UNCHANGED AbstractLog!chainVars
  <2>1. pc[t] = "body" /\ tail \in {"torn", "glued"} /\ fate' = fate
    BY <1>0, <1>2 DEF WriteBody, WriterReady
  <2>2. CASE tail = "torn"
    <3>1. log' = Append(log, event[t]) /\ tail' = "whole"
      BY <1>2, <2>2 DEF WriteBody
    <3>2. event[t] \in EvidenceEvent /\ fate[event[t].id] = "open"
      BY <1>0, <2>1 DEF EventHeld, CallInv, AppendPC
    <3>3. event[t].id \notin AbstractLog!Present
      BY <1>0, <2>1 DEF CallInv, InLog
    <3>4. LogIdentifiers' = Append(LogIdentifiers, event[t].id)
      BY <1>0, <3>1, <3>2, IdentifiersOfAppend DEF LogIdentifiers, TypeOK
    <3> QED BY <2>1, <2>2, <3>1, <3>2, <3>3, <3>4 DEF AbstractLog!Commit
  <2>3. CASE tail = "glued"
    BY <1>2, <1>a, <2>1, <2>3 DEF WriteBody, AbstractLog!chainVars
  <2> QED BY <2>1, <2>2, <2>3
<1>3. ASSUME NEW t \in Thread, AppendReturn(t)
      PROVE  \/ AbstractLog!Confirm(event[t].id)
             \/ AbstractLog!Abandon({event[t].id})
  <2>1. pc[t] \in {"return", "fail"} /\ fate[event[t].id] = "open"
    BY <1>0, <1>3 DEF AppendReturn, CallInv, AppendPC
  <2>2. LogIdentifiers' = LogIdentifiers /\ tail' = tail
    BY <1>3, <1>a DEF AppendReturn, fileVars
  <2>3. CASE pc[t] = "return"
    <3>1. event[t].id \in AbstractLog!Present \/ tail = "glued"
      BY <1>0, <2>3 DEF CallInv, InLog
    <3>2. fate' = [fate EXCEPT ![event[t].id] = "ok"]
      BY <1>3, <2>3 DEF AppendReturn
    <3> QED BY <2>1, <2>2, <3>1, <3>2 DEF AbstractLog!Confirm
  <2>4. CASE pc[t] = "fail"
    <3>1. fate' = [fate EXCEPT ![event[t].id] = "err"]
      BY <1>3, <2>4 DEF AppendReturn
    <3>2. fate' = [e \in Event |-> IF e \in {event[t].id} THEN "err" ELSE fate[e]]
      BY <1>0, <3>1 DEF TypeOK
    <3> QED BY <2>1, <2>2, <3>2 DEF AbstractLog!Abandon
  <2> QED BY <2>1, <2>3, <2>4
<1>4. ASSUME NEW p \in Process, Crash(p)
      PROVE  \E S \in SUBSET Event : AbstractLog!Abandon(S)
  <2> DEFINE S == {e \in Event : \E t \in Of(p) : pc[t] \in AppendPC
                                                  /\ event[t].id = e}
  <2>1. \A e \in S : fate[e] = "open"
    BY <1>0 DEF CallInv, Of
  <2>2. fate' = [e \in Event |-> IF e \in S THEN "err" ELSE fate[e]]
    BY <1>4 DEF Crash
  <2>3. LogIdentifiers' = LogIdentifiers /\ tail' = tail
    BY <1>4, <1>a DEF Crash, fileVars
  <2>4. S \in SUBSET Event
    OBVIOUS
  <2> HIDE DEF S
  <2> QED BY <2>1, <2>2, <2>3, <2>4 DEF AbstractLog!Abandon
<1>5. ASSUME NEW t \in Thread, WriteFirst(t)
      PROVE  AbstractLog!Spoil \/ UNCHANGED AbstractLog!chainVars
  <2>1. pc[t] = "write" /\ tail \in {"clean", "whole"} /\ fate' = fate
    BY <1>0, <1>5 DEF WriteFirst, WriterReady
  <2>2. CASE tail = "clean"
    <3>1. log' = log /\ tail' = "torn"
      BY <1>5, <2>2 DEF WriteFirst
    <3> QED BY <1>a, <2>1, <2>2, <3>1 DEF AbstractLog!chainVars
  <2>3. CASE tail = "whole"
    <3>1. log' = Front(log) /\ tail' = "glued" /\ log # << >> /\ log \in Seq(EvidenceEvent)
      BY <1>0, <1>5, <2>3 DEF WriteFirst, WholeLine, TypeOK
    <3>2. \A u \in Thread : pc[u] \notin {"newline", "fail"}
      BY <1>0, <2>1 DEF Locked, HoldsFlock, HoldsMutex, AppendPC
    <3>3. fate[log[Len(log)].id] = "err"
      BY <1>0, <2>3, <3>2 DEF LastLine
    <3>4. /\ LogIdentifiers' = SubSeq(LogIdentifiers, 1, Len(LogIdentifiers) - 1)
          /\ LogIdentifiers # << >>
          /\ LogIdentifiers[Len(LogIdentifiers)] = log[Len(log)].id
      BY <3>1, IdentifiersOfFront DEF LogIdentifiers
    <3> QED BY <2>1, <2>3, <3>1, <3>3, <3>4 DEF AbstractLog!Spoil
  <2> QED BY <2>1, <2>2, <2>3
<1>6. ASSUME NEW t \in Thread,
             \/ LockMutex(t) \/ LockExclusive(t) \/ ReadExisting(t)
             \/ WriteNewline(t) \/ WriteFails(t)
             \/ ReplayCall(t) \/ LockShared(t) \/ ReplayLoad(t)
      PROVE  UNCHANGED AbstractLog!chainVars
  <2>1. log' = log /\ fate' = fate /\ (tail' = "glued" <=> tail = "glued")
    BY <1>6 DEF LockMutex, LockExclusive, ReadExisting, WriteNewline, WriteFails,
                ReplayCall, LockShared, ReplayLoad, fileVars
  <2> QED BY <1>a, <2>1 DEF AbstractLog!chainVars
<1>7. CASE UNCHANGED vars
  BY <1>7, <1>a DEF vars, AbstractLog!chainVars
<1>8. \A t \in Thread : pc[t] \in AppendPC => event[t].id \in Event
  BY <1>0 DEF EventHeld, EvidenceEvent
<1>9. ASSUME NEW t \in Thread, WriteBody(t) \/ AppendReturn(t)
      PROVE  event[t].id \in Event /\ {event[t].id} \in SUBSET Event
  BY <1>8, <1>9 DEF WriteBody, AppendReturn, AppendPC
<1> QED BY <1>1, <1>2, <1>3, <1>4, <1>5, <1>6, <1>7, <1>9
        DEF Next, AppendStep, ReplayStep, AbstractLog!Next

\* The detailed log, with its locks, its byte-wise writes and its crashes,
\* implements the atomic chain.
THEOREM LogImplementsChain == Spec => ImplementsChain
<1>1. Init => AbstractLog!Init
  BY InitRefines
<1>2. DInv /\ [Next]_vars => [AbstractLog!Next]_(AbstractLog!chainVars)
  BY NextRefines
<1> QED BY <1>1, <1>2, DInvHolds, PTL DEF Spec, ImplementsChain, AbstractLog!Spec

----------------------------------------------------------------------------
(* What a step may do to the file.                                         *)

\* The actions that write find the file as the inductive invariant says.
LEMMA TornStep ==
  ASSUME IInv, [Next]_vars, Ruined
  PROVE  Ruined' /\ tail' = tail /\ log' = log
<1> USE DEF Ruined
<1>t. TypeOK
  BY DEF IInv
<1>1. ASSUME NEW t \in Thread, WriteFirst(t) PROVE FALSE
  BY <1>1 DEF WriteFirst, IInv, WriterReady
<1>2. ASSUME NEW t \in Thread, WriteBody(t) \/ WriteNewline(t) \/ WriteFails(t)
      PROVE  FALSE
  BY <1>2 DEF WriteBody, WriteNewline, WriteFails, Writing
<1>3. ASSUME NEW t \in Thread, NEW e \in Event, AppendCall(t, e)
      PROVE  Ruined' /\ tail' = tail /\ log' = log
  BY <1>t, <1>3 DEF AppendCall, fileVars, Writing, TypeOK
<1>4. ASSUME NEW t \in Thread,
             \/ LockMutex(t) \/ LockExclusive(t) \/ ReadExisting(t)
             \/ AppendReturn(t) \/ ReplayCall(t) \/ LockShared(t) \/ ReplayLoad(t)
      PROVE  Ruined' /\ tail' = tail /\ log' = log
  BY <1>t, <1>4 DEF LockMutex, LockExclusive, ReadExisting, AppendReturn,
                    ReplayCall, LockShared, ReplayLoad, fileVars, Writing, TypeOK
<1>5. ASSUME NEW p \in Process, Crash(p)
      PROVE  Ruined' /\ tail' = tail /\ log' = log
  BY <1>t, <1>5 DEF Crash, fileVars, Writing, TypeOK
<1>6. CASE UNCHANGED vars
  BY <1>6 DEF vars, fileVars
<1> QED BY <1>1, <1>2, <1>3, <1>4, <1>5, <1>6 DEF Next, AppendStep, ReplayStep

\* A torn line is final: whatever the threads of all processes do, no write is
\* started behind it.
THEOREM TornStaysTorn == Spec => TornIsFinal
<1>1. IInv /\ [Next]_vars => [Ruined => Ruined' /\ tail' = tail /\ log' = log]_vars
  BY TornStep
<1> QED BY <1>1, InvariantHolds, PTL DEF Spec, TornIsFinal

\* A step leaves the log alone, appends one event to it, or spoils its last line;
\* a line that is spoilt stays so, and nothing is written behind it.
LEMMA LogStep ==
  ASSUME IInv, [Next]_vars
  PROVE  \/ log' = log /\ (tail = "glued" => tail' = "glued")
         \/ tail # "glued" /\ \E ev \in EvidenceEvent : log' = Append(log, ev)
         \/ tail = "whole" /\ tail' = "glued" /\ log # << >> /\ log' = Front(log)
<1>0. TypeOK /\ EventHeld /\ WriterReady /\ WholeLine
  BY DEF IInv
<1>1. ASSUME NEW t \in Thread, WriteFirst(t)
      PROVE  \/ log' = log /\ tail # "glued"
             \/ tail = "whole" /\ tail' = "glued" /\ log # << >> /\ log' = Front(log)
  BY <1>0, <1>1 DEF WriteFirst, WriterReady, WholeLine
<1>2. ASSUME NEW t \in Thread, WriteBody(t)
      PROVE  \/ log' = log /\ tail' = tail
             \/ tail = "torn" /\ \E ev \in EvidenceEvent : log' = Append(log, ev)
  <2>1. event[t] \in EvidenceEvent
    BY <1>0, <1>2 DEF EventHeld, WriteBody, AppendPC
  <2> QED BY <1>2, <2>1 DEF WriteBody
<1>3. ASSUME NEW t \in Thread, NEW e \in Event, AppendCall(t, e)
      PROVE  log' = log /\ tail' = tail
  BY <1>3 DEF AppendCall, fileVars
<1>4. ASSUME NEW t \in Thread,
             \/ LockMutex(t) \/ LockExclusive(t) \/ ReadExisting(t) \/ WriteNewline(t)
             \/ WriteFails(t) \/ AppendReturn(t) \/ ReplayCall(t) \/ LockShared(t)
             \/ ReplayLoad(t)
      PROVE  log' = log /\ (tail = "glued" => tail' = "glued")
  BY <1>4 DEF LockMutex, LockExclusive, ReadExisting, WriteNewline, WriteFails,
              AppendReturn, ReplayCall, LockShared, ReplayLoad, fileVars
<1>5. ASSUME NEW p \in Process, Crash(p) PROVE log' = log /\ tail' = tail
  BY <1>5 DEF Crash, fileVars
<1>6. CASE UNCHANGED vars
  BY <1>6 DEF vars, fileVars
<1> QED BY <1>1, <1>2, <1>3, <1>4, <1>5, <1>6 DEF Next, AppendStep, ReplayStep

\* A prefix of the log is one of the log of the next state.
LEMMA PrefixStep ==
  ASSUME NEW s \in Seq(EvidenceEvent), NEW u \in Seq(EvidenceEvent),
         NEW v, v = u \/ \E ev \in EvidenceEvent : v = Append(u, ev),
         IsPrefix(s, u)
  PROVE  IsPrefix(s, v)
<1>1. CASE v = u
  BY <1>1
<1>2. ASSUME NEW ev \in EvidenceEvent, v = Append(u, ev) PROVE IsPrefix(s, v)
  <2>1. /\ v \in Seq(EvidenceEvent) /\ Len(v) = Len(u) + 1
        /\ \A i \in 1..Len(u) : v[i] = u[i]
    BY <1>2
  <2>2. Len(s) \in Nat /\ Len(u) \in Nat /\ Len(s) <= Len(u)
    BY DEF IsPrefix
  <2>3. SubSeq(v, 1, Len(s)) = SubSeq(u, 1, Len(s))
    BY <2>1, <2>2
  <2> QED BY <2>1, <2>2, <2>3 DEF IsPrefix
<1> QED BY <1>1, <1>2

\* Every sequence is a prefix of itself.
LEMMA PrefixOfItself ==
  ASSUME NEW s \in Seq(EvidenceEvent) PROVE IsPrefix(s, s)
BY DEF IsPrefix

\* A line that lacks its newline is being written, where no write can stop there.
LEMMA NoGlueStep ==
  ASSUME "whole" \notin CutPoints, IInv, NoGlue, [Next]_vars
  PROVE  NoGlue'
<1>0. TypeOK /\ Locked /\ WriterReady
  BY DEF IInv
<1> USE DEF AppendPC, ReplayPC, HoldsMutex, HoldsFlock
<1>1. ASSUME NEW t \in Thread, NEW e \in Event, AppendCall(t, e) PROVE NoGlue'
  BY <1>0, <1>1 DEF AppendCall, NoGlue, TypeOK, fileVars
<1>2. ASSUME NEW t \in Thread,
             \/ LockMutex(t) \/ LockExclusive(t) \/ ReadExisting(t) \/ AppendReturn(t)
             \/ ReplayCall(t) \/ LockShared(t) \/ ReplayLoad(t)
      PROVE  NoGlue'
  <2>1. /\ tail' = tail /\ pc[t] # "newline"
        /\ \A u \in Thread : u # t => pc'[u] = pc[u]
    BY <1>0, <1>2 DEF LockMutex, LockExclusive, ReadExisting, AppendReturn, ReplayCall,
                      LockShared, ReplayLoad, fileVars, TypeOK
  <2> QED BY <2>1 DEF NoGlue
<1>3. ASSUME NEW t \in Thread, WriteFirst(t) PROVE NoGlue'
  <2>1. pc[t] = "write" /\ tail \in {"clean", "whole"}
    BY <1>0, <1>3 DEF WriteFirst, WriterReady
  <2>2. tail # "whole"
    BY <1>0, <2>1 DEF NoGlue, Locked
  <2> QED BY <1>3, <2>1, <2>2 DEF WriteFirst, NoGlue
<1>4. ASSUME NEW t \in Thread, WriteBody(t) PROVE NoGlue'
  BY <1>0, <1>4 DEF WriteBody, WriterReady, NoGlue, TypeOK
<1>5. ASSUME NEW t \in Thread, WriteNewline(t) PROVE NoGlue'
  BY <1>0, <1>5 DEF WriteNewline, NoGlue, TypeOK
<1>6. ASSUME NEW t \in Thread, WriteFails(t) PROVE NoGlue'
  BY <1>0, <1>6 DEF WriteFails, MayStop, Writing, NoGlue, fileVars
<1>7. ASSUME NEW p \in Process, Crash(p) PROVE NoGlue'
  <2>1. /\ tail' = tail
        /\ \A u \in Thread : u \notin Of(p) => pc'[u] = pc[u]
        /\ \A u \in Of(p) : pc[u] = "newline" => tail # "whole"
    BY <1>7 DEF Crash, MayStop, Writing, NoGlue, fileVars
  <2> QED BY <2>1 DEF NoGlue
<1>8. CASE UNCHANGED vars
  BY <1>8 DEF vars, NoGlue
<1> QED BY <1>1, <1>2, <1>3, <1>4, <1>5, <1>6, <1>7, <1>8 DEF Next, AppendStep, ReplayStep

\* Nothing that parsed is lost or rewritten, provided that no write can stop just
\* in front of its newline: then no line is ever spoilt.
THEOREM NeverRewritten ==
  ASSUME "whole" \notin CutPoints PROVE Spec => AppendOnly
<1> DEFINE NInv == IInv /\ NoGlue
<1>1. Init => NInv
  BY InitIInv DEF Init, NoGlue
<1>2. NInv /\ [Next]_vars => NInv'
  BY NextIInv, NoGlueStep
<1>3. NInv /\ [Next]_vars => [IsPrefix(log, log')]_vars
  <2> SUFFICES ASSUME NInv, [Next]_vars PROVE IsPrefix(log, log')
    OBVIOUS
  <2>1. log \in Seq(EvidenceEvent) /\ tail' # "glued"
    BY NoGlueStep DEF IInv, TypeOK, NoGlue
  <2> QED BY <2>1, LogStep, PrefixOfItself, PrefixStep
<1> QED BY <1>1, <1>2, <1>3, PTL DEF Spec, AppendOnly

\* A prefix of a row that loses its last event is one of what is left, or was all
\* of it.
LEMMA PrefixOfFront ==
  ASSUME NEW s \in Seq(EvidenceEvent), NEW u \in Seq(EvidenceEvent), u # << >>, IsPrefix(s, u)
  PROVE  IsPrefix(s, Front(u)) \/ s = u
<1>1. Front(u) \in Seq(EvidenceEvent) /\ Len(Front(u)) = Len(u) - 1
      /\ \A i \in 1..(Len(u) - 1) : Front(u)[i] = u[i]
  BY FrontElements
<1>2. Len(s) \in Nat /\ Len(u) \in Nat /\ Len(s) <= Len(u)
      /\ SubSeq(s, 1, Len(s)) = SubSeq(u, 1, Len(s))
  BY DEF IsPrefix
<1>3. CASE Len(s) = Len(u)
  <2>1. SubSeq(s, 1, Len(s)) = s /\ SubSeq(u, 1, Len(u)) = u
    OBVIOUS
  <2> QED BY <1>2, <1>3, <2>1
<1>4. CASE Len(s) # Len(u)
  <2>1. Len(s) <= Len(Front(u))
    BY <1>1, <1>2, <1>4
  <2>2. SubSeq(Front(u), 1, Len(s)) = SubSeq(u, 1, Len(s))
    BY <1>1, <1>2, <2>1
  <2> QED BY <1>2, <2>1, <2>2 DEF IsPrefix
<1> QED BY <1>3, <1>4

\* What a replay returned verifies and stays a prefix of the log, but for a last
\* line that is spoilt.
THEOREM ReplaysStayTrue == Spec => []ReplayIsStablePrefix
<1> DEFINE Seen(s) == /\ Verified(s)
                      /\ IsPrefix(s, log) \/ (tail = "glued" /\ log = Front(s))
           RInv == IInv /\ ReplayIsStablePrefix
<1>1. Init => RInv
  <2> SUFFICES ASSUME Init PROVE RInv
    OBVIOUS
  <2>1. ReplayIsStablePrefix
    BY DEF Init, ReplayIsStablePrefix, IsPrefix, Verified, VerifiesAt
  <2> QED BY <2>1, InitIInv
<1>2. RInv /\ [Next]_vars => RInv'
  <2> SUFFICES ASSUME RInv, [Next]_vars PROVE RInv'
    OBVIOUS
  <2>0. /\ log \in Seq(EvidenceEvent) /\ result \in [Thread -> ReplayResult]
        /\ ChainIntact
    BY DEF IInv, TypeOK
  <2>1. IInv'
    BY NextIInv
  <2>2. ASSUME NEW s \in Seq(EvidenceEvent),
               IsPrefix(s, log) \/ (tail = "glued" /\ log = Front(s))
        PROVE  IsPrefix(s, log') \/ (tail' = "glued" /\ log' = Front(s))
    <3>1. CASE log' = log /\ (tail = "glued" => tail' = "glued")
      BY <2>2, <3>1
    <3>2. CASE tail # "glued" /\ \E ev \in EvidenceEvent : log' = Append(log, ev)
      BY <2>0, <2>2, <3>2, PrefixStep
    <3>3. CASE tail = "whole" /\ tail' = "glued" /\ log # << >> /\ log' = Front(log)
      BY <2>0, <2>2, <3>3, PrefixOfFront
    <3> QED BY <3>1, <3>2, <3>3, LogStep
  <2>3. ASSUME NEW t \in Thread, result'[t] = result[t], result'[t].ok
        PROVE  Seen(result[t].events)'
    <3>1. result[t].ok /\ result[t].events \in Seq(EvidenceEvent)
      BY <2>0, <2>3 DEF ReplayResult
    <3>2. Verified(result[t].events)
          /\ (IsPrefix(result[t].events, log) \/ (tail = "glued" /\ log = Front(result[t].events)))
      BY <3>1 DEF ReplayIsStablePrefix
    <3> QED BY <2>2, <2>3, <3>1, <3>2
  <2>4. ASSUME NEW t \in Thread, result'[t].events = << >>
        PROVE  Seen(result[t].events)'
    <3>1. log' \in Seq(EvidenceEvent)
      BY <2>1 DEF IInv, TypeOK
    <3> QED BY <2>4, <3>1 DEF IsPrefix, Verified, VerifiesAt
  <2>5. ASSUME NEW t \in Thread, ReplayLoad(t) PROVE ReplayIsStablePrefix'
    <3>1. \A u \in Thread \ {t} : result'[u] = result[u]
      BY <2>0, <2>5 DEF ReplayLoad
    <3>2. log' = log /\ result'[t].ok = Parses
          /\ (Parses => result'[t].events = log)
      BY <2>0, <2>5 DEF ReplayLoad, fileVars
    <3>3. result'[t].ok => Seen(result[t].events)'
      BY <2>0, <3>2, PrefixOfItself DEF ChainIntact
    <3> QED BY <2>3, <3>1, <3>3 DEF ReplayIsStablePrefix
  <2>6. ASSUME NEW t \in Thread, ReplayCall(t) PROVE ReplayIsStablePrefix'
    <3>1. \A u \in Thread \ {t} : result'[u] = result[u]
      BY <2>0, <2>6 DEF ReplayCall
    <3>2. result'[t] = result[t] \/ result'[t].events = << >>
      BY <2>0, <2>6 DEF ReplayCall
    <3> QED BY <2>3, <2>4, <3>1, <3>2 DEF ReplayIsStablePrefix
  <2>7. ASSUME UNCHANGED result PROVE ReplayIsStablePrefix'
    BY <2>3, <2>7 DEF ReplayIsStablePrefix
  <2>8. UNCHANGED result \/ \E t \in Thread : ReplayLoad(t) \/ ReplayCall(t)
    <3>1. ASSUME NEW t \in Thread, NEW e \in Event, AppendCall(t, e)
          PROVE  UNCHANGED result
      BY <3>1 DEF AppendCall
    <3>2. ASSUME NEW t \in Thread,
                 \/ LockMutex(t) \/ LockExclusive(t) \/ ReadExisting(t)
                 \/ WriteFirst(t) \/ WriteBody(t) \/ WriteNewline(t)
                 \/ WriteFails(t) \/ AppendReturn(t) \/ LockShared(t)
          PROVE  UNCHANGED result
      BY <3>2 DEF LockMutex, LockExclusive, ReadExisting, WriteFirst, WriteBody,
                  WriteNewline, WriteFails, AppendReturn, LockShared
    <3>3. ASSUME NEW p \in Process, Crash(p) PROVE UNCHANGED result
      BY <3>3 DEF Crash
    <3>4. CASE UNCHANGED vars
      BY <3>4 DEF vars
    <3> QED BY <3>1, <3>2, <3>3, <3>4 DEF Next, AppendStep, ReplayStep
  <2> QED BY <2>1, <2>5, <2>6, <2>7, <2>8
<1>3. RInv => ReplayIsStablePrefix
  OBVIOUS
<1> QED BY <1>1, <1>2, <1>3, PTL DEF Spec

----------------------------------------------------------------------------
(* What makes a call fail.                                                 *)

\* Without a fault every line that is not complete has its writer, whom the
\* locks keep the readers away from.
LEMMA FaultFreeStep ==
  ASSUME IInv, FaultFree, [Next]_vars
  PROVE  FaultFree'
<1>0. TypeOK /\ Locked /\ WriterReady
  BY DEF IInv
<1> USE LogAssumption DEF AppendPC, ReplayPC, HoldsMutex, HoldsFlock
<1>a. faults \in Nat
  BY <1>0 DEF TypeOK
<1> SUFFICES ASSUME faults' = 0 PROVE FaultFree'
  BY DEF FaultFree
<1>b. ASSUME NEW t \in Thread, WriteFails(t) PROVE FALSE
  BY <1>a, <1>b DEF WriteFails
<1>c. ASSUME NEW p \in Process, Crash(p) PROVE FALSE
  BY <1>a, <1>c DEF Crash
<1>d. faults = 0
  <2>1. CASE UNCHANGED vars
    BY <2>1 DEF vars
  <2>2. ASSUME NEW t \in Thread, NEW e \in Event, AppendCall(t, e) PROVE faults = 0
    BY <2>2 DEF AppendCall
  <2>3. ASSUME NEW t \in Thread, AppendStep(t) PROVE faults = 0
    BY <2>3 DEF AppendStep, LockMutex, LockExclusive, ReadExisting, WriteFirst, WriteBody,
                WriteNewline, AppendReturn
  <2>4. ASSUME NEW t \in Thread, ReplayCall(t) \/ ReplayStep(t) PROVE faults = 0
    BY <2>4 DEF ReplayCall, ReplayStep, LockShared, ReplayLoad
  <2> QED BY <1>b, <1>c, <2>1, <2>2, <2>3, <2>4 DEF Next
<1>1. /\ tail # "glued"
      /\ tail = "torn" => \E u \in Thread : pc[u] = "body"
      /\ tail = "whole" => \E u \in Thread : pc[u] = "newline"
      /\ \A u \in Thread : pc[u] # "fail" /\ result[u].ok
      /\ \A e \in Event : fate[e] # "err"
      /\ tail \in FileEnd
  BY <1>0, <1>d DEF FaultFree, TypeOK
<1>2. ASSUME NEW t \in Thread, NEW e \in Event, AppendCall(t, e) PROVE FaultFree'
  <2>1. /\ pc[t] = "idle" /\ pc'[t] = "mutex" /\ \A u \in Thread : u # t => pc'[u] = pc[u]
        /\ tail' = tail /\ result' = result /\ \A f \in Event : fate'[f] \in {fate[f], "open"}
    BY <1>0, <1>2 DEF AppendCall, TypeOK, fileVars
  <2> QED BY <1>1, <2>1 DEF FaultFree
<1>3. ASSUME NEW t \in Thread, LockMutex(t) \/ LockExclusive(t) \/ LockShared(t)
      PROVE  FaultFree'
  <2>1. /\ pc[t] \in {"mutex", "flock", "shared"} /\ pc'[t] \in {"flock", "read", "load"}
        /\ \A u \in Thread : u # t => pc'[u] = pc[u]
        /\ tail' = tail /\ result' = result /\ fate' = fate
    BY <1>0, <1>3 DEF LockMutex, LockExclusive, LockShared, TypeOK, fileVars
  <2> QED BY <1>1, <2>1 DEF FaultFree
<1>4. ASSUME NEW t \in Thread, ReadExisting(t) PROVE FaultFree'
  <2>1. pc[t] = "read"
    BY <1>4 DEF ReadExisting
  <2>2. Parses
    BY <1>0, <1>1, <2>1 DEF Parses, Locked, FileEnd
  <2>3. /\ pc'[t] = "write" /\ \A u \in Thread : u # t => pc'[u] = pc[u]
        /\ tail' = tail /\ result' = result /\ fate' = fate
    BY <1>0, <1>4, <2>2 DEF ReadExisting, TypeOK, fileVars
  <2> QED BY <1>1, <2>1, <2>3 DEF FaultFree
<1>5. ASSUME NEW t \in Thread, WriteFirst(t) PROVE FaultFree'
  <2>1. pc[t] = "write" /\ tail \in {"clean", "whole"}
    BY <1>0, <1>5 DEF WriteFirst, WriterReady
  <2>2. tail # "whole"
    BY <1>0, <1>1, <2>1 DEF Locked
  <2>3. /\ pc'[t] = "body" /\ \A u \in Thread : u # t => pc'[u] = pc[u]
        /\ tail' = "torn" /\ result' = result /\ fate' = fate
    BY <1>0, <1>5, <2>1, <2>2 DEF WriteFirst, TypeOK
  <2> QED BY <1>1, <2>3 DEF FaultFree
<1>6. ASSUME NEW t \in Thread, WriteBody(t) PROVE FaultFree'
  <2>1. tail = "torn"
    BY <1>0, <1>1, <1>6 DEF WriteBody, WriterReady
  <2>2. /\ pc'[t] = "newline" /\ \A u \in Thread : u # t => pc'[u] = pc[u]
        /\ tail' = "whole" /\ result' = result /\ fate' = fate
    BY <1>0, <1>6, <2>1 DEF WriteBody, TypeOK
  <2> QED BY <1>1, <2>2 DEF FaultFree
<1>7. ASSUME NEW t \in Thread, WriteNewline(t) PROVE FaultFree'
  <2>1. pc[t] = "newline"
    BY <1>7 DEF WriteNewline
  <2>2. tail # "torn"
    BY <1>0, <1>1, <2>1 DEF Locked
  <2>3. /\ pc'[t] = "return" /\ \A u \in Thread : u # t => pc'[u] = pc[u]
        /\ tail' = "clean" /\ result' = result /\ fate' = fate
    BY <1>0, <1>1, <1>7, <2>2 DEF WriteNewline, TypeOK, FileEnd
  <2> QED BY <1>1, <2>3 DEF FaultFree
<1>8. ASSUME NEW t \in Thread, AppendReturn(t) PROVE FaultFree'
  <2>1. /\ pc[t] = "return" /\ pc'[t] = "idle" /\ \A u \in Thread : u # t => pc'[u] = pc[u]
        /\ tail' = tail /\ result' = result /\ \A f \in Event : fate'[f] \in {fate[f], "ok"}
    BY <1>0, <1>1, <1>8 DEF AppendReturn, TypeOK, fileVars
  <2> QED BY <1>1, <2>1 DEF FaultFree
<1>9. ASSUME NEW t \in Thread, ReplayCall(t) PROVE FaultFree'
  <2>1. /\ pc[t] = "idle" /\ pc'[t] \in {"idle", "shared"}
        /\ \A u \in Thread : u # t => pc'[u] = pc[u] /\ result'[u] = result[u]
        /\ tail' = tail /\ fate' = fate
        /\ result'[t] = result[t] \/ result'[t].ok
    BY <1>0, <1>9 DEF ReplayCall, TypeOK, fileVars
  <2> QED BY <1>1, <2>1 DEF FaultFree
<1>10. ASSUME NEW t \in Thread, ReplayLoad(t) PROVE FaultFree'
  <2>1. pc[t] = "load"
    BY <1>10 DEF ReplayLoad
  <2>2. Parses
    BY <1>0, <1>1, <2>1 DEF Parses, Locked, FileEnd
  <2>3. /\ pc'[t] = "idle"
        /\ \A u \in Thread : u # t => pc'[u] = pc[u] /\ result'[u] = result[u]
        /\ tail' = tail /\ fate' = fate /\ result'[t].ok = Parses
    BY <1>0, <1>10 DEF ReplayLoad, TypeOK, fileVars
  <2> QED BY <1>1, <2>1, <2>2, <2>3 DEF FaultFree
<1>11. CASE UNCHANGED vars
  BY <1>11 DEF vars, FaultFree
<1> QED BY <1>b, <1>c, <1>2, <1>3, <1>4, <1>5, <1>6, <1>7, <1>8, <1>9, <1>10, <1>11
        DEF Next, AppendStep, ReplayStep

\* Contention alone never makes an append or a replay fail, however many threads
\* and processes share the file: an error takes an interrupted write.
THEOREM OnlyByFaults == Spec => []OnlyFaultsFail
<1>1. Init => IInv /\ FaultFree
  BY InitIInv DEF Init, FaultFree
<1>2. IInv /\ FaultFree /\ [Next]_vars => IInv' /\ FaultFree'
  BY NextIInv, FaultFreeStep
<1>3. FaultFree => OnlyFaultsFail
  BY DEF FaultFree, OnlyFaultsFail
<1> QED BY <1>1, <1>2, <1>3, PTL DEF Spec
=============================================================================
