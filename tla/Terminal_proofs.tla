-------------------------- MODULE Terminal_proofs --------------------------
(***************************************************************************)
(* Proofs about Terminal, for any waiters and conditions, any lengths of   *)
(* screen, tail, transcript and history, any output and any input.         *)
(***************************************************************************)
EXTENDS Terminal, FiniteSetTheorems, SequenceTheorems, TLAPS

----------------------------------------------------------------------------
(* The inductive invariant.                                                *)

\* A cut leaves KeepTranscript lines; before the first one all are there.
TailKept == kept >= KeepTranscript \/ kept = read

\* What an observation does not show has not arrived or has gone by.
ShownIsRecent ==
  \A w \in Waiter, line \in 1..MaxOutput :
    LET o == observation[w] IN
    /\ line \in o.shown => line <= o.read
    /\ line <= o.read /\ line \notin o.shown => line <= o.read - TailLines /\ line <= o.read - Rows

\* A wait leaves its events one by one, and its answer is that of its last look.
WaitHeld ==
  \A w \in Waiter :
    LET c == condition[w] IN
    /\ wpc[w] # "done" => result[w] = "none" /\ log[<<"Observation", w>>] = 0
    /\ wpc[w] = "idle" => log[<<"WaitFor", w>>] = 0
    /\ wpc[w] \in {"refresh", "observe", "decide"} =>
         c \in Conditions /\ c.kind # "invalid" /\ log[<<"WaitFor", w>>] = 1
    /\ result[w] \in {"ok", "timeout"} =>
         /\ c \in Conditions
         /\ log[<<"WaitFor", w>>] = 1 /\ log[<<"Observation", w>>] = 1
         /\ c.kind = "output" => (result[w] = "ok" <=> c.line \in observation[w].shown)
         /\ c.kind = "prompt" => (result[w] = "ok" <=> observation[w].read \in Prompts)
         /\ c.kind = "exit" => (result[w] = "ok" <=> observation[w].exit)

\* What is typed is logged once, and so is the attachment.
TypedHeld ==
  /\ apc \in {"idle", "record"} => log[<<"AttachHuman">>] = 0
  /\ log[<<"SendKeys">>] <= typed
  /\ apc = "send" => log[<<"SendKeys">>] < typed

\* The attach thread has delivered, or is about to write, all up to its offset.
AttachHeld ==
  /\ apc \in {"screen", "input", "send", "since", "delta"} => chunk = <<>>
  /\ apc \notin {"idle", "closed"} /\ ~cut =>
       /\ cursor <= kept
       /\ from..(read - kept + cursor) \subseteq Range(delivered) \cup Range(chunk)

IInv == TypeOK /\ TailKept /\ ShownIsRecent /\ WaitHeld /\ TypedHeld /\ AttachHeld

----------------------------------------------------------------------------
(* Operators.                                                              *)

\* A set of natural numbers has a least element.
LEMMA LeastElement ==
  ASSUME NEW S \in SUBSET Nat, S # {}
  PROVE  \E m \in S : \A n \in S : m <= n
<1> DEFINE initial == {0..n : n \in S}
           below == StrictSubsetOrdering(Nat)
<1>1. \A n \in Nat : 0..n \in FiniteSubsetsOf(Nat)
  BY FS_Interval DEF FiniteSubsetsOf
<1>2. \E x \in initial : \A y \in initial : ~ (<<y, x>> \in below)
  <2>1. initial \subseteq FiniteSubsetsOf(Nat) /\ initial # {}
    BY <1>1
  <2>2. IsWellFoundedOn(below, FiniteSubsetsOf(Nat))
    BY FS_StrictSubsetOrderingWellFounded
  <2> HIDE DEF initial, below
  <2> QED BY <2>1, <2>2, WFMin
<1>3. PICK m \in S : \A n \in S : ~ (<<0..n, 0..m>> \in below)
  BY <1>2
<1>4. ASSUME NEW n \in S, n < m PROVE FALSE
  <2>1. <<0..n, 0..m>> \in below
    BY <1>4 DEF StrictSubsetOrdering
  <2> QED BY <1>3, <2>1
<1> QED BY <1>4

\* What Lines holds.
LEMMA LinesHold ==
  ASSUME NEW a \in 1..(MaxOutput + 1), NEW b \in (a - 1)..MaxOutput
  PROVE  Lines(a, b) \in Seq(0..MaxOutput) /\ Range(Lines(a, b)) = a..b
<1> USE TerminalAssumption
<1>1. b - a + 1 \in Nat /\ \A i \in 1..(b - a + 1) : a + i - 1 \in 0..MaxOutput
  OBVIOUS
<1>2. Lines(a, b) \in Seq(0..MaxOutput)
  BY <1>1 DEF Lines
<1>3. \A i \in 1..(b - a + 1) : a + i - 1 \in a..b
  OBVIOUS
<1>4. \A n \in a..b : n - a + 1 \in 1..(b - a + 1) /\ a + (n - a + 1) - 1 = n
  OBVIOUS
<1>5. Range(Lines(a, b)) = a..b
  BY <1>3, <1>4 DEF Lines, Range
<1> QED BY <1>2, <1>5

\* The events of the log differ from each other.
LEMMA EventsDiffer ==
  /\ <<"AttachHuman">> \in Event /\ <<"SendKeys">> \in Event
  /\ <<"AttachHuman">> # <<"SendKeys">>
  /\ \A w \in Waiter :
       /\ <<"WaitFor", w>> \in Event /\ <<"Observation", w>> \in Event
       /\ <<"WaitFor", w>> \notin {<<"AttachHuman">>, <<"SendKeys">>}
       /\ <<"Observation", w>> \notin {<<"AttachHuman">>, <<"SendKeys">>}
       /\ \A v \in Waiter : /\ <<"WaitFor", w>> # <<"Observation", v>>
                            /\ v # w => /\ <<"WaitFor", w>> # <<"WaitFor", v>>
                                        /\ <<"Observation", w>> # <<"Observation", v>>
<1>1. \A w : Len(<<"WaitFor", w>>) = 2 /\ Len(<<"Observation", w>>) = 2
  OBVIOUS
<1>2. Len(<<"AttachHuman">>) = 1 /\ Len(<<"SendKeys">>) = 1
  OBVIOUS
<1>3. \A w : <<"WaitFor", w>> \notin {<<"AttachHuman">>, <<"SendKeys">>}
             /\ <<"Observation", w>> \notin {<<"AttachHuman">>, <<"SendKeys">>}
  BY <1>1, <1>2
<1> QED BY <1>3 DEF Event

\* Recording an event counts it and no other.
LEMMA Recorded ==
  ASSUME TypeOK, NEW e \in Event, Record(e), log[e] <= MaxTyped
  PROVE  /\ log'[e] = log[e] + 1
         /\ \A f \in Event \ {e} : log'[f] = log[f]
         /\ log' \in [Event -> 0..(1 + MaxTyped)]
BY SMTT(20), TerminalAssumption DEF Record, TypeOK

\* What follows the longest common prefix of two screens is a part of the new one.
LEMMA ScreenDeltaType ==
  ASSUME NEW S, NEW previous \in Seq(S), NEW current \in Seq(S)
  PROVE  ScreenDelta(previous, current) \in Seq(S)
<1> DEFINE Common(n) == /\ n <= Len(previous)
                        /\ SubSeq(previous, 1, n) = SubSeq(current, 1, n)
                        /\ \/ n = Len(previous) \/ n = Len(current)
                           \/ previous[n + 1] # current[n + 1]
           stops == {n \in 0..Len(current) :
                       n = Len(previous) \/ n = Len(current) \/ previous[n + 1] # current[n + 1]}
           same == CHOOSE n \in 0..Len(current) : Common(n)
<1>1. \E n \in 0..Len(current) : Common(n)
  <2>1. PICK n \in stops : \A m \in stops : n <= m
    <3>1. stops \subseteq Nat /\ Len(current) \in stops
      OBVIOUS
    <3> HIDE DEF stops
    <3> QED BY <3>1, LeastElement
  <2>2. n <= Len(previous)
    <3>1. Len(previous) <= Len(current) => Len(previous) \in stops
      OBVIOUS
    <3> QED BY <2>1, <3>1
  <2>3. \A m \in 1..n : previous[m] = current[m]
    <3>1. ASSUME NEW m \in 1..n PROVE m - 1 \notin stops
      BY <2>1
    <3> QED BY <2>2, <3>1
  <2>4. SubSeq(previous, 1, n) = SubSeq(current, 1, n)
    BY <2>2, <2>3
  <2> QED BY <2>2, <2>4
<1>2. same \in 0..Len(current)
  <2> HIDE DEF Common
  <2> QED BY <1>1
<1>3. ScreenDelta(previous, current) = SubSeq(current, same + 1, Len(current))
  BY DEF ScreenDelta
<1> HIDE DEF same
<1>4. \A i \in same + 1..Len(current) : current[i] \in S
  BY <1>2
<1> QED BY <1>2, <1>3, <1>4, SubSeqProperties

----------------------------------------------------------------------------
(* Types.                                                                  *)

\* The parts of TypeOK.
WaiterTypes ==
  /\ wpc \in [Waiter -> {"idle", "refresh", "observe", "decide", "done"}]
  /\ condition \in [Waiter -> Conditions \cup {NoCondition}]
  /\ observation \in [Waiter -> [read : 0..MaxOutput, shown : SUBSET (1..MaxOutput),
                                 exit : BOOLEAN]]
  /\ expired \in [Waiter -> BOOLEAN]
  /\ result \in [Waiter -> {"none", "ok", "timeout", "error"}]

StateTypes ==
  /\ printed \in 0..MaxOutput /\ read \in 0..printed
  /\ kept \in 0..Least(read, MaxTranscript)
  /\ {running, exit_status, quiet, cut} \subseteq BOOLEAN

AttachTypes ==
  /\ apc \in {"idle", "record", "initial", "screen", "input", "send", "since", "delta",
              "rescreen", "write", "closed"}
  /\ cursor \in 0..MaxTranscript
  /\ {last_screen, chunk, delivered} \subseteq Seq(0..MaxOutput)
  /\ from \in 1..(MaxOutput + 1)
  /\ typed \in 0..MaxTyped

LogType == log \in [Event -> 0..(1 + MaxTyped)]

\* TypeOK is its parts.
LEMMA Types == TypeOK <=> StateTypes /\ WaiterTypes /\ AttachTypes /\ LogType
BY DEF TypeOK, StateTypes, WaiterTypes, AttachTypes, LogType

\* Lengths of what is kept, and the lines they stand for.
LEMMA Bounds ==
  ASSUME StateTypes
  PROVE  /\ printed \in Nat /\ read \in Nat /\ kept \in Nat
         /\ read <= printed /\ printed <= MaxOutput /\ kept <= read /\ kept <= MaxTranscript
         /\ read - kept + 1 \in 1..(MaxOutput + 1)
         /\ Screen \in Seq(0..MaxOutput)
         /\ Transcript \in Seq(0..MaxOutput) /\ Len(Transcript) = kept
         /\ \A i \in 1..kept : Transcript[i] = read - kept + i
<1>1. /\ printed \in Nat /\ read \in Nat /\ kept \in Nat
      /\ read <= printed /\ printed <= MaxOutput /\ kept <= read /\ kept <= MaxTranscript
  BY TerminalAssumption DEF StateTypes, Least
<1>2. read - kept + 1 \in 1..(MaxOutput + 1)
  BY <1>1, TerminalAssumption
<1>3. Screen \in Seq(0..MaxOutput) /\ Transcript \in Seq(0..MaxOutput)
  <2> DEFINE a == read - kept + 1
             b == read - Least(Rows, read) + 1
  <2>1. /\ a \in 1..(MaxOutput + 1) /\ read \in (a - 1)..MaxOutput
        /\ b \in 1..(MaxOutput + 1) /\ read \in (b - 1)..MaxOutput
    BY <1>1, TerminalAssumption DEF Least
  <2>2. Screen = Lines(b, read) /\ Transcript = Lines(a, read)
    BY DEF Screen, Transcript
  <2> HIDE DEF a, b
  <2> QED BY <2>1, <2>2, LinesHold
<1>4. Len(Transcript) = kept /\ \A i \in 1..kept : Transcript[i] = read - kept + i
  BY <1>1 DEF Transcript, Lines
<1> QED BY <1>1, <1>2, <1>3, <1>4

\* What an observation shows is recent.
LEMMA ObservedIs ==
  ASSUME StateTypes, TailKept, NEW w \in Waiter, Observe(w)
  PROVE  LET shown == (read - Least(Rows, read) + 1 .. read)
                        \cup (read - Least(TailLines, kept) + 1 .. read)
         IN
         /\ observation' = [observation EXCEPT ![w] = [read |-> read, shown |-> shown,
                                                       exit |-> exit_status]]
         /\ shown \in SUBSET (1..MaxOutput)
         /\ \A line \in 1..MaxOutput :
              /\ line \in shown => line <= read
              /\ line <= read /\ line \notin shown =>
                   line <= read - TailLines /\ line <= read - Rows
<1> DEFINE shown == (read - Least(Rows, read) + 1 .. read)
                      \cup (read - Least(TailLines, kept) + 1 .. read)
<1>1. observation' = [observation EXCEPT ![w] = [read |-> read, shown |-> shown,
                                                 exit |-> exit_status]]
  BY DEF Observe
<1>2. shown \in SUBSET (1..MaxOutput)
  BY SMTT(20), Bounds, TerminalAssumption DEF Least
<1>3. ASSUME NEW line \in 1..MaxOutput
      PROVE  /\ line \in shown => line <= read
             /\ line <= read /\ line \notin shown =>
                  line <= read - TailLines /\ line <= read - Rows
  <2>1. line \in shown => line <= read
    BY Bounds DEF Least
  <2>2. ASSUME line <= read, line \notin shown
        PROVE  line <= read - TailLines /\ line <= read - Rows
    <3>1. line <= read - Least(Rows, read) /\ line <= read - Least(TailLines, kept)
      <4>1. /\ line \notin (read - Least(Rows, read) + 1 .. read)
            /\ line \notin (read - Least(TailLines, kept) + 1 .. read)
        BY <2>2
      <4>2. Least(Rows, read) \in Nat /\ Least(TailLines, kept) \in Nat
        BY Bounds, TerminalAssumption DEF Least
      <4>3. read \in Nat /\ line \in Nat
        BY Bounds, TerminalAssumption
      <4> HIDE DEF shown
      <4> QED BY <2>2, <4>1, <4>2, <4>3
    <3>2. kept >= TailLines \/ kept = read
      BY Bounds, TerminalAssumption DEF TailKept
    <3> QED BY SMTT(20), <3>1, <3>2, Bounds, TerminalAssumption DEF Least
  <2> QED BY <2>1, <2>2
<1> QED BY <1>1, <1>2, <1>3

\* The state of a session keeps its types, and its transcript its length.
LEMMA NextStateTypes ==
  ASSUME TypeOK, TailKept, [Next]_vars
  PROVE  StateTypes' /\ TailKept'
<1> USE TerminalAssumption DEF StateTypes, TailKept
<1>0. StateTypes
  BY Types
<1>1. CASE UNCHANGED <<printed, read, kept>> /\ {running', exit_status', quiet', cut'} \subseteq BOOLEAN
  BY <1>0, <1>1
<1>2. CASE Prints
  BY <1>0, <1>2, Bounds DEF Prints, state
<1>3. CASE Read
  <2>1. PICK n \in 1..(printed - read) :
          /\ read' = read + n
          /\ kept' = IF kept + n > MaxTranscript THEN KeepTranscript ELSE kept + n
          /\ cut' = (cut \/ kept + n > MaxTranscript)
    BY <1>3 DEF Read
  <2>2. /\ UNCHANGED <<printed, running, exit_status>> /\ quiet' = FALSE
        /\ printed \in Nat /\ read \in Nat /\ kept \in Nat /\ n \in Nat
        /\ read + n <= printed /\ kept <= read
    BY <1>0, <1>3, Bounds DEF Read, shell
  <2>3. kept' \in 0..Least(read', MaxTranscript)
    BY <2>1, <2>2 DEF Least
  <2>4. {running', exit_status', quiet', cut'} \subseteq BOOLEAN
    BY <1>0, <2>1, <2>2
  <2>5. printed' \in 0..MaxOutput /\ read' \in 0..printed' /\ (kept' >= KeepTranscript \/ kept' = read')
    BY <1>0, <2>1, <2>2
  <2> QED BY <2>3, <2>4, <2>5
<1>4. CASE ShellExits \/ GetsQuiet
  <2>1. UNCHANGED <<printed, read, kept>> /\ {running', exit_status', quiet', cut'} \subseteq BOOLEAN
    BY <1>0, <1>4 DEF ShellExits, GetsQuiet, shell, state
  <2> QED BY <1>1, <2>1
<1>5. ASSUME NEW w \in Waiter, WaitCall(w) \/ Expire(w) \/ WaitStep(w) \/ WaitFails(w)
      PROVE  StateTypes' /\ TailKept'
  <2>1. UNCHANGED <<printed, read, kept>> /\ {running', exit_status', quiet', cut'} \subseteq BOOLEAN
    BY <1>0, <1>5 DEF WaitCall, Expire, WaitStep, RefreshExit, Observe, Decide, WaitFails,
                      shell, state
  <2> QED BY <1>1, <2>1
<1>6. CASE AttachCall \/ AttachStep
  <2>1. UNCHANGED <<printed, read, kept>> /\ {running', exit_status', quiet', cut'} \subseteq BOOLEAN
    BY <1>0, <1>6 DEF AttachCall, AttachStep, RecordAttach, WriteInitial, FirstScreen, AttachInput,
                      RecordTyped, Since, Delta, Rescreen, WriteChunk, Detach, others, shell, state
  <2> QED BY <1>1, <2>1
<1>7. CASE UNCHANGED vars
  BY <1>0, <1>1, <1>7 DEF vars
<1> QED BY <1>2, <1>3, <1>4, <1>5, <1>6, <1>7 DEF Next

\* A wait keeps its types, and its observations what they say.
LEMMA NextWaiterTypes ==
  ASSUME TypeOK, TailKept, ShownIsRecent, [Next]_vars
  PROVE  WaiterTypes' /\ ShownIsRecent'
<1> USE DEF WaiterTypes
<1>0. WaiterTypes /\ StateTypes
  BY Types
<1>1. CASE UNCHANGED waiters
  BY <1>0, <1>1 DEF waiters, ShownIsRecent
<1>2. CASE Prints \/ ShellExits \/ Read \/ GetsQuiet \/ UNCHANGED vars
  <2>1. UNCHANGED waiters
    BY <1>2 DEF Prints, ShellExits, Read, GetsQuiet, vars, waiters
  <2> QED BY <1>1, <2>1
<1>3. CASE AttachCall \/ AttachStep
  <2>1. UNCHANGED waiters
    BY <1>3 DEF AttachCall, AttachStep, RecordAttach, WriteInitial, FirstScreen, AttachInput,
                RecordTyped, Since, Delta, Rescreen, WriteChunk, Detach, others, waiters
  <2> QED BY <1>1, <2>1
<1>4. ASSUME NEW w \in Waiter, WaitCall(w) \/ Expire(w) \/ RefreshExit(w) \/ Decide(w) \/ WaitFails(w)
      PROVE  WaiterTypes' /\ ShownIsRecent'
  <2>1. observation' = observation
    BY <1>4 DEF WaitCall, Expire, RefreshExit, Decide, WaitFails
  <2>2. ShownIsRecent'
    BY <2>1 DEF ShownIsRecent
  <2>3. WaiterTypes'
    BY ZenonT(30), <1>0, <1>4 DEF WaitCall, Expire, RefreshExit, Decide, WaitFails, Outcome, Goto
  <2> QED BY <2>2, <2>3
<1>5. ASSUME NEW w \in Waiter, Observe(w)
      PROVE  WaiterTypes' /\ ShownIsRecent'
  <2> DEFINE shown == (read - Least(Rows, read) + 1 .. read)
                        \cup (read - Least(TailLines, kept) + 1 .. read)
             seen == [read |-> read, shown |-> shown, exit |-> exit_status]
  <2>1. /\ observation' = [observation EXCEPT ![w] = seen]
        /\ shown \in SUBSET (1..MaxOutput)
        /\ \A line \in 1..MaxOutput :
             /\ line \in shown => line <= read
             /\ line <= read /\ line \notin shown => line <= read - TailLines /\ line <= read - Rows
    BY <1>0, <1>5, ObservedIs
  <2>2. read \in 0..MaxOutput /\ exit_status \in BOOLEAN
    <3>1. read \in 0..MaxOutput
      BY <1>0, Bounds, TerminalAssumption
    <3>2. exit_status \in BOOLEAN
      BY <1>0 DEF StateTypes
    <3> QED BY <3>1, <3>2
  <2> HIDE DEF shown
  <2>3. /\ seen \in [read : 0..MaxOutput, shown : SUBSET (1..MaxOutput), exit : BOOLEAN]
        /\ seen.read = read /\ seen.shown = shown
    BY <2>1, <2>2
  <2> HIDE DEF seen
  <2>4. /\ observation'[w] = seen
        /\ \A v \in Waiter \ {w} : observation'[v] = observation[v]
    BY <1>0, <2>1
  <2>5. ShownIsRecent'
    BY <2>1, <2>3, <2>4 DEF ShownIsRecent
  <2>6. WaiterTypes'
    BY <1>0, <1>5, <2>1, <2>3 DEF Observe, Goto
  <2> QED BY <2>5, <2>6
<1> QED BY <1>2, <1>3, <1>4, <1>5 DEF Next, WaitStep

\* The attachment keeps its types.
LEMMA NextAttachTypes ==
  ASSUME TypeOK, [Next]_vars
  PROVE  AttachTypes'
<1> USE DEF AttachTypes, attach
<1>0. StateTypes /\ AttachTypes
  BY Types
<1>1. CASE UNCHANGED attach /\ from' = from
  BY <1>0, <1>1
<1>2. CASE Prints \/ ShellExits \/ Read \/ GetsQuiet \/ UNCHANGED vars
  <2>1. UNCHANGED attach /\ from' = from
    BY <1>2 DEF Prints, ShellExits, Read, GetsQuiet, vars
  <2> QED BY <1>1, <2>1
<1>3. ASSUME NEW w \in Waiter, WaitCall(w) \/ Expire(w) \/ WaitStep(w) \/ WaitFails(w)
      PROVE  AttachTypes'
  <2>1. UNCHANGED attach /\ from' = from
    BY <1>3 DEF WaitCall, Expire, WaitStep, RefreshExit, Observe, Decide, WaitFails
  <2> QED BY <1>1, <2>1
<1>4. <<>> \in Seq(0..MaxOutput) /\ NoScreen \in Seq(0..MaxOutput)
  <2>1. 0 \in 0..MaxOutput
    BY TerminalAssumption
  <2> QED BY <2>1 DEF NoScreen
<1>5. CASE AttachCall
  <2> DEFINE first == read - Least(History, kept) + 1
  <2>1. /\ apc' = "record" /\ cursor' = kept /\ from' = first /\ chunk' = Lines(first, read)
        /\ UNCHANGED <<last_screen, delivered, typed>>
    BY <1>5 DEF AttachCall
  <2>2. first \in 1..(MaxOutput + 1) /\ read \in (first - 1)..MaxOutput /\ kept \in 0..MaxTranscript
    <3>1. /\ read \in Nat /\ kept \in Nat /\ History \in Nat /\ MaxOutput \in Nat /\ MaxTranscript \in Nat
          /\ kept <= read /\ read <= MaxOutput /\ kept <= MaxTranscript
      BY SMTT(20), <1>0, Bounds, TerminalAssumption
    <3> QED BY <3>1 DEF Least
  <2> HIDE DEF first
  <2> QED BY <1>0, <2>1, <2>2, LinesHold
<1>6. CASE RecordAttach \/ FirstScreen \/ AttachInput \/ RecordTyped \/ Rescreen
  <2>1. UNCHANGED <<cursor, chunk, delivered, from>> /\ (last_screen' = last_screen \/ last_screen' = Screen)
    BY <1>6 DEF RecordAttach, FirstScreen, AttachInput, RecordTyped, Rescreen
  <2>2. typed' = typed \/ (typed < MaxTyped /\ typed' = typed + 1)
    BY <1>6 DEF RecordAttach, FirstScreen, AttachInput, RecordTyped, Rescreen
  <2>3. apc' \in {"initial", "input", "send", "since", "write"}
    BY <1>6 DEF RecordAttach, FirstScreen, AttachInput, RecordTyped, Rescreen
  <2>4. {last_screen', chunk', delivered'} \subseteq Seq(0..MaxOutput)
    BY <1>0, <2>1, Bounds
  <2>5. typed' \in 0..MaxTyped
    BY <1>0, <2>2, TerminalAssumption
  <2> QED BY <1>0, <2>1, <2>3, <2>4, <2>5
<1>7. CASE WriteInitial \/ WriteChunk
  <2>1. /\ delivered' = delivered \o chunk /\ chunk' = <<>>
        /\ apc' \in {"screen", "input"} /\ UNCHANGED <<cursor, last_screen, from, typed>>
    BY <1>7 DEF WriteInitial, WriteChunk
  <2>2. delivered' \in Seq(0..MaxOutput)
    BY <1>0, <2>1, ConcatProperties
  <2> QED BY <1>0, <1>4, <2>1, <2>2
<1>8. CASE Since
  <2>1. /\ chunk' = SubSeq(Transcript, cursor + 1, kept) /\ cursor' = kept
        /\ apc' \in {"delta", "rescreen"} /\ UNCHANGED <<last_screen, delivered, from, typed>>
    BY <1>8 DEF Since
  <2>2. \A i \in cursor + 1..kept : Transcript[i] \in 0..MaxOutput
    <3>1. /\ read \in Nat /\ kept \in Nat /\ MaxOutput \in Nat /\ cursor \in Nat
          /\ kept <= read /\ read <= MaxOutput /\ \A i \in 1..kept : Transcript[i] = read - kept + i
      BY SMTT(20), <1>0, Bounds, TerminalAssumption
    <3> QED BY <3>1
  <2>3. chunk' \in Seq(0..MaxOutput)
    BY <1>0, <2>1, <2>2, Bounds, SubSeqProperties
  <2>4. kept \in 0..MaxTranscript
    BY <1>0, Bounds, TerminalAssumption
  <2> QED BY <1>0, <2>1, <2>3, <2>4
<1>9. CASE Delta
  <2>1. /\ chunk' = <<>> \/ chunk' = ScreenDelta(last_screen, Screen)
        /\ last_screen' = Screen /\ apc' = "write"
        /\ UNCHANGED <<cursor, delivered, from, typed>>
    BY <1>9 DEF Delta
  <2>2. chunk' \in Seq(0..MaxOutput)
    BY <1>0, <1>4, <2>1, Bounds, ScreenDeltaType
  <2> QED BY <1>0, <2>1, <2>2, Bounds
<1>10. CASE Detach
  BY <1>0, <1>4, <1>10, TerminalAssumption DEF Detach
<1> QED BY <1>2, <1>3, <1>5, <1>6, <1>7, <1>8, <1>9, <1>10 DEF Next, AttachStep

\* Every event is recorded within its bound.
LEMMA LogIs ==
  ASSUME TypeOK, WaitHeld, TypedHeld, [Next]_vars
  PROVE  /\ LogType'
         /\ \/ log' = log
            \/ \E e \in Event : Record(e) /\ log[e] <= MaxTyped
<1> DEFINE Goal == log' = log \/ \E e \in Event : Record(e) /\ log[e] <= MaxTyped
<1>0. LogType /\ AttachTypes /\ MaxTyped \in Nat
  BY Types, TerminalAssumption
<1>1. ASSUME Prints \/ ShellExits \/ Read \/ GetsQuiet \/ UNCHANGED vars
      PROVE  Goal
  BY <1>1 DEF Prints, ShellExits, Read, GetsQuiet, vars
<1>2. ASSUME NEW w \in Waiter, WaitCall(w)
      PROVE  Goal
  <2>1. wpc[w] = "idle" /\ Record(<<"WaitFor", w>>)
    BY <1>2 DEF WaitCall
  <2>2. log[<<"WaitFor", w>>] = 0
    BY <2>1 DEF WaitHeld
  <2>3. <<"WaitFor", w>> \in Event
    BY EventsDiffer
  <2> QED BY <1>0, <2>1, <2>2, <2>3
<1>3. ASSUME NEW w \in Waiter, Expire(w) \/ RefreshExit(w) \/ Observe(w) \/ WaitFails(w)
      PROVE  Goal
  BY <1>3 DEF Expire, RefreshExit, Observe, WaitFails
<1>4. ASSUME NEW w \in Waiter, Decide(w)
      PROVE  Goal
  <2>1. wpc[w] = "decide" /\ (log' = log \/ Record(<<"Observation", w>>))
    BY <1>4 DEF Decide, Outcome
  <2>2. log[<<"Observation", w>>] = 0
    BY <2>1 DEF WaitHeld
  <2>3. <<"Observation", w>> \in Event
    BY EventsDiffer
  <2> QED BY <1>0, <2>1, <2>2, <2>3
<1>5. ASSUME RecordAttach
      PROVE  Goal
  BY <1>0, <1>5, EventsDiffer DEF RecordAttach, TypedHeld
<1>6. ASSUME RecordTyped
      PROVE  Goal
  <2>1. apc = "send" /\ Record(<<"SendKeys">>)
    BY <1>6 DEF RecordTyped
  <2> QED BY <1>0, <2>1, EventsDiffer DEF TypedHeld, AttachTypes, LogType
<1>7. ASSUME \/ AttachCall \/ WriteInitial \/ FirstScreen \/ AttachInput \/ Since \/ Delta
             \/ Rescreen \/ WriteChunk \/ Detach
      PROVE  Goal
  BY <1>7 DEF AttachCall, WriteInitial, FirstScreen, AttachInput, Since, Delta, Rescreen,
              WriteChunk, Detach
<1> HIDE DEF Goal
<1>8. Goal
  BY <1>1, <1>2, <1>3, <1>4, <1>5, <1>6, <1>7 DEF Next, WaitStep, AttachStep, Goal
<1>9. LogType'
  BY <1>0, <1>8, Recorded DEF LogType, Goal
<1> QED BY <1>8, <1>9 DEF Goal

----------------------------------------------------------------------------
(* The events of a wait, and its answer.                                   *)

\* A wait that takes no step keeps its events: no other thread records them.
LEMMA OtherEvents ==
  ASSUME TypeOK, WaitHeld, TypedHeld, [Next]_vars, NEW w \in Waiter,
         ~WaitCall(w), ~Decide(w)
  PROVE  /\ log'[<<"WaitFor", w>>] = log[<<"WaitFor", w>>]
         /\ log'[<<"Observation", w>>] = log[<<"Observation", w>>]
<1> DEFINE Mine == {<<"WaitFor", w>>, <<"Observation", w>>}
<1>1. \A e \in Event \ Mine : Record(e) => \A f \in Mine : log'[f] = log[f]
  <2>1. Mine \subseteq Event
    BY EventsDiffer
  <2> QED BY <2>1 DEF Record, TypeOK
<1>2. \/ log' = log
      \/ \E e \in Event \ Mine : Record(e)
  <2>1. CASE Prints \/ ShellExits \/ Read \/ GetsQuiet \/ UNCHANGED vars
    BY <2>1 DEF Prints, ShellExits, Read, GetsQuiet, vars
  <2>2. ASSUME NEW v \in Waiter, WaitCall(v)
        PROVE  \E e \in Event \ Mine : Record(e)
    <3>1. v # w /\ Record(<<"WaitFor", v>>)
      BY <2>2 DEF WaitCall
    <3> QED BY <3>1, EventsDiffer
  <2>3. ASSUME NEW v \in Waiter, Expire(v) \/ RefreshExit(v) \/ Observe(v) \/ WaitFails(v)
        PROVE  log' = log
    BY <2>3 DEF Expire, RefreshExit, Observe, WaitFails
  <2>4. ASSUME NEW v \in Waiter, Decide(v)
        PROVE  log' = log \/ \E e \in Event \ Mine : Record(e)
    <3>1. v # w /\ (log' = log \/ Record(<<"Observation", v>>))
      BY <2>4 DEF Decide, Outcome
    <3> QED BY <3>1, EventsDiffer
  <2>5. CASE RecordAttach \/ RecordTyped
    <3>1. Record(<<"AttachHuman">>) \/ Record(<<"SendKeys">>)
      BY <2>5 DEF RecordAttach, RecordTyped
    <3> QED BY <3>1, EventsDiffer
  <2>6. CASE AttachCall \/ WriteInitial \/ FirstScreen \/ AttachInput \/ Since \/ Delta \/ Rescreen
             \/ WriteChunk \/ Detach
    BY <2>6 DEF AttachCall, WriteInitial, FirstScreen, AttachInput, Since, Delta, Rescreen,
                WriteChunk, Detach
  <2> HIDE DEF Mine
  <2> QED BY <2>1, <2>2, <2>3, <2>4, <2>5, <2>6 DEF Next, WaitStep, AttachStep
<1> QED BY <1>1, <1>2

\* What a wait does not do itself leaves its label, condition, answer and
\* observation alone.
LEMMA OtherWaits ==
  ASSUME TypeOK, [Next]_vars, NEW w \in Waiter,
         ~WaitCall(w), ~RefreshExit(w), ~Observe(w), ~Decide(w), ~WaitFails(w)
  PROVE  /\ wpc'[w] = wpc[w] /\ condition'[w] = condition[w]
         /\ result'[w] = result[w] /\ observation'[w] = observation[w]
<1> USE DEF TypeOK, waiters
<1>1. CASE Prints \/ ShellExits \/ Read \/ GetsQuiet \/ UNCHANGED vars
  BY <1>1 DEF Prints, ShellExits, Read, GetsQuiet, vars
<1>2. CASE AttachCall \/ AttachStep
  BY <1>2 DEF AttachCall, AttachStep, RecordAttach, WriteInitial, FirstScreen, AttachInput,
              RecordTyped, Since, Delta, Rescreen, WriteChunk, Detach, others
<1>3. ASSUME NEW v \in Waiter, WaitCall(v) \/ WaitStep(v) \/ WaitFails(v)
      PROVE  /\ wpc'[w] = wpc[w] /\ condition'[w] = condition[w]
             /\ result'[w] = result[w] /\ observation'[w] = observation[w]
  <2>1. v # w
    BY <1>3 DEF WaitStep
  <2> QED BY <1>3, <2>1 DEF WaitCall, WaitStep, RefreshExit, Observe, Decide, Outcome, WaitFails,
                            Goto
<1>4. ASSUME NEW v \in Waiter, Expire(v)
      PROVE  UNCHANGED <<wpc, condition, result, observation>>
  BY <1>4 DEF Expire
<1> QED BY <1>1, <1>2, <1>3, <1>4 DEF Next

\* A wait leaves its two events, and answers what it saw.
LEMMA NextWaitHeld ==
  ASSUME TypeOK, WaitHeld, TypedHeld, [Next]_vars
  PROVE  WaitHeld'
<1> DEFINE Held(w) ==
      LET c == condition[w] IN
      /\ wpc[w] # "done" => result[w] = "none" /\ log[<<"Observation", w>>] = 0
      /\ wpc[w] = "idle" => log[<<"WaitFor", w>>] = 0
      /\ wpc[w] \in {"refresh", "observe", "decide"} =>
           c \in Conditions /\ c.kind # "invalid" /\ log[<<"WaitFor", w>>] = 1
      /\ result[w] \in {"ok", "timeout"} =>
           /\ c \in Conditions
           /\ log[<<"WaitFor", w>>] = 1 /\ log[<<"Observation", w>>] = 1
           /\ c.kind = "output" => (result[w] = "ok" <=> c.line \in observation[w].shown)
           /\ c.kind = "prompt" => (result[w] = "ok" <=> observation[w].read \in Prompts)
           /\ c.kind = "exit" => (result[w] = "ok" <=> observation[w].exit)
<1>0. \A w \in Waiter : Held(w)
  BY DEF WaitHeld
<1> SUFFICES ASSUME NEW w \in Waiter PROVE Held(w)'
  BY DEF WaitHeld
<1>1. Held(w)
  BY <1>0
<1> DEFINE Noted == /\ log'[<<"WaitFor", w>>] = log[<<"WaitFor", w>>]
                    /\ log'[<<"Observation", w>>] = log[<<"Observation", w>>]
<1>2. CASE WaitCall(w)
  <2>1. PICK c \in Conditions :
          /\ condition' = [condition EXCEPT ![w] = c]
          /\ IF c.kind = "invalid"
             THEN Goto(w, "done") /\ result' = [result EXCEPT ![w] = "error"]
             ELSE Goto(w, "refresh") /\ UNCHANGED result
    BY <1>2 DEF WaitCall
  <2>2. wpc[w] = "idle" /\ Record(<<"WaitFor", w>>)
    BY <1>2 DEF WaitCall
  <2>3. log'[<<"WaitFor", w>>] = 1 /\ log'[<<"Observation", w>>] = 0
    BY <1>1, <2>2, EventsDiffer, Recorded, TerminalAssumption
  <2>4. /\ condition'[w] = c
        /\ \/ c.kind = "invalid" /\ wpc'[w] = "done" /\ result'[w] = "error"
           \/ c.kind # "invalid" /\ wpc'[w] = "refresh" /\ result'[w] = result[w]
    BY <2>1 DEF Goto, TypeOK
  <2> QED BY <1>1, <2>2, <2>3, <2>4
<1>3. CASE Decide(w)
  <2>1. wpc[w] = "decide" /\ condition' = condition /\ observation' = observation
    BY <1>3 DEF Decide
  <2>2. CASE wpc'[w] = "refresh" /\ UNCHANGED <<result, log>>
    BY <1>1, <2>1, <2>2
  <2>3. ASSUME NEW outcome \in {"ok", "timeout"}, Outcome(w, outcome),
               outcome = "ok" <=> Matches(w)
        PROVE  Held(w)'
    <3>1. wpc'[w] = "done" /\ result'[w] = outcome
      BY <2>3 DEF Outcome, Goto, TypeOK
    <3>2. log'[<<"WaitFor", w>>] = 1 /\ log'[<<"Observation", w>>] = 1
      <4>1. Record(<<"Observation", w>>)
        BY <2>3 DEF Outcome
      <4> QED BY <1>1, <2>1, <4>1, EventsDiffer, Recorded, TerminalAssumption
    <3>3. /\ condition[w].kind = "output" => (Matches(w) <=> condition[w].line \in observation[w].shown)
          /\ condition[w].kind = "prompt" => (Matches(w) <=> observation[w].read \in Prompts)
          /\ condition[w].kind = "exit" => (Matches(w) <=> observation[w].exit)
      BY DEF Matches
    <3> QED BY <1>1, <2>1, <2>3, <3>1, <3>2, <3>3
  <2> HIDE DEF Held
  <2>4. \/ wpc'[w] = "refresh" /\ UNCHANGED <<result, log>>
        \/ Outcome(w, "ok") /\ Matches(w)
        \/ Outcome(w, "timeout") /\ ~Matches(w)
    BY <1>3 DEF Decide, Goto, TypeOK
  <2> QED BY <2>2, <2>3, <2>4
<1>4. CASE (RefreshExit(w) \/ Observe(w)) /\ ~WaitCall(w) /\ ~Decide(w)
  <2>1. Noted
    BY <1>4, OtherEvents
  <2>2. /\ wpc[w] \in {"refresh", "observe"} /\ wpc'[w] \in {"observe", "decide"}
        /\ condition' = condition /\ result' = result
    BY <1>4 DEF RefreshExit, Observe, Goto, TypeOK
  <2> QED BY <1>1, <2>1, <2>2
<1>5. CASE WaitFails(w) /\ ~WaitCall(w) /\ ~Decide(w)
  <2>1. wpc'[w] = "done" /\ result'[w] = "error"
    BY <1>5 DEF WaitFails, Goto, TypeOK
  <2> QED BY <2>1
<1>6. CASE /\ ~WaitCall(w) /\ ~RefreshExit(w) /\ ~Observe(w) /\ ~Decide(w) /\ ~WaitFails(w)
  <2>1. Noted
    BY <1>6, OtherEvents
  <2>2. /\ wpc'[w] = wpc[w] /\ condition'[w] = condition[w]
        /\ result'[w] = result[w] /\ observation'[w] = observation[w]
    BY <1>6, OtherWaits
  <2> QED BY <1>1, <2>1, <2>2
<1> QED BY <1>2, <1>3, <1>4, <1>5, <1>6

----------------------------------------------------------------------------
(* The attachment.                                                         *)

\* Only the attach thread records the attachment and what is typed.
LEMMA AttachEvents ==
  ASSUME TypeOK, [Next]_vars, ~RecordAttach, ~RecordTyped
  PROVE  /\ log'[<<"AttachHuman">>] = log[<<"AttachHuman">>]
         /\ log'[<<"SendKeys">>] = log[<<"SendKeys">>]
<1> DEFINE Waits == {<<"WaitFor", w>> : w \in Waiter} \cup {<<"Observation", w>> : w \in Waiter}
<1>1. log' = log \/ \E e \in Waits : Record(e)
  <2>1. ASSUME NEW w \in Waiter, WaitCall(w) \/ Decide(w)
        PROVE  log' = log \/ \E e \in Waits : Record(e)
    <3>1. \/ log' = log \/ Record(<<"WaitFor", w>>) \/ Record(<<"Observation", w>>)
      BY <2>1 DEF WaitCall, Decide, Outcome
    <3> QED BY <3>1
  <2>2. ASSUME NEW w \in Waiter, Expire(w) \/ RefreshExit(w) \/ Observe(w) \/ WaitFails(w)
        PROVE  log' = log
    BY <2>2 DEF Expire, RefreshExit, Observe, WaitFails
  <2>3. CASE Prints \/ ShellExits \/ Read \/ GetsQuiet \/ UNCHANGED vars
    BY <2>3 DEF Prints, ShellExits, Read, GetsQuiet, vars
  <2>4. CASE AttachCall \/ WriteInitial \/ FirstScreen \/ AttachInput \/ Since \/ Delta \/ Rescreen
             \/ WriteChunk \/ Detach
    BY <2>4 DEF AttachCall, WriteInitial, FirstScreen, AttachInput, Since, Delta, Rescreen,
                WriteChunk, Detach
  <2> HIDE DEF Waits
  <2> QED BY <2>1, <2>2, <2>3, <2>4 DEF Next, WaitStep, AttachStep
<1>2. \A e \in Waits : e # <<"AttachHuman">> /\ e # <<"SendKeys">>
  BY EventsDiffer
<1>3. ASSUME NEW e \in Waits, Record(e)
      PROVE  /\ log'[<<"AttachHuman">>] = log[<<"AttachHuman">>]
             /\ log'[<<"SendKeys">>] = log[<<"SendKeys">>]
  <2> HIDE DEF Waits
  <2> QED BY <1>2, <1>3, EventsDiffer DEF Record, TypeOK
<1> QED BY <1>1, <1>3

\* A step that is not one of the attach thread leaves the attachment as it is,
\* and its place in the transcript too, unless it cuts the transcript.
LEMMA AttachWaits ==
  ASSUME TypeOK, [Next]_vars, ~AttachCall, ~AttachStep
  PROVE  /\ UNCHANGED <<apc, cursor, chunk, delivered, from, typed>>
         /\ ~cut' => ~cut /\ kept <= kept' /\ read' - kept' = read - kept
<1> USE DEF attach, state, shell
<1>0. StateTypes
  BY Types
<1>1. CASE Read
  <2>1. PICK n \in 1..(printed - read) :
          /\ read' = read + n
          /\ kept' = IF kept + n > MaxTranscript THEN KeepTranscript ELSE kept + n
          /\ cut' = (cut \/ kept + n > MaxTranscript)
    BY <1>1 DEF Read
  <2>2. /\ read \in Nat /\ kept \in Nat /\ n \in Nat
    BY <1>0, Bounds
  <2>3. UNCHANGED <<apc, cursor, chunk, delivered, from, typed>>
    BY <1>1 DEF Read
  <2>4. ~cut' => ~cut /\ kept' = kept + n
    BY <2>1, <2>2, TerminalAssumption
  <2> QED BY <2>1, <2>2, <2>3, <2>4
<1>2. CASE UNCHANGED <<apc, cursor, chunk, delivered, from, typed, cut, kept, read>>
  BY <1>0, <1>2, Bounds
<1>3. CASE Prints \/ ShellExits \/ GetsQuiet \/ UNCHANGED vars
  <2>1. UNCHANGED <<apc, cursor, chunk, delivered, from, typed, cut, kept, read>>
    BY <1>3 DEF Prints, ShellExits, GetsQuiet, vars
  <2> QED BY <1>2, <2>1
<1>4. ASSUME NEW w \in Waiter, WaitCall(w) \/ Expire(w) \/ WaitStep(w) \/ WaitFails(w)
      PROVE  UNCHANGED <<apc, cursor, chunk, delivered, from, typed, cut, kept, read>>
  BY <1>4 DEF WaitCall, Expire, WaitStep, RefreshExit, Observe, Decide, WaitFails
<1> QED BY <1>1, <1>2, <1>3, <1>4 DEF Next

\* What is typed is logged once, and so is the attachment.
LEMMA NextTypedHeld ==
  ASSUME TypeOK, TypedHeld, [Next]_vars
  PROVE  TypedHeld'
<1>0. /\ log[<<"SendKeys">>] \in Nat /\ log[<<"AttachHuman">>] \in Nat /\ typed \in Nat
      /\ MaxTyped \in Nat
  BY EventsDiffer, TerminalAssumption DEF TypeOK
<1>1. CASE RecordAttach
  <2>1. /\ apc' = "initial" /\ typed' = typed /\ log'[<<"SendKeys">>] = log[<<"SendKeys">>]
    BY <1>1, EventsDiffer DEF RecordAttach, Record, TypeOK
  <2> QED BY <2>1 DEF TypedHeld
<1>2. CASE RecordTyped
  <2>1. /\ apc = "send" /\ apc' = "since" /\ typed' = typed
        /\ log'[<<"SendKeys">>] = log[<<"SendKeys">>] + 1
    BY <1>2, EventsDiffer DEF RecordTyped, Record, TypeOK
  <2> QED BY <1>0, <2>1 DEF TypedHeld
<1>3. CASE ~RecordAttach /\ ~RecordTyped
  <2>1. /\ log'[<<"AttachHuman">>] = log[<<"AttachHuman">>]
        /\ log'[<<"SendKeys">>] = log[<<"SendKeys">>]
    BY <1>3, AttachEvents
  <2>2. CASE AttachCall \/ WriteInitial \/ FirstScreen \/ Since \/ Delta \/ Rescreen \/ WriteChunk
             \/ Detach
    <3>1. typed' = typed /\ apc' # "send" /\ apc' # "idle" /\ (apc' = "record" => apc = "idle")
      BY <2>2 DEF AttachCall, WriteInitial, FirstScreen, Since, Delta, Rescreen, WriteChunk, Detach
    <3> QED BY <2>1, <3>1 DEF TypedHeld
  <2>3. CASE AttachInput
    <3>1. /\ apc' \in {"send", "since"}
          /\ typed' = typed + 1 \/ (typed' = typed /\ apc' = "since")
      BY <2>3 DEF AttachInput
    <3> QED BY <1>0, <2>1, <3>1 DEF TypedHeld
  <2>4. CASE ~AttachCall /\ ~AttachStep
    BY <2>1, <2>4, AttachWaits DEF TypedHeld
  <2> QED BY <1>3, <2>2, <2>3, <2>4 DEF AttachStep
<1> QED BY <1>1, <1>2, <1>3

\* All lines up to the offset have been delivered or are about to be.
LEMMA NextAttachHeld ==
  ASSUME TypeOK, TailKept, AttachHeld, [Next]_vars
  PROVE  AttachHeld'
<1> DEFINE Covered == /\ cursor <= kept
                      /\ from..(read - kept + cursor) \subseteq Range(delivered) \cup Range(chunk)
<1>0. /\ StateTypes /\ AttachTypes
      /\ delivered \in Seq(0..MaxOutput) /\ chunk \in Seq(0..MaxOutput)
      /\ read \in Nat /\ kept \in Nat /\ cursor \in Nat /\ from \in Nat
      /\ kept <= read /\ read <= MaxOutput /\ MaxOutput \in Nat
  <2>1. StateTypes /\ AttachTypes
    BY Types
  <2> QED BY SMTT(20), <2>1, Bounds, TerminalAssumption DEF AttachTypes
<1>1. /\ apc \in {"screen", "input", "send", "since", "delta"} => chunk = <<>>
      /\ apc \notin {"idle", "closed"} /\ ~cut => Covered
  BY DEF AttachHeld
<1>2. Range(<<>>) = {}
  BY DEF Range
<1>3. CASE ~AttachCall /\ ~AttachStep
  <2>1. /\ UNCHANGED <<apc, cursor, chunk, delivered, from>>
        /\ ~cut' => ~cut /\ kept <= kept' /\ read' - kept' = read - kept
    BY <1>3, AttachWaits
  <2>2. read' \in Int /\ kept' \in Int
    BY NextStateTypes, TerminalAssumption DEF StateTypes, Least
  <2>3. Covered /\ ~cut' => Covered'
    <3> SUFFICES ASSUME Covered, ~cut'
                 PROVE  Covered'
      OBVIOUS
    <3>0. /\ kept <= kept' /\ read' - kept' = read - kept /\ cursor' = cursor /\ cursor <= kept
          /\ read \in Nat /\ kept \in Nat /\ cursor \in Nat /\ read' \in Int /\ kept' \in Int
      BY <1>0, <2>1, <2>2
    <3>1. cursor' <= kept'
      BY <3>0
    <3>2. read' - kept' + cursor' = read - kept + cursor
      BY <3>0
    <3> QED BY <2>1, <3>1, <3>2
  <2> QED BY <1>1, <2>1, <2>3 DEF AttachHeld
<1>4. CASE AttachCall
  <2> DEFINE first == read - Least(History, kept) + 1
  <2>1. /\ cursor' = kept /\ chunk' = Lines(first, read) /\ from' = first /\ apc' = "record"
        /\ UNCHANGED <<read, kept>>
    BY <1>4 DEF AttachCall, others, state
  <2>2. first \in 1..(MaxOutput + 1) /\ read \in (first - 1)..MaxOutput
    <3>1. History \in Nat
      BY TerminalAssumption
    <3> QED BY <1>0, <3>1 DEF Least
  <2> HIDE DEF first
  <2>3. Range(chunk') = first..read
    BY <2>1, <2>2, LinesHold
  <2>4. Covered'
    BY <1>0, <2>1, <2>3
  <2> QED BY <2>1, <2>4 DEF AttachHeld
<1>5. CASE RecordAttach \/ FirstScreen \/ AttachInput \/ RecordTyped \/ Delta \/ Rescreen
  <2>1. /\ UNCHANGED <<cursor, delivered, from, read, kept, cut>>
        /\ chunk' = chunk \/ chunk = <<>>
        /\ apc \notin {"idle", "closed"}
        /\ apc' \in {"input", "send", "since", "delta"} => chunk' = <<>>
        /\ apc' \in {"initial", "input", "send", "since", "write"}
    BY <1>1, <1>5 DEF RecordAttach, FirstScreen, AttachInput, RecordTyped, Delta, Rescreen,
                      others, state
  <2>2. Covered => Covered'
    BY <1>2, <2>1
  <2> QED BY <1>1, <2>1, <2>2 DEF AttachHeld
<1>6. CASE WriteInitial \/ WriteChunk
  <2>1. /\ delivered' = delivered \o chunk /\ chunk' = <<>>
        /\ UNCHANGED <<cursor, from, read, kept, cut>> /\ apc \in {"initial", "write"}
    BY <1>6 DEF WriteInitial, WriteChunk, others, state
  <2>2. Range(delivered') = Range(delivered) \cup Range(chunk)
    BY <1>0, <2>1, RangeConcatenation
  <2>3. Covered => Covered'
    BY <2>1, <2>2
  <2> QED BY <1>1, <2>1, <2>3 DEF AttachHeld
<1>7. CASE Since
  <2>1. /\ chunk' = SubSeq(Transcript, cursor + 1, kept) /\ cursor' = kept /\ apc = "since"
        /\ apc' \in {"delta", "rescreen"} /\ (apc' = "delta" => chunk' = <<>>)
        /\ UNCHANGED <<delivered, from, read, kept, cut>>
    BY <1>7 DEF Since, others, state
  <2>2. ASSUME ~cut
        PROVE  Covered'
    <3>1. cursor <= kept /\ from..(read - kept + cursor) \subseteq Range(delivered)
      BY <1>1, <1>2, <2>1, <2>2
    <3>2. \A i \in 1..kept : Transcript[i] = read - kept + i
      BY <1>0, Bounds
    <3>3. /\ Len(chunk') = kept - cursor
          /\ \A i \in 1..kept - cursor : chunk'[i] = read - kept + cursor + i
          /\ chunk' \in Seq(0..MaxOutput)
      <4>1. \A i \in cursor + 1..kept : Transcript[i] \in 0..MaxOutput
        BY <1>0, <3>2
      <4>2. /\ chunk' \in Seq(0..MaxOutput)
            /\ Len(chunk') = IF cursor + 1 <= kept THEN kept - (cursor + 1) + 1 ELSE 0
            /\ \A i \in 1..kept - (cursor + 1) + 1 : chunk'[i] = Transcript[cursor + 1 + i - 1]
        BY <1>0, <2>1, <4>1, SubSeqProperties
      <4>3. Len(chunk') = kept - cursor
        BY <1>0, <3>1, <4>2
      <4>4. ASSUME NEW i \in 1..kept - cursor
            PROVE  chunk'[i] = read - kept + cursor + i
        <5>1. i \in 1..kept - (cursor + 1) + 1 /\ cursor + 1 + i - 1 = cursor + i /\ cursor + i \in 1..kept
          BY <1>0, <3>1
        <5> QED BY <1>0, <3>2, <4>2, <5>1
      <4> QED BY <4>2, <4>3, <4>4
    <3>4. ASSUME NEW n \in (read - kept + cursor + 1)..read
          PROVE  n \in Range(chunk')
      <4>1. n - (read - kept + cursor) \in 1..kept - cursor
        BY <1>0, <3>1
      <4>2. chunk'[n - (read - kept + cursor)] = n
        BY <1>0, <3>3, <4>1
      <4> QED BY <3>3, <4>1, <4>2, RangeEquality
    <3>5. from..read \subseteq from..(read - kept + cursor) \cup (read - kept + cursor + 1)..read
      BY <1>0
    <3>6. read' - kept' + cursor' = read
      BY <1>0, <2>1
    <3> QED BY <1>0, <2>1, <3>1, <3>4, <3>5, <3>6
  <2> QED BY <2>1, <2>2 DEF AttachHeld
<1>8. CASE Detach
  BY <1>8 DEF Detach, AttachHeld
<1> QED BY <1>3, <1>4, <1>5, <1>6, <1>7, <1>8 DEF AttachStep

----------------------------------------------------------------------------
(* The invariant and what follows from it.                                 *)

\* The invariant holds before the first step.
LEMMA InitIInv ==
  ASSUME Init
  PROVE  IInv
<1> USE TerminalAssumption DEF Init
<1>1. StateTypes /\ TailKept
  <2>1. {running, exit_status, quiet, cut} \subseteq BOOLEAN
    OBVIOUS
  <2>2. printed = 0 /\ read = 0 /\ kept = 0
    OBVIOUS
  <2>3. 0 \in 0..Least(0, MaxTranscript)
    BY DEF Least
  <2> QED BY <2>1, <2>2, <2>3 DEF StateTypes, TailKept
<1>2. WaiterTypes /\ ShownIsRecent
  <2>1. PICK no \in BOOLEAN : NoObservation = [read |-> 0, shown |-> {}, exit |-> no]
    BY DEF NoObservation
  <2>2. /\ NoObservation \in [read : 0..MaxOutput, shown : SUBSET (1..MaxOutput), exit : BOOLEAN]
        /\ NoObservation.shown = {} /\ NoObservation.read = 0
    BY <2>1
  <2>3. WaiterTypes
    BY <2>2 DEF WaiterTypes
  <2>4. ShownIsRecent
    BY <2>2 DEF ShownIsRecent
  <2> QED BY <2>3, <2>4
<1>3. AttachTypes
  <2>1. NoScreen \in Seq(0..MaxOutput) /\ <<>> \in Seq(0..MaxOutput)
    BY DEF NoScreen
  <2> QED BY <2>1 DEF AttachTypes
<1>4. LogType
  BY DEF LogType
<1>5. WaitHeld
  BY EventsDiffer DEF WaitHeld
<1>6. TypedHeld /\ AttachHeld
  BY EventsDiffer DEF TypedHeld, AttachHeld
<1> QED BY <1>1, <1>2, <1>3, <1>4, <1>5, <1>6, Types DEF IInv

\* Every step keeps the invariant.
LEMMA NextIInv ==
  ASSUME IInv, [Next]_vars
  PROVE  IInv'
<1> USE DEF IInv
<1>1. StateTypes' /\ TailKept' /\ WaiterTypes' /\ ShownIsRecent' /\ AttachTypes' /\ LogType'
  BY NextStateTypes, NextWaiterTypes, NextAttachTypes, LogIs
<1>2. TypeOK'
  BY <1>1 DEF TypeOK, StateTypes, WaiterTypes, AttachTypes, LogType
<1>3. WaitHeld' /\ TypedHeld' /\ AttachHeld'
  BY NextWaitHeld, NextTypedHeld, NextAttachHeld
<1> QED BY <1>1, <1>2, <1>3

\* The invariant of a session, its waiters and its attachment.
THEOREM InvariantHolds == Spec => []IInv
<1>1. Init => IInv
  BY InitIInv
<1>2. IInv /\ [Next]_vars => IInv'
  BY NextIInv
<1> QED BY <1>1, <1>2, PTL DEF Spec

\* Every variable stays in its type.
THEOREM TypeCorrect == Spec => []TypeOK
<1>1. IInv => TypeOK
  BY DEF IInv
<1> QED BY <1>1, InvariantHolds, PTL

\* A wait that is answered, by a timeout too, leaves one WaitFor and one
\* Observation, however many waits, prints and attachments go on beside it.
THEOREM Recording == Spec => []WaitIsRecorded
<1>1. IInv => WaitIsRecorded
  BY DEF IInv, WaitHeld, WaitIsRecorded
<1> QED BY <1>1, InvariantHolds, PTL

\* The answer of a wait for a regular expression, a prompt or the exit is right
\* about its last look, whatever lines look like a prompt.
THEOREM RightOutcome == Spec => []OutcomeIsRight
<1>1. IInv => OutcomeIsRight
  <2> SUFFICES ASSUME IInv, NEW w \in Waiter, result[w] \in {"ok", "timeout"}
               PROVE  LET c == condition[w] o == observation[w] IN
                      CASE c.kind = "output" ->
                             IF result[w] = "ok" THEN c.line <= o.read
                             ELSE c.line > o.read
                                  \/ (c.line <= o.read - TailLines /\ c.line <= o.read - Rows)
                        [] c.kind = "prompt" -> result[w] = "ok" <=> o.read \in Prompts
                        [] c.kind = "exit" -> result[w] = "ok" <=> o.exit
                        [] OTHER -> TRUE
    BY DEF OutcomeIsRight
  <2> DEFINE c == condition[w]
             o == observation[w]
  <2>1. /\ c \in Conditions
        /\ c.kind = "output" => (result[w] = "ok" <=> c.line \in o.shown)
        /\ c.kind = "prompt" => (result[w] = "ok" <=> o.read \in Prompts)
        /\ c.kind = "exit" => (result[w] = "ok" <=> o.exit)
    BY DEF IInv, WaitHeld
  <2>2. c.kind = "output" => c.line \in 1..MaxOutput
    BY <2>1, TerminalAssumption DEF OutputCondition
  <2>3. \A line \in 1..MaxOutput :
          /\ line \in o.shown => line <= o.read
          /\ line <= o.read /\ line \notin o.shown =>
               line <= o.read - TailLines /\ line <= o.read - Rows
    BY DEF IInv, ShownIsRecent
  <2>4. o.read \in Int
    BY DEF IInv, TypeOK
  <2>5. CASE c.kind = "output"
    BY <2>1, <2>2, <2>3, <2>4, <2>5
  <2>6. CASE c.kind \in {"prompt", "exit"}
    BY <2>1, <2>6
  <2>7. CASE c.kind \notin {"output", "prompt", "exit"}
    BY <2>7
  <2> QED BY <2>5, <2>6, <2>7
<1> QED BY <1>1, InvariantHolds, PTL

\* The client of an attachment has every line from its history to the offset,
\* unless the transcript was cut meanwhile.
THEOREM MissesNothing == Spec => []AttachMissesNothing
<1>1. IInv => AttachMissesNothing
  <2>1. Range(<<>>) = {}
    BY DEF Range
  <2> QED BY <2>1 DEF IInv, AttachHeld, AttachMissesNothing
<1> QED BY <1>1, InvariantHolds, PTL
=============================================================================
