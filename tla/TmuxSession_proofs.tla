------------------------ MODULE TmuxSession_proofs ------------------------
(***************************************************************************)
(* Proofs about TmuxSession, for any names of sessions, senders, waiters,  *)
(* inputs and numbers of calls and printed lines.                          *)
(***************************************************************************)
EXTENDS TmuxSession, SequenceTheorems, TLAPS

----------------------------------------------------------------------------
(* The inductive invariant.                                                *)

\* The name a send or a wait was called with is still that of its session.
Stable(s) == Longer[s] = {} \/ s \in live

\* A pane is piped to the file of a session that reaches it, and what is in a
\* transcript happened in such a pane.
PipeHeld(p) ==
  /\ pipe[p] # NoFile => Reaches(pipe[p], p)
  /\ \A i \in DOMAIN transcript[p] : \E q \in Session :
       Reaches(p, q) /\ \E k \in DOMAIN pane[q] : pane[q][k] = transcript[p][i]

\* How far a send is, and what of it is in the panes.
SendHeld(t) ==
  /\ spc[t] \in {"idle", "pipe"} => keyed[t] = 0
  /\ spc[t] # "idle" => input[t] # << >>
  /\ spc[t] = "keys" => keyed[t] < Len(input[t])
  /\ spc[t] \in {"record", "done"} => keyed[t] = Len(input[t])
  /\ <<"SendKeys", t>> \in log => spc[t] = "done"
  /\ \A p \in Session : \A i \in KeysOf(t, p) :
       pane[p][i][2] \in 1..keyed[t] /\ Reaches(to[t], p)
  /\ \A n \in 1..keyed[t] : \E p \in Session : \E i \in KeysOf(t, p) : pane[p][i][2] = n
  /\ \A p \in Session : \A i, k \in KeysOf(t, p) : i < k => pane[p][i][2] < pane[p][k][2]

\* A send that no other overlapped is alone: no key of another stands between its
\* own, nor, before it has ended, behind them.
AloneHeld(t) ==
  t \notin overlapped =>
    /\ t \in Sending => Sending = {t}
    /\ \A p \in Session : \A i \in KeysOf(t, p) : \A j \in DOMAIN pane[p] :
         i < j /\ (t \in Sending \/ \E k \in KeysOf(t, p) : j < k) =>
           pane[p][j][1] \in {t, Shell}

\* What a client of an attachment was given or is about to be given.
AttachHeld ==
  /\ apc \in {"idle", "history", "record"} => delivered = {}
  /\ apc \in {"idle", "history"} => cursor = 0
  /\ apc \notin {"record", "rescreen"} => chunk = << >>
  /\ \A i \in (from + 1)..cursor :
       transcript[attached][i] \in delivered \cup Range(chunk)

\* Where a wait has come, what it has recorded and what it has seen.
Begins(text, row) == Len(text) <= Len(row) /\ \A i \in DOMAIN text : text[i] = row[i]
WaitHeld(w) ==
  /\ wpc[w] # "idle" => <<"WaitFor", w>> \in log
  /\ wpc[w] # "done" => result[w] = "none"
  /\ wpc[w] \in {"decide", "again"} =>
       /\ observation[w] = last_text[w]
       /\ Stable(on[w]) => Begins(last_text[w], pane[on[w]])
  /\ wpc[w] = "again" => ~Shows(w, last_text[w])
  /\ result[w] \in {"ok", "timeout"} => <<"Observation", w>> \in log
  /\ result[w] = "ok" => Shows(w, observation[w]) /\ observation[w] = last_text[w]
  /\ result[w] = "timeout" =>
       ~Shows(w, last_text[w]) /\ (Stable(on[w]) => Begins(last_text[w], observation[w]))

IInv ==
  /\ TypeOK
  /\ \A p \in Session : PipeHeld(p)
  /\ \A t \in Sender : SendHeld(t)
  /\ \A t \in Sender : AloneHeld(t)
  /\ AttachHeld
  /\ \A w \in Waiter : WaitHeld(w)

----------------------------------------------------------------------------
(* Panes, transcripts and targets.                                         *)

\* What an append does to a sequence.
LEMMA Appends ==
  ASSUME NEW S, NEW s \in Seq(S), NEW e \in S
  PROVE  /\ Append(s, e) \in Seq(S) /\ Len(Append(s, e)) = Len(s) + 1 /\ Len(s) \in Nat
         /\ DOMAIN Append(s, e) = 1..(Len(s) + 1) /\ DOMAIN s = 1..Len(s)
         /\ \A i \in DOMAIN s : i \in DOMAIN Append(s, e) /\ Append(s, e)[i] = s[i]
         /\ \A i \in DOMAIN Append(s, e) : i \in DOMAIN s \/ i = Len(s) + 1
         /\ Append(s, e)[Len(s) + 1] = e
OBVIOUS

\* Every step leaves in its place what happened in a pane and what a transcript
\* holds, and brings no session back.
Grows(rows) ==
  \A s \in Session : /\ Len(rows[s]) <= Len(rows'[s])
                     /\ \A i \in DOMAIN rows[s] : i \in DOMAIN rows'[s] /\ rows'[s][i] = rows[s][i]
Grown == live' \subseteq live /\ Grows(pane) /\ Grows(transcript)

\* Panes and transcripts are rows.
LEMMA Rows ==
  ASSUME TypeOK, NEW s \in Session
  PROVE  /\ pane[s] \in Seq(Entry) /\ Len(pane[s]) \in Nat /\ DOMAIN pane[s] = 1..Len(pane[s])
         /\ transcript[s] \in Seq(Entry) /\ Len(transcript[s]) \in Nat
         /\ DOMAIN transcript[s] = 1..Len(transcript[s])
         /\ \A i \in DOMAIN pane[s] : pane[s][i] \in Entry
         /\ \A i \in DOMAIN transcript[s] : transcript[s][i] \in Entry
<1>1. pane[s] \in Seq(Entry) /\ transcript[s] \in Seq(Entry)
  BY DEF TypeOK
<1> HIDE DEF Entry
<1> QED BY <1>1

\* Panes and transcripts that are left alone are grown.
LEMMA Unmoved ==
  ASSUME TypeOK, UNCHANGED <<pane, transcript>>, live' \subseteq live
  PROVE  Grown
BY Rows DEF Grown, Grows

\* What happens in a pane is the last of its row, and of the transcript it is
\* piped to.
LEMMA Happened ==
  ASSUME TypeOK, NEW p \in Session, NEW what \in Entry, Happens(p, what), live' = live
  PROVE  /\ pane' \in [Session -> Seq(Entry)] /\ transcript' \in [Session -> Seq(Entry)]
         /\ Grown
         /\ \A q \in Session \ {p} : pane'[q] = pane[q]
         /\ DOMAIN pane'[p] = 1..(Len(pane[p]) + 1)
         /\ \A i \in DOMAIN pane'[p] : i \in DOMAIN pane[p] \/ i = Len(pane[p]) + 1
         /\ pane'[p][Len(pane[p]) + 1] = what
         /\ \A q \in Session : \A i \in DOMAIN transcript'[q] :
              \/ i \in DOMAIN transcript[q]
              \/ q = pipe[p] /\ pipe[p] # NoFile /\ transcript'[q][i] = what
<1>1. pane \in [Session -> Seq(Entry)] /\ transcript \in [Session -> Seq(Entry)]
      /\ pipe[p] \in Session \cup {NoFile}
  BY DEF TypeOK
<1> HIDE DEF Entry
<1>2. pane' = [pane EXCEPT ![p] = Append(pane[p], what)]
  BY DEF Happens
<1>3. CASE pipe[p] = NoFile
  <2>1. transcript' = transcript
    BY <1>3 DEF Happens
  <2>2. Grows(transcript)
    BY <2>1, Rows DEF Grows
  <2>3. Grows(pane)
    BY <1>1, <1>2, Rows, Appends DEF Grows
  <2> QED BY <1>1, <1>2, <2>1, <2>2, <2>3, Appends DEF Grown
<1>4. CASE pipe[p] # NoFile
  <2> DEFINE f == pipe[p]
  <2>1. transcript' = [transcript EXCEPT ![f] = Append(transcript[f], what)] /\ f \in Session
    BY <1>1, <1>4 DEF Happens
  <2>2. f # NoFile
    BY <1>4
  <2>3. Grows(transcript)
    BY <1>1, <2>1, Rows, Appends DEF Grows
  <2>4. Grows(pane)
    BY <1>1, <1>2, Rows, Appends DEF Grows
  <2>5. transcript' \in [Session -> Seq(Entry)]
    BY <1>1, <2>1, Appends
  <2>6. \A q \in Session : \A i \in DOMAIN transcript'[q] :
          i \in DOMAIN transcript[q] \/ (q = f /\ transcript'[q][i] = what)
    BY <1>1, <2>1, Appends
  <2>7. Grown
    BY <2>3, <2>4 DEF Grown
  <2>8. /\ pane' \in [Session -> Seq(Entry)]
        /\ \A q \in Session \ {p} : pane'[q] = pane[q]
        /\ DOMAIN pane'[p] = 1..(Len(pane[p]) + 1)
        /\ \A i \in DOMAIN pane'[p] : i \in DOMAIN pane[p] \/ i = Len(pane[p]) + 1
        /\ pane'[p][Len(pane[p]) + 1] = what
    BY <1>1, <1>2, Appends
  <2>9. f = pipe[p]
    OBVIOUS
  <2> HIDE DEF f
  <2> QED BY <2>2, <2>5, <2>6, <2>7, <2>8, <2>9
<1> QED BY <1>3, <1>4

\* The target of a name is a session that it reaches, and still does later.
LEMMA TargetReached ==
  ASSUME TypeOK, NEW s \in Session, NEW p \in Target(s)
  PROVE  p \in Session /\ p \in live /\ Reaches(s, p)
<1>1. CASE s \in live
  BY <1>1 DEF Target, Reaches, TypeOK
<1>2. CASE s \notin live
  BY <1>2, TmuxAssumption DEF Target, Reaches, TypeOK
<1> QED BY <1>1, <1>2

\* What a name reaches it reaches later.
LEMMA ReachesStays ==
  ASSUME live' \subseteq live, NEW s, NEW p, Reaches(s, p)
  PROVE  Reaches(s, p)'
BY DEF Reaches

\* A name that is still that of its session reaches nothing else.
LEMMA StableReaches ==
  ASSUME NEW s \in Session, NEW p, Reaches(s, p), Stable(s)
  PROVE  p = s
BY DEF Reaches, Stable

----------------------------------------------------------------------------
(* Types.                                                                  *)

\* The parts of TypeOK.
TmuxTypes ==
  /\ live \subseteq Session /\ prints \in 0..MaxPrints
  /\ pipe \in [Session -> Session \cup {NoFile}]
  /\ pane \in [Session -> Seq(Entry)] /\ transcript \in [Session -> Seq(Entry)]
SendTypes ==
  /\ spc \in [Sender -> {"idle", "pipe", "keys", "record", "done", "failed"}]
  /\ to \in [Sender -> Session] /\ input \in [Sender -> Inputs \cup {<< >>}]
  /\ keyed \in [Sender -> Nat] /\ overlapped \subseteq Sender
WaitTypes ==
  /\ wpc \in [Waiter -> {"idle", "look", "decide", "again", "done"}]
  /\ on \in [Waiter -> Session] /\ condition \in [Waiter -> Conditions \cup {"none"}]
  /\ observation \in [Waiter -> Seq(Entry)] /\ last_text \in [Waiter -> Seq(Entry)]
  /\ quiet \in [Waiter -> BOOLEAN] /\ expired \in [Waiter -> BOOLEAN]
  /\ result \in [Waiter -> {"none", "ok", "timeout", "error"}]
PlaceTypes ==
  /\ apc \in {"idle", "history", "record", "screen", "input", "typing", "pipe", "since",
              "delta", "rescreen", "closed"}
  /\ attached \in Session /\ begun \in Nat
CursorTypes == cursor \in 0..Len(transcript[attached]) /\ from \in 0..cursor
TextTypes == last_screen \in Seq(Entry) /\ chunk \in Seq(Entry)

\* They are all of it.
LEMMA Split ==
  TypeOK <=> /\ TmuxTypes /\ SendTypes /\ WaitTypes
             /\ PlaceTypes /\ CursorTypes /\ TextTypes
BY DEF TypeOK, TmuxTypes, SendTypes, WaitTypes, PlaceTypes, CursorTypes, TextTypes

\* What is sent is a row that is not empty.
LEMMA InputLength ==
  ASSUME TypeOK, NEW t \in Sender
  PROVE  /\ Len(input[t]) \in Nat /\ DOMAIN input[t] = 1..Len(input[t])
         /\ input[t] # << >> => Len(input[t]) > 0
<1>1. input[t] \in Inputs \cup {<< >>}
  BY DEF TypeOK
<1>2. Inputs \subseteq Seq({"text", "Enter"})
  BY TmuxAssumption
<1>3. << >> \in Seq({"text", "Enter"})
  BY EmptySeq
<1>4. input[t] \in Seq({"text", "Enter"})
  BY <1>1, <1>2, <1>3, Zenon
<1> QED BY <1>4, EmptySeq

\* A pipe is opened to the file of the name it is opened for.
LEMMA PipeOpened ==
  ASSUME TypeOK, NEW s \in Session, StartPipe(s)
  PROVE  /\ pipe' \in [Session -> Session \cup {NoFile}]
         /\ \A p \in Session : \/ pipe'[p] = pipe[p]
                               \/ pipe'[p] = NoFile
                               \/ pipe'[p] = s /\ Reaches(s, p)
<1>1. PICK p \in Target(s) : pipe' = [pipe EXCEPT ![p] = IF @ = NoFile THEN s ELSE NoFile]
  BY DEF StartPipe
<1>2. p \in Session /\ Reaches(s, p)
  BY TargetReached
<1>3. pipe \in [Session -> Session \cup {NoFile}]
  BY DEF TypeOK
<1> QED BY <1>1, <1>2, <1>3

\* What a step does to the panes and pipes: something is printed or typed, a pipe
\* is opened or closed, or nothing but that a session may end.
LEMMA TmuxMoves ==
  ASSUME TypeOK, Next
  PROVE  \/ \E p \in Session : /\ prints' \in 0..MaxPrints /\ Happens(p, <<Shell, prints'>>)
                               /\ UNCHANGED <<live, pipe, senders>>
         \/ /\ prints' = prints
            /\ \/ \E t \in Sender : \E p \in Target(to[t]) :
                    SendKey(t) /\ Happens(p, <<t, keyed[t] + 1>>) /\ UNCHANGED <<live, pipe>>
               \/ \E s \in Session : StartPipe(s) /\ UNCHANGED <<live, pane, transcript>>
               \/ UNCHANGED <<pipe, pane, transcript>> /\ live' \subseteq live
<1>1. CASE \E p \in Session : Prints(p)
  BY <1>1, TmuxAssumption DEF Prints, TypeOK
<1>2. CASE \E t \in Sender : SendStep(t)
  <2>1. PICK t \in Sender : SendStep(t)
    BY <1>2
  <2>2. CASE SendPipe(t)
    BY <2>2 DEF SendPipe, TypeOK
  <2>3. CASE SendKey(t)
    BY <2>3 DEF SendKey
  <2>4. CASE RecordSend(t) \/ SendFails(t)
    BY <2>4 DEF RecordSend, SendFails, tmux
  <2> QED BY <2>1, <2>2, <2>3, <2>4 DEF SendStep
<1>3. CASE \E p \in Session : Ends(p) \/ AttachCall(p)
  BY <1>3 DEF Ends, AttachCall, others
<1>4. CASE AttachStep
  <2>1. CASE AttachPipe
    BY <2>1 DEF AttachPipe, others, TypeOK
  <2>2. CASE AttachTypes
    BY <2>2 DEF AttachTypes, tmux
  <2>3. CASE ~AttachPipe /\ ~AttachTypes
    <3>1. UNCHANGED <<others, pipe>>
      BY <1>4, <2>3 DEF AttachStep, LoopStep, ReadHistory, CaptureHistory, RecordAttach,
         FirstScreen, AttachTyped, Rescreen, AttachIdle, Since, Delta, Detach
    <3> QED BY <3>1 DEF others
  <2> QED BY <2>1, <2>2, <2>3
<1>5. CASE UNCHANGED tmux
  BY <1>5 DEF tmux
<1>6. ASSUME NEW w \in Waiter, Expire(w) \/ GetsQuiet(w) \/ WaitStep(w) \/ WaitFails(w)
      PROVE  UNCHANGED tmux
  BY <1>6 DEF Expire, GetsQuiet, WaitStep, WaitFails, Look, Decide, LookAgain
<1>7. ASSUME NEW s \in Session PROVE /\ \A t \in Sender : SendCall(t, s) => UNCHANGED tmux
                                     /\ \A w \in Waiter : WaitCall(w, s) => UNCHANGED tmux
  BY DEF SendCall, WaitCall
<1> QED BY <1>1, <1>2, <1>3, <1>4, <1>5, <1>6, <1>7 DEF Next

\* Steps keep the types of what belongs to the tmux server, and grow it.
LEMMA TmuxTypesStep ==
  ASSUME TypeOK, Next
  PROVE  TmuxTypes' /\ Grown
<1>1. TmuxTypes
  BY Split
<1>2. ASSUME NEW p \in Session, prints' \in 0..MaxPrints, Happens(p, <<Shell, prints'>>),
             UNCHANGED <<live, pipe, senders>>
      PROVE  TmuxTypes' /\ Grown
  <2>1. PICK n \in Nat : n = prints'
    BY <1>2, TmuxAssumption
  <2>2. <<Shell, n>> \in Entry
    BY DEF Entry
  <2> HIDE DEF Entry
  <2>3. /\ pane' \in [Session -> Seq(Entry)] /\ transcript' \in [Session -> Seq(Entry)]
        /\ Grown
    BY <1>2, <2>1, <2>2, Happened
  <2> QED BY <1>1, <1>2, <2>3 DEF TmuxTypes
<1>3. ASSUME NEW t \in Sender, NEW p \in Target(to[t]), Happens(p, <<t, keyed[t] + 1>>),
             UNCHANGED <<live, pipe>>, prints' = prints
      PROVE  TmuxTypes' /\ Grown
  <2>1. p \in Session /\ <<t, keyed[t] + 1>> \in Entry
    BY SMTT(20), TargetReached DEF TypeOK, Entry
  <2> HIDE DEF Entry
  <2>2. /\ pane' \in [Session -> Seq(Entry)] /\ transcript' \in [Session -> Seq(Entry)]
        /\ Grown
    BY <1>3, <2>1, Happened
  <2> QED BY <1>1, <1>3, <2>2 DEF TmuxTypes
<1>4. ASSUME NEW s \in Session, StartPipe(s), UNCHANGED <<live, pane, transcript>>, prints' = prints
      PROVE  TmuxTypes' /\ Grown
  BY <1>1, <1>4, PipeOpened, Unmoved DEF TmuxTypes
<1>5. ASSUME UNCHANGED <<pipe, pane, transcript>>, live' \subseteq live, prints' = prints
      PROVE  TmuxTypes' /\ Grown
  BY <1>1, <1>5, Unmoved DEF TmuxTypes
<1> QED BY <1>2, <1>3, <1>4, <1>5, TmuxMoves

\* Who moves: the senders do when a send is started or goes on.
LEMMA SendersMove ==
  ASSUME TypeOK, Next
  PROVE  \/ UNCHANGED senders
         \/ \E t \in Sender, s \in Session : StartSend(t, s) /\ (SendCall(t, s) \/ AttachTypes)
         \/ \E t \in Sender : SendPipe(t) \/ SendKey(t) \/ RecordSend(t) \/ SendFails(t)
<1>1. CASE \E s \in Session : Prints(s) \/ Ends(s) \/ AttachCall(s)
  BY <1>1 DEF Prints, Ends, AttachCall, others
<1>2. CASE \E s \in Session, t \in Sender : SendCall(t, s)
  BY <1>2 DEF SendCall
<1>3. CASE \E s \in Session, w \in Waiter : WaitCall(w, s)
  BY <1>3 DEF WaitCall
<1>4. CASE \E t \in Sender : SendStep(t)
  BY <1>4 DEF SendStep
<1>5. CASE \E w \in Waiter : Expire(w) \/ GetsQuiet(w) \/ WaitStep(w) \/ WaitFails(w)
  BY <1>5 DEF Expire, GetsQuiet, WaitStep, WaitFails, Look, Decide, LookAgain
<1>6. CASE AttachTypes
  <2>1. attached \in Session /\ Client \in Sender /\ StartSend(Client, attached)
    BY <1>6, TmuxAssumption DEF AttachTypes, TypeOK
  <2> QED BY <1>6, <2>1
<1>7. CASE AttachStep /\ ~AttachTypes
  BY <1>7 DEF AttachStep, LoopStep, ReadHistory, CaptureHistory, RecordAttach, FirstScreen,
     AttachTyped, Rescreen, AttachIdle, AttachPipe, Since, Delta, Detach, others
<1> QED BY <1>1, <1>2, <1>3, <1>4, <1>5, <1>6, <1>7 DEF Next

\* The waiters move when a wait is called or goes on, or time passes for it.
LEMMA WaitersMove ==
  ASSUME Next
  PROVE  \/ UNCHANGED waiters
         \/ \E w \in Waiter, s \in Session : WaitCall(w, s)
         \/ \E w \in Waiter : \/ Expire(w) \/ GetsQuiet(w) \/ Look(w) \/ Decide(w)
                              \/ LookAgain(w) \/ WaitFails(w)
<1>1. CASE \E s \in Session : Prints(s) \/ Ends(s) \/ AttachCall(s)
  BY <1>1 DEF Prints, Ends, AttachCall, others
<1>2. CASE \E s \in Session, t \in Sender : SendCall(t, s)
  BY <1>2 DEF SendCall
<1>3. CASE \E t \in Sender : SendStep(t)
  BY <1>3 DEF SendStep, SendPipe, SendKey, RecordSend, SendFails
<1>4. CASE AttachStep
  BY <1>4 DEF AttachStep, LoopStep, ReadHistory, CaptureHistory, RecordAttach, FirstScreen,
     AttachTypes, AttachTyped, Rescreen, AttachIdle, AttachPipe, Since, Delta, Detach, others
<1> QED BY <1>1, <1>2, <1>3, <1>4 DEF Next, WaitStep

\* The attachment moves when it is called or goes on.
LEMMA AttachMoves ==
  ASSUME Next
  PROVE  UNCHANGED attach \/ AttachStep \/ \E s \in Session : AttachCall(s)
<1>1. CASE \E s \in Session : Prints(s) \/ Ends(s)
  BY <1>1 DEF Prints, Ends
<1>2. CASE \E s \in Session, t \in Sender : SendCall(t, s)
  BY <1>2 DEF SendCall
<1>3. CASE \E s \in Session, w \in Waiter : WaitCall(w, s)
  BY <1>3 DEF WaitCall
<1>4. CASE \E t \in Sender : SendStep(t)
  BY <1>4 DEF SendStep, SendPipe, SendKey, RecordSend, SendFails
<1>5. CASE \E w \in Waiter : Expire(w) \/ GetsQuiet(w) \/ WaitStep(w) \/ WaitFails(w)
  BY <1>5 DEF Expire, GetsQuiet, WaitStep, WaitFails, Look, Decide, LookAgain
<1> QED BY <1>1, <1>2, <1>3, <1>4, <1>5 DEF Next

\* The log only grows, and by SendKeys events only at the end of a send.
LEMMA LogGrows ==
  ASSUME Next
  PROVE  /\ log \subseteq log'
         /\ \A t \in Sender : <<"SendKeys", t>> \in log' => <<"SendKeys", t>> \in log \/ RecordSend(t)
<1>1. CASE \E s \in Session : Prints(s) \/ Ends(s) \/ AttachCall(s)
  BY <1>1 DEF Prints, Ends, AttachCall
<1>2. CASE \E s \in Session, t \in Sender : SendCall(t, s)
  BY <1>2 DEF SendCall
<1>3. CASE \E s \in Session, w \in Waiter : WaitCall(w, s)
  BY <1>3 DEF WaitCall, Record
<1>4. CASE \E t \in Sender : SendStep(t)
  BY <1>4 DEF SendStep, SendPipe, SendKey, RecordSend, SendFails
<1>5. CASE \E w \in Waiter : Expire(w) \/ GetsQuiet(w) \/ WaitStep(w) \/ WaitFails(w)
  BY <1>5 DEF Expire, GetsQuiet, WaitStep, WaitFails, Look, Decide, LookAgain, Record
<1>6. CASE AttachStep
  BY <1>6 DEF AttachStep, LoopStep, ReadHistory, CaptureHistory, RecordAttach, FirstScreen,
     AttachTypes, AttachTyped, Rescreen, AttachIdle, AttachPipe, Since, Delta, Detach
<1> QED BY <1>1, <1>2, <1>3, <1>4, <1>5, <1>6 DEF Next

\* Steps keep the types of the senders.
LEMMA SendTypesStep ==
  ASSUME TypeOK, Next
  PROVE  SendTypes'
<1>1. SendTypes
  BY Split
<1>2. CASE UNCHANGED senders
  BY <1>1, <1>2 DEF senders, SendTypes
<1>3. CASE \E t \in Sender, s \in Session : StartSend(t, s)
  <2>1. PICK t \in Sender, s \in Session : StartSend(t, s)
    BY <1>3
  <2>2. PICK keys \in Inputs : input' = [input EXCEPT ![t] = keys]
    BY <2>1 DEF StartSend
  <2>3. overlapped' \subseteq Sender
    BY <1>1, <2>1 DEF StartSend, Sending, SendTypes
  <2> QED BY <1>1, <2>1, <2>2, <2>3 DEF StartSend, GoSend, SendTypes
<1>4. CASE \E t \in Sender : SendPipe(t) \/ SendKey(t) \/ RecordSend(t) \/ SendFails(t)
  <2>1. PICK t \in Sender : SendPipe(t) \/ SendKey(t) \/ RecordSend(t) \/ SendFails(t)
    BY <1>4
  <2>2. UNCHANGED <<to, input, overlapped>>
    BY <2>1 DEF SendPipe, SendKey, RecordSend, SendFails
  <2>3. keyed' = keyed \/ keyed' = [keyed EXCEPT ![t] = keyed[t] + 1]
    BY <2>1 DEF SendPipe, SendKey, RecordSend, SendFails
  <2>4. keyed' \in [Sender -> Nat]
    BY <1>1, <2>3 DEF SendTypes
  <2>5. spc' \in [Sender -> {"idle", "pipe", "keys", "record", "done", "failed"}]
    BY <1>1, <2>1 DEF SendPipe, SendKey, RecordSend, SendFails, GoSend, SendTypes
  <2> QED BY <1>1, <2>2, <2>4, <2>5 DEF SendTypes
<1> QED BY <1>2, <1>3, <1>4, SendersMove

\* Steps keep the types of the waiters.
LEMMA WaitTypesStep ==
  ASSUME TypeOK, Next
  PROVE  WaitTypes'
<1>1. WaitTypes
  BY Split
<1> HIDE DEF Entry
<1>2. CASE UNCHANGED waiters
  BY <1>1, <1>2 DEF waiters, WaitTypes
<1>3. CASE \E w \in Waiter, s \in Session : WaitCall(w, s)
  <2>1. PICK w \in Waiter, s \in Session : WaitCall(w, s)
    BY <1>3
  <2>2. PICK c \in Conditions :
          /\ condition' = [condition EXCEPT ![w] = c]
          /\ IF c = "invalid" THEN Answer(w, "error") ELSE GoWait(w, "look") /\ UNCHANGED result
    BY <2>1 DEF WaitCall
  <2>3. on' \in [Waiter -> Session] /\ condition' \in [Waiter -> Conditions \cup {"none"}]
    BY <1>1, <2>1, <2>2 DEF WaitCall, WaitTypes
  <2>4. /\ wpc' \in [Waiter -> {"idle", "look", "decide", "again", "done"}]
        /\ result' \in [Waiter -> {"none", "ok", "timeout", "error"}]
    BY <1>1, <2>2 DEF Answer, GoWait, WaitTypes
  <2> QED BY <1>1, <2>1, <2>3, <2>4 DEF WaitCall, WaitTypes
<1>4. CASE \E w \in Waiter : Look(w)
  <2>1. PICK w \in Waiter : Look(w)
    BY <1>4
  <2>2. on[w] \in Session
    BY <1>1 DEF WaitTypes
  <2>3. CASE Target(on[w]) = {}
    BY <1>1, <2>1, <2>3 DEF Look, Answer, GoWait, WaitTypes
  <2>4. CASE Target(on[w]) # {}
    <3>1. PICK p \in Target(on[w]) :
            /\ observation' = [observation EXCEPT ![w] = pane[p]]
            /\ last_text' = [last_text EXCEPT ![w] = pane[p]]
            /\ quiet' = [quiet EXCEPT ![w] = @ /\ last_text[w] = pane[p]]
            /\ GoWait(w, "decide") /\ UNCHANGED result
      BY <2>1, <2>4 DEF Look
    <3>2. pane[p] \in Seq(Entry)
      BY <2>2, TargetReached, Rows
    <3>3. PICK b \in BOOLEAN : b = (quiet[w] /\ last_text[w] = pane[p])
      OBVIOUS
    <3>4. quiet' = [quiet EXCEPT ![w] = b]
      BY <3>1, <3>3, Zenon
    <3>5. quiet' \in [Waiter -> BOOLEAN]
      BY <1>1, <3>4 DEF WaitTypes
    <3>6. UNCHANGED <<on, condition, expired>>
      BY <2>1 DEF Look
    <3>7. observation' \in [Waiter -> Seq(Entry)] /\ last_text' \in [Waiter -> Seq(Entry)]
      BY <1>1, <3>1, <3>2 DEF WaitTypes
    <3>8. /\ wpc' \in [Waiter -> {"idle", "look", "decide", "again", "done"}]
          /\ result' \in [Waiter -> {"none", "ok", "timeout", "error"}]
      BY <1>1, <3>1 DEF WaitTypes, GoWait
    <3> QED BY <1>1, <3>5, <3>6, <3>7, <3>8 DEF WaitTypes
  <2> QED BY <2>3, <2>4
<1>5. CASE \E w \in Waiter : LookAgain(w)
  <2>1. PICK w \in Waiter : LookAgain(w)
    BY <1>5
  <2>2. on[w] \in Session
    BY <1>1 DEF WaitTypes
  <2>3. \A p \in Target(on[w]) : pane[p] \in Seq(Entry)
    BY <2>2, TargetReached, Rows
  <2> QED BY <1>1, <2>1, <2>3 DEF LookAgain, Answer, GoWait, WaitTypes
<1>6. CASE \E w \in Waiter : Expire(w) \/ GetsQuiet(w)
  BY <1>1, <1>6 DEF Expire, GetsQuiet, WaitTypes
<1>7. CASE \E w \in Waiter : Decide(w) \/ WaitFails(w)
  BY <1>1, <1>7 DEF Decide, WaitFails, Answer, GoWait, WaitTypes
<1> QED BY <1>2, <1>3, <1>4, <1>5, <1>6, <1>7, WaitersMove

----------------------------------------------------------------------------
(* The attachment.                                                         *)

\* The end of a row from some place on.
LEMMA Rest ==
  ASSUME NEW s \in Seq(Entry), NEW m \in 1..(Len(s) + 1)
  PROVE  /\ SubSeq(s, m, Len(s)) \in Seq(Entry)
         /\ \A i \in m..Len(s) : s[i] \in Range(SubSeq(s, m, Len(s)))
         /\ SubSeq(s, m, Len(s)) = << >> => m = Len(s) + 1
<1> HIDE DEF Entry
<1>1. Len(s) \in Nat
  OBVIOUS
<1>2. /\ SubSeq(s, m, Len(s)) \in Seq(Entry)
      /\ Len(SubSeq(s, m, Len(s))) = Len(s) - m + 1
      /\ \A i \in 1..(Len(s) - m + 1) : SubSeq(s, m, Len(s))[i] = s[m + i - 1]
  BY <1>1
<1>3. \A i \in m..Len(s) : s[i] \in Range(SubSeq(s, m, Len(s)))
  <2> TAKE i \in m..Len(s)
  <2>1. (i - m + 1) \in 1..(Len(s) - m + 1) /\ m + (i - m + 1) - 1 = i
    BY <1>1
  <2>2. DOMAIN SubSeq(s, m, Len(s)) = 1..(Len(s) - m + 1)
    BY <1>2
  <2>3. SubSeq(s, m, Len(s))[i - m + 1] = s[i]
    BY <1>2, <2>1
  <2> QED BY <2>1, <2>2, <2>3 DEF Range
<1>4. SubSeq(s, m, Len(s)) = << >> => Len(SubSeq(s, m, Len(s))) = 0
  OBVIOUS
<1>5. Len(s) - m + 1 = 0 => m = Len(s) + 1
  BY <1>1
<1> QED BY <1>2, <1>3, <1>4, <1>5

\* Where the last bytes of a row begin.
LEMMA LastBytes ==
  ASSUME NEW n \in Nat
  PROVE  Max({0, n - History}) \in 0..n
<1>1. History \in Nat
  BY TmuxAssumption
<1>2. \A x, y \in Int : Max({x, y}) \in {x, y}
  <2> TAKE x, y \in Int
  <2>1. \E m \in {x, y} : \A z \in {x, y} : m >= z
    OBVIOUS
  <2> QED BY <2>1 DEF Max
<1>3. Max({0, n - History}) \in {0, n - History}
  BY <1>1, <1>2
<1>4. \A x, y \in Int : Max({x, y}) >= x
  <2> TAKE x, y \in Int
  <2>1. \E m \in {x, y} : \A z \in {x, y} : m >= z
    OBVIOUS
  <2> QED BY <2>1 DEF Max
<1>5. Max({0, n - History}) >= 0
  BY <1>1, <1>4
<1> QED BY <1>1, <1>3, <1>5

\* The screen of a session is a row.
LEMMA ScreenRow ==
  ASSUME TypeOK, NEW s \in Session
  PROVE  ScreenOf(s) \in Seq(Entry)
<1>1. CASE Target(s) = {}
  <2>1. <<Shell, 0>> \in Entry
    BY DEF Entry
  <2> HIDE DEF Entry
  <2>2. NoScreen \in Seq(Entry)
    BY <2>1 DEF NoScreen
  <2> QED BY <1>1, <2>2 DEF ScreenOf
<1>2. CASE Target(s) # {}
  <2>1. (CHOOSE p \in Target(s) : TRUE) \in Target(s)
    BY <1>2
  <2>2. pane[CHOOSE p \in Target(s) : TRUE] \in Seq(Entry)
    BY <2>1, TargetReached, Rows
  <2> QED BY <1>2, <2>2 DEF ScreenOf
<1> QED BY <1>1, <1>2

\* The offset stays within the transcript, and what lies between the beginning
\* of the history and the offset was or is about to be delivered.
LEMMA AttachHeldStep ==
  ASSUME TypeOK, AttachHeld, Grown, Next
  PROVE  PlaceTypes' /\ CursorTypes' /\ TextTypes' /\ AttachHeld'
<1> DEFINE row == transcript[attached]
<1>1. /\ attached \in Session /\ row \in Seq(Entry) /\ Len(row) \in Nat
      /\ cursor \in 0..Len(row) /\ from \in 0..cursor /\ DOMAIN row = 1..Len(row)
      /\ last_screen \in Seq(Entry) /\ chunk \in Seq(Entry)
  BY Rows DEF TypeOK
<1>2. PlaceTypes
  BY Split
<1> HIDE DEF Entry
<1>3. ASSUME attached' = attached
      PROVE  /\ Len(transcript'[attached]) \in Nat /\ Len(row) <= Len(transcript'[attached])
             /\ \A i \in DOMAIN row : transcript'[attached][i] = row[i]
  <2>1. TmuxTypes'
    BY TmuxTypesStep
  <2> QED BY <1>1, <2>1 DEF Grown, Grows, TmuxTypes
<1> HIDE DEF row
<1>4. \A i \in (from + 1)..cursor : i \in DOMAIN row /\ row[i] \in delivered \cup Range(chunk)
  BY <1>1 DEF AttachHeld, row
<1> DEFINE Kept == /\ attached' = attached /\ cursor' = cursor /\ from' = from
                   /\ last_screen' \in Seq(Entry) /\ chunk' \in Seq(Entry)
                   /\ delivered \cup Range(chunk) \subseteq delivered' \cup Range(chunk')
                   /\ apc' \notin {"record", "rescreen"} => chunk' = << >>
                   /\ apc' \in {"idle", "history"} => cursor = 0
                   /\ apc' \in {"idle", "history", "record"} => delivered' = {}
                   /\ PlaceTypes'
<1>5. ASSUME Kept PROVE PlaceTypes' /\ CursorTypes' /\ TextTypes' /\ AttachHeld'
  <2>1. attached' = attached /\ cursor' = cursor /\ from' = from
    BY <1>5
  <2>2. CursorTypes'
    BY <1>1, <1>3, <2>1 DEF CursorTypes
  <2>3. \A i \in (from + 1)..cursor : transcript'[attached][i] \in delivered' \cup Range(chunk')
    BY <1>3, <1>4, <1>5
  <2> QED BY <1>5, <2>1, <2>2, <2>3 DEF TextTypes, AttachHeld
<1> HIDE DEF Kept
<1>6. CASE UNCHANGED attach
  <2>1. UNCHANGED <<apc, attached, cursor, last_screen, chunk, delivered, from, begun>>
    BY <1>6 DEF attach
  <2>2. PlaceTypes'
    BY <1>2, <2>1 DEF PlaceTypes
  <2>3. Kept
    BY <1>1, <2>1, <2>2 DEF Kept, AttachHeld
  <2> QED BY <1>5, <2>3
<1>7. CASE \E s \in Session : AttachCall(s)
  <2>1. PICK s \in Session : AttachCall(s)
    BY <1>7
  <2>2. /\ apc = "idle" /\ apc' = "history" /\ attached' = s /\ begun' = Len(pane[s])
        /\ UNCHANGED <<transcript, cursor, last_screen, chunk, delivered, from>>
    BY <2>1 DEF AttachCall, others
  <2>3. cursor = 0 /\ from = 0 /\ delivered = {} /\ chunk = << >>
    BY <1>1, <2>2 DEF AttachHeld
  <2>4. PlaceTypes'
    BY <2>2, Rows DEF PlaceTypes
  <2>5. CursorTypes'
    BY <2>2, <2>3, Rows DEF CursorTypes
  <2>6. (0 + 1)..0 = {}
    OBVIOUS
  <2> QED BY <1>1, <2>2, <2>3, <2>4, <2>5, <2>6 DEF TextTypes, AttachHeld
<1>8. CASE ReadHistory
  <2>1. /\ transcript' = transcript /\ attached' = attached /\ begun' = begun
        /\ cursor' = Len(row) /\ from' = Max({0, Len(row) - History})
        /\ chunk' = SubSeq(row, from' + 1, Len(row)) /\ apc' = "record"
        /\ last_screen' = last_screen /\ delivered' = delivered /\ apc = "history"
    BY <1>8 DEF ReadHistory, others, since_call, row
  <2>2. from' \in 0..Len(row)
    BY <1>1, <2>1, LastBytes
  <2>3. PICK m \in 1..(Len(row) + 1) : m = from' + 1
    <3>1. PICK n \in Nat : n = Len(row)
      BY <1>1
    <3>2. PICK k \in 0..n : k = from'
      BY <2>2, <3>1
    <3>3. k + 1 \in 1..(n + 1)
      OBVIOUS
    <3> QED BY <3>1, <3>2, <3>3
  <2>4. chunk' \in Seq(Entry) /\ \A i \in m..Len(row) : row[i] \in Range(chunk')
    BY <1>1, <2>1, <2>3, Rest
  <2>5. CursorTypes'
    BY <1>1, <2>1, <2>2 DEF CursorTypes, row
  <2>6. PlaceTypes'
    BY <1>2, <2>1 DEF PlaceTypes
  <2>7. delivered' = {}
    BY <2>1 DEF AttachHeld
  <2>8. transcript'[attached'] = row
    BY <2>1 DEF row
  <2>9. \A i \in (from' + 1)..cursor' : transcript'[attached'][i] \in delivered' \cup Range(chunk')
    BY <2>1, <2>3, <2>4, <2>8
  <2> QED BY <1>1, <2>1, <2>4, <2>5, <2>6, <2>7, <2>9 DEF TextTypes, AttachHeld
<1>9. CASE CaptureHistory
  <2>1. /\ transcript' = transcript /\ attached' = attached /\ begun' = begun
        /\ cursor' = 0 /\ from' = 0 /\ apc' = "record" /\ apc = "history"
        /\ last_screen' = last_screen /\ delivered' = delivered
    BY <1>9 DEF CaptureHistory, others, since_call
  <2>2. PICK p \in Target(attached) :
          chunk' = SubSeq(pane[p], Max({0, Len(pane[p]) - History}) + 1, Len(pane[p]))
    BY <1>9 DEF CaptureHistory
  <2>3. pane[p] \in Seq(Entry) /\ Len(pane[p]) \in Nat
    BY <1>1, TargetReached, Rows
  <2>4. PICK m \in 1..(Len(pane[p]) + 1) : m = Max({0, Len(pane[p]) - History}) + 1
    BY <2>3, LastBytes
  <2>5. chunk' \in Seq(Entry)
    BY <2>2, <2>3, <2>4, Rest
  <2>6. CursorTypes'
    BY <1>1, <2>1 DEF CursorTypes, row
  <2>7. PlaceTypes'
    BY <1>2, <2>1 DEF PlaceTypes
  <2>8. (0 + 1)..0 = {}
    OBVIOUS
  <2>9. delivered' = {}
    BY <2>1 DEF AttachHeld
  <2> QED BY <1>1, <2>1, <2>5, <2>6, <2>7, <2>8, <2>9 DEF TextTypes, AttachHeld
<1>10. CASE RecordAttach
  <2>1. /\ apc = "record" /\ apc' = "screen" /\ delivered' = Range(chunk) /\ chunk' = << >>
        /\ UNCHANGED <<attached, begun, cursor, last_screen, from>>
    BY <1>10 DEF RecordAttach, since_call
  <2>2. delivered = {}
    BY <2>1 DEF AttachHeld
  <2>3. PlaceTypes'
    BY <1>2, <2>1 DEF PlaceTypes
  <2>4. Kept
    BY <1>1, <2>1, <2>2, <2>3 DEF Kept
  <2> QED BY <1>5, <2>4
<1>11. CASE FirstScreen
  <2>1. /\ apc = "screen" /\ apc' = "input" /\ last_screen' = ScreenOf(attached)
        /\ UNCHANGED <<attached, begun, cursor, chunk, delivered, from>>
    BY <1>11 DEF FirstScreen, since_call
  <2>2. PlaceTypes'
    BY <1>2, <2>1 DEF PlaceTypes
  <2>3. Kept
    BY <1>1, <2>1, <2>2, ScreenRow DEF Kept, AttachHeld
  <2> QED BY <1>5, <2>3
<1>12. CASE AttachTypes \/ AttachTyped \/ AttachIdle \/ AttachPipe
  <2>1. /\ apc \in {"input", "typing", "pipe"} /\ apc' \in {"typing", "pipe", "since"}
        /\ UNCHANGED <<attached, begun, cursor, last_screen, chunk, delivered, from>>
    BY <1>12 DEF AttachTypes, AttachTyped, AttachIdle, AttachPipe, since_call
  <2>2. PlaceTypes'
    BY <1>2, <2>1 DEF PlaceTypes
  <2>3. Kept
    BY <1>1, <2>1, <2>2 DEF Kept, AttachHeld
  <2> QED BY <1>5, <2>3
<1>13. CASE Since
  <2>1. /\ apc = "since" /\ UNCHANGED <<transcript, attached, begun, last_screen, delivered, from>>
        /\ chunk' = SubSeq(row, cursor + 1, Len(row)) /\ cursor' = Len(row)
        /\ apc' = IF chunk' = << >> THEN "delta" ELSE "rescreen"
    BY <1>13 DEF Since, others, since_call, row
  <2>2. PICK m \in 1..(Len(row) + 1) : m = cursor + 1
    BY <1>1
  <2>3. chunk' \in Seq(Entry) /\ \A i \in m..Len(row) : row[i] \in Range(chunk')
    BY <1>1, <2>1, <2>2, Rest
  <2>4. chunk = << >>
    BY <2>1 DEF AttachHeld
  <2>5. Range(chunk) = {}
    BY <2>4 DEF Range
  <2>6. \A i \in (from + 1)..Len(row) : row[i] \in delivered \cup Range(chunk')
    <3> TAKE i \in (from + 1)..Len(row)
    <3>1. CASE i <= cursor
      <4>1. i \in (from + 1)..cursor
        BY <1>1, <3>1
      <4> QED BY <1>4, <2>5, <4>1
    <3>2. CASE ~(i <= cursor)
      <4>1. i \in m..Len(row)
        BY <1>1, <2>2, <3>2
      <4> QED BY <2>3, <4>1
    <3> QED BY <3>1, <3>2
  <2>7. CursorTypes'
    BY <1>1, <2>1 DEF CursorTypes, row
  <2>8. PlaceTypes'
    BY <1>2, <2>1 DEF PlaceTypes
  <2>9. transcript'[attached'] = row
    BY <2>1 DEF row
  <2>10. AttachHeld'
    BY <2>1, <2>6, <2>9 DEF AttachHeld
  <2> QED BY <1>1, <2>1, <2>3, <2>7, <2>8, <2>10 DEF TextTypes
<1>14. CASE Delta
  <2>1. /\ apc = "delta" /\ apc' = "input" /\ last_screen' \in {last_screen, ScreenOf(attached)}
        /\ delivered \subseteq delivered'
        /\ UNCHANGED <<attached, begun, cursor, chunk, from>>
    BY <1>14 DEF Delta, since_call
  <2>2. PlaceTypes'
    BY <1>2, <2>1 DEF PlaceTypes
  <2>3. Kept
    BY <1>1, <2>1, <2>2, ScreenRow DEF Kept, AttachHeld
  <2> QED BY <1>5, <2>3
<1>15. CASE Rescreen
  <2>1. /\ apc' = "input" /\ last_screen' \in {last_screen, ScreenOf(attached)}
        /\ delivered' = delivered \cup Range(chunk) /\ chunk' = << >>
        /\ UNCHANGED <<attached, begun, cursor, from>>
    BY <1>15 DEF Rescreen, since_call
  <2>2. PlaceTypes'
    BY <1>2, <2>1 DEF PlaceTypes
  <2>3. Kept
    BY <1>1, <2>1, <2>2, ScreenRow DEF Kept
  <2> QED BY <1>5, <2>3
<1>16. CASE Detach
  <2>1. /\ apc' = "closed" /\ cursor' = 0 /\ from' = 0 /\ last_screen' = NoScreen
        /\ chunk' = << >> /\ delivered' = {} /\ UNCHANGED <<transcript, attached, begun>>
    BY <1>16 DEF Detach, others, since_call
  <2>2. <<Shell, 0>> \in Entry
    BY DEF Entry
  <2>3. last_screen' \in Seq(Entry)
    BY <2>1, <2>2 DEF NoScreen
  <2>4. CursorTypes'
    BY <1>1, <2>1 DEF CursorTypes, row
  <2>5. PlaceTypes'
    BY <1>2, <2>1 DEF PlaceTypes
  <2>6. (0 + 1)..0 = {}
    OBVIOUS
  <2> QED BY <2>1, <2>3, <2>4, <2>5, <2>6 DEF TextTypes, AttachHeld
<1> QED BY <1>6, <1>7, <1>8, <1>9, <1>10, <1>11, <1>12, <1>13, <1>14, <1>15, <1>16, AttachMoves
        DEF AttachStep, LoopStep

----------------------------------------------------------------------------
(* Pipes.                                                                  *)

\* A transcript that gains nothing, or something of a pane that reaches it, holds
\* only what happened in such a pane.
LEMMA PipeKept ==
  ASSUME NEW p \in Session, PipeHeld(p), Grown,
         \/ pipe'[p] = pipe[p]
         \/ pipe'[p] = NoFile
         \/ Reaches(pipe'[p], p),
         \A i \in DOMAIN transcript'[p] :
           \/ i \in DOMAIN transcript[p]
           \/ \E q \in Session : Reaches(p, q) /\ \E k \in DOMAIN pane'[q] :
                pane'[q][k] = transcript'[p][i]
  PROVE  PipeHeld(p)'
<1>1. live' \subseteq live
  BY DEF Grown
<1>2. pipe'[p] # NoFile => Reaches(pipe[p], p)'
  <2>1. pipe[p] # NoFile => Reaches(pipe[p], p)
    BY DEF PipeHeld
  <2> QED BY <1>1, <2>1 DEF Reaches
<1>3. ASSUME NEW i \in DOMAIN transcript'[p]
      PROVE  \E q \in Session : Reaches(p, q)' /\ \E k \in DOMAIN pane'[q] :
               pane'[q][k] = transcript'[p][i]
  <2>1. CASE i \in DOMAIN transcript[p]
    <3>1. PICK q \in Session : Reaches(p, q) /\ \E k \in DOMAIN pane[q] :
            pane[q][k] = transcript[p][i]
      BY <2>1 DEF PipeHeld
    <3>2. PICK k \in DOMAIN pane[q] : pane[q][k] = transcript[p][i]
      BY <3>1
    <3>3. k \in DOMAIN pane'[q] /\ pane'[q][k] = transcript'[p][i]
      BY <2>1, <3>2 DEF Grown, Grows
    <3> QED BY <1>1, <3>1, <3>3, ReachesStays
  <2>2. CASE i \notin DOMAIN transcript[p]
    BY <1>1, <2>2, ReachesStays
  <2> QED BY <2>1, <2>2
<1> QED BY <1>2, <1>3 DEF PipeHeld

\* Every step keeps sessions apart.
LEMMA PipeStep ==
  ASSUME TypeOK, \A q \in Session : PipeHeld(q), Grown, Next, NEW p \in Session
  PROVE  PipeHeld(p)'
<1>1. ASSUME NEW q \in Session, NEW what \in Entry, Happens(q, what), UNCHANGED <<live, pipe>>
      PROVE  PipeHeld(p)'
  <2>1. /\ pane'[q][Len(pane[q]) + 1] = what /\ DOMAIN pane'[q] = 1..(Len(pane[q]) + 1)
        /\ \A i \in DOMAIN transcript'[p] :
             \/ i \in DOMAIN transcript[p]
             \/ p = pipe[q] /\ pipe[q] # NoFile /\ transcript'[p][i] = what
    BY <1>1, Happened
  <2>2. Len(pane[q]) + 1 \in DOMAIN pane'[q]
    BY <2>1, Rows
  <2>3. pipe[q] # NoFile => Reaches(pipe[q], q)
    BY DEF PipeHeld
  <2>4. \A i \in DOMAIN transcript'[p] :
           \/ i \in DOMAIN transcript[p]
           \/ \E r \in Session : Reaches(p, r) /\ \E k \in DOMAIN pane'[r] :
                pane'[r][k] = transcript'[p][i]
    BY <2>1, <2>2, <2>3
  <2> QED BY <1>1, <2>4, PipeKept
<1>2. ASSUME NEW q \in Session, prints' \in 0..MaxPrints, Happens(q, <<Shell, prints'>>),
             UNCHANGED <<live, pipe>>
      PROVE  PipeHeld(p)'
  <2>1. PICK n \in Nat : n = prints'
    BY <1>2, TmuxAssumption
  <2>2. <<Shell, n>> \in Entry
    BY DEF Entry
  <2> QED BY <1>1, <1>2, <2>1, <2>2
<1>3. ASSUME NEW t \in Sender, NEW q \in Target(to[t]), Happens(q, <<t, keyed[t] + 1>>),
             UNCHANGED <<live, pipe>>
      PROVE  PipeHeld(p)'
  <2>1. q \in Session /\ <<t, keyed[t] + 1>> \in Entry
    <3>1. to[t] \in Session /\ keyed[t] \in Nat
      BY DEF TypeOK
    <3> QED BY <3>1, TargetReached DEF Entry
  <2> QED BY <1>1, <1>3, <2>1
<1>4. ASSUME NEW s \in Session, StartPipe(s), UNCHANGED <<live, pane, transcript>>
      PROVE  PipeHeld(p)'
  <2>1. pipe'[p] = pipe[p] \/ pipe'[p] = NoFile \/ Reaches(pipe'[p], p)
    BY <1>4, PipeOpened
  <2> QED BY <1>4, <2>1, PipeKept
<1>5. ASSUME UNCHANGED <<pipe, pane, transcript>>
      PROVE  PipeHeld(p)'
  BY <1>5, PipeKept
<1> QED BY <1>2, <1>3, <1>4, <1>5, TmuxMoves

----------------------------------------------------------------------------
(* Sends.                                                                  *)

\* What a step adds to a pane is a printed line or the next key of a send.
LEMMA PaneGrows ==
  ASSUME TypeOK, Next, NEW p \in Session, NEW j \in DOMAIN pane'[p]
  PROVE  \/ j \in DOMAIN pane[p]
         \/ /\ j = Len(pane[p]) + 1
            /\ \/ pane'[p][j][1] = Shell
               \/ \E u \in Sender : SendKey(u) /\ Reaches(to[u], p)
                                    /\ pane'[p][j] = <<u, keyed[u] + 1>>
<1>1. ASSUME NEW q \in Session, NEW what \in Entry, Happens(q, what), live' = live,
             j \notin DOMAIN pane[p]
      PROVE  j = Len(pane[p]) + 1 /\ pane'[p][j] = what /\ p = q
  BY <1>1, Happened
<1>2. ASSUME NEW q \in Session, prints' \in 0..MaxPrints, Happens(q, <<Shell, prints'>>),
             UNCHANGED live, j \notin DOMAIN pane[p]
      PROVE  j = Len(pane[p]) + 1 /\ pane'[p][j][1] = Shell
  <2>1. PICK n \in Nat : n = prints'
    BY <1>2, TmuxAssumption
  <2>2. <<Shell, n>> \in Entry
    BY DEF Entry
  <2>3. j = Len(pane[p]) + 1 /\ pane'[p][j] = <<Shell, n>>
    BY <1>1, <1>2, <2>1, <2>2
  <2> QED BY <2>3
<1>3. ASSUME NEW u \in Sender, NEW q \in Target(to[u]), SendKey(u), Happens(q, <<u, keyed[u] + 1>>),
             UNCHANGED live, j \notin DOMAIN pane[p]
      PROVE  j = Len(pane[p]) + 1 /\ Reaches(to[u], p) /\ pane'[p][j] = <<u, keyed[u] + 1>>
  <2>1. to[u] \in Session /\ keyed[u] \in Nat
    BY DEF TypeOK
  <2>2. q \in Session /\ Reaches(to[u], q) /\ <<u, keyed[u] + 1>> \in Entry
    BY <2>1, TargetReached DEF Entry
  <2> QED BY <1>1, <1>3, <2>2
<1> QED BY <1>2, <1>3, TmuxMoves

\* The key a send is at goes to some pane.
LEMMA KeyTyped ==
  ASSUME TypeOK, NEW t \in Sender, SendKey(t)
  PROVE  /\ live' = live
         /\ \E p \in Session : /\ Len(pane[p]) + 1 \in DOMAIN pane'[p]
                               /\ pane'[p][Len(pane[p]) + 1] = <<t, keyed[t] + 1>>
<1>1. PICK p \in Target(to[t]) : Happens(p, <<t, keyed[t] + 1>>)
  BY DEF SendKey
<1>2. to[t] \in Session /\ keyed[t] \in Nat /\ live' = live
  BY DEF TypeOK, SendKey
<1>3. p \in Session /\ <<t, keyed[t] + 1>> \in Entry
  BY <1>2, TargetReached DEF Entry
<1>4. /\ pane'[p][Len(pane[p]) + 1] = <<t, keyed[t] + 1>>
      /\ DOMAIN pane'[p] = 1..(Len(pane[p]) + 1)
  BY <1>1, <1>2, <1>3, Happened
<1>5. Len(pane[p]) + 1 \in 1..(Len(pane[p]) + 1)
  BY <1>3, Rows
<1> QED BY <1>2, <1>3, <1>4, <1>5

\* The parts of SendHeld: the place of a send, and its keys.
PlaceHeld(t) ==
  /\ spc[t] \in {"idle", "pipe"} => keyed[t] = 0
  /\ spc[t] # "idle" => input[t] # << >>
  /\ spc[t] = "keys" => keyed[t] < Len(input[t])
  /\ spc[t] \in {"record", "done"} => keyed[t] = Len(input[t])
  /\ <<"SendKeys", t>> \in log => spc[t] = "done"
KeysReach(t) == \A p \in Session : \A i \in KeysOf(t, p) :
                  pane[p][i][2] \in 1..keyed[t] /\ Reaches(to[t], p)
KeysThere(t) == \A n \in 1..keyed[t] : \E p \in Session : \E i \in KeysOf(t, p) : pane[p][i][2] = n
KeysInOrder(t) == \A p \in Session : \A i, k \in KeysOf(t, p) : i < k => pane[p][i][2] < pane[p][k][2]

\* They are all of it.
LEMMA SendSplit ==
  ASSUME NEW t
  PROVE  SendHeld(t) <=> PlaceHeld(t) /\ KeysReach(t) /\ KeysThere(t) /\ KeysInOrder(t)
BY DEF SendHeld, PlaceHeld, KeysReach, KeysThere, KeysInOrder

\* Keys stay where they are.
LEMMA KeysStay ==
  ASSUME Grown, NEW t, NEW p \in Session
  PROVE  \A i \in KeysOf(t, p) : i \in KeysOf(t, p)' /\ pane'[p][i] = pane[p][i]
BY DEF Grown, Grows, KeysOf

\* A send that types nothing keeps its keys.
LEMMA KeysKept ==
  ASSUME TypeOK, Next, Grown, NEW t \in Sender, KeysReach(t), KeysThere(t), KeysInOrder(t),
         keyed'[t] = keyed[t], to'[t] = to[t] \/ keyed[t] = 0
  PROVE  KeysReach(t)' /\ KeysThere(t)' /\ KeysInOrder(t)'
<1>1. keyed[t] \in Nat
  BY DEF TypeOK
<1>2. ~SendKey(t)
  BY <1>1 DEF SendKey, TypeOK
<1>3. ASSUME NEW p \in Session, NEW i \in KeysOf(t, p)'
      PROVE  i \in KeysOf(t, p) /\ pane'[p][i] = pane[p][i]
  <2>1. i \in DOMAIN pane'[p] /\ pane'[p][i][1] = t
    BY <1>3 DEF KeysOf
  <2>2. i \in DOMAIN pane[p]
    BY <1>2, <2>1, PaneGrows, TmuxAssumption
  <2> QED BY <2>1, <2>2 DEF KeysOf, Grown, Grows
<1>4. KeysReach(t)'
  <2>1. ASSUME NEW p \in Session, NEW i \in KeysOf(t, p)'
        PROVE  pane'[p][i][2] \in 1..keyed'[t] /\ Reaches(to[t], p)'
    <3>1. pane[p][i][2] \in 1..keyed[t] /\ Reaches(to[t], p) /\ pane'[p][i] = pane[p][i]
      BY <1>3, <2>1 DEF KeysReach
    <3>2. keyed[t] # 0
      BY <3>1
    <3>3. to'[t] = to[t]
      BY <3>2
    <3> QED BY <3>1, <3>3 DEF Reaches, Grown
  <2> QED BY <2>1 DEF KeysReach
<1>5. KeysThere(t)'
  <2>1. ASSUME NEW n \in 1..keyed[t]
        PROVE  \E p \in Session : \E i \in KeysOf(t, p)' : pane'[p][i][2] = n
    <3>1. PICK p \in Session : \E i \in KeysOf(t, p) : pane[p][i][2] = n
      BY DEF KeysThere
    <3>2. PICK i \in KeysOf(t, p) : pane[p][i][2] = n
      BY <3>1
    <3> QED BY <3>2, KeysStay
  <2> QED BY <2>1 DEF KeysThere
<1>6. KeysInOrder(t)'
  BY <1>3 DEF KeysInOrder
<1> QED BY <1>4, <1>5, <1>6

\* A send that types a key has it behind the others it has typed.
LEMMA KeysGrow ==
  ASSUME TypeOK, Next, Grown, NEW t \in Sender, KeysReach(t), KeysThere(t), KeysInOrder(t),
         SendKey(t)
  PROVE  KeysReach(t)' /\ KeysThere(t)' /\ KeysInOrder(t)'
<1>1. keyed[t] \in Nat /\ keyed'[t] = keyed[t] + 1 /\ to'[t] = to[t]
  BY DEF TypeOK, SendKey
<1>2. ASSUME NEW p \in Session, NEW i \in KeysOf(t, p)'
      PROVE  /\ Reaches(to[t], p)
             /\ \/ i \in KeysOf(t, p) /\ pane'[p][i] = pane[p][i] /\ i \in 1..Len(pane[p])
                \/ i = Len(pane[p]) + 1 /\ pane'[p][i][2] = keyed[t] + 1
  <2>1. i \in DOMAIN pane'[p] /\ pane'[p][i][1] = t
    BY <1>2 DEF KeysOf
  <2>2. CASE i \in DOMAIN pane[p]
    <3>1. i \in KeysOf(t, p) /\ pane'[p][i] = pane[p][i]
      BY <2>1, <2>2 DEF KeysOf, Grown, Grows
    <3> QED BY <2>2, <3>1, Rows DEF KeysReach
  <2>3. CASE i \notin DOMAIN pane[p]
    <3>1. /\ i = Len(pane[p]) + 1
          /\ \E u \in Sender : Reaches(to[u], p) /\ pane'[p][i] = <<u, keyed[u] + 1>>
      BY <2>1, <2>3, PaneGrows, TmuxAssumption
    <3>2. PICK u \in Sender : Reaches(to[u], p) /\ pane'[p][i] = <<u, keyed[u] + 1>>
      BY <3>1
    <3>3. u = t
      BY <2>1, <3>2
    <3> QED BY <3>1, <3>2, <3>3
  <2> QED BY <2>2, <2>3
<1>3. KeysReach(t)'
  <2>1. ASSUME NEW p \in Session, NEW i \in KeysOf(t, p)'
        PROVE  pane'[p][i][2] \in 1..keyed'[t] /\ Reaches(to[t], p)'
    <3>1. Reaches(to[t], p)'
      BY <1>1, <1>2, <2>1 DEF Reaches, Grown
    <3>2. CASE i \in KeysOf(t, p) /\ pane'[p][i] = pane[p][i]
      <4>1. PICK x \in 1..keyed[t] : x = pane'[p][i][2]
        BY <3>2 DEF KeysReach
      <4> QED BY <1>1, <3>1, <4>1
    <3>3. CASE pane'[p][i][2] = keyed[t] + 1
      BY <1>1, <3>1, <3>3
    <3> QED BY <1>2, <2>1, <3>2, <3>3
  <2> QED BY <2>1 DEF KeysReach
<1>4. KeysThere(t)'
  <2>1. ASSUME NEW n \in 1..(keyed[t] + 1)
        PROVE  \E p \in Session : \E i \in KeysOf(t, p)' : pane'[p][i][2] = n
    <3>1. CASE n \in 1..keyed[t]
      <4>1. PICK p \in Session : \E i \in KeysOf(t, p) : pane[p][i][2] = n
        BY <3>1 DEF KeysThere
      <4>2. PICK i \in KeysOf(t, p) : pane[p][i][2] = n
        BY <4>1
      <4> QED BY <4>2, KeysStay
    <3>2. CASE n = keyed[t] + 1
      <4>1. PICK p \in Session : /\ Len(pane[p]) + 1 \in DOMAIN pane'[p]
                                 /\ pane'[p][Len(pane[p]) + 1] = <<t, keyed[t] + 1>>
        BY KeyTyped
      <4>2. Len(pane[p]) + 1 \in KeysOf(t, p)' /\ pane'[p][Len(pane[p]) + 1][2] = n
        BY <3>2, <4>1 DEF KeysOf
      <4> QED BY <4>2
    <3> QED BY <1>1, <3>1, <3>2
  <2> QED BY <1>1, <2>1 DEF KeysThere
<1>5. KeysInOrder(t)'
  <2>1. ASSUME NEW p \in Session, NEW i \in KeysOf(t, p)', NEW k \in KeysOf(t, p)', i < k
        PROVE  pane'[p][i][2] < pane'[p][k][2]
    <3>1. Len(pane[p]) \in Nat
      BY Rows
    <3>2. i \in KeysOf(t, p) /\ pane'[p][i] = pane[p][i]
      BY <1>2, <2>1, <3>1
    <3>3. CASE k \in KeysOf(t, p) /\ pane'[p][k] = pane[p][k]
      BY <2>1, <3>2, <3>3 DEF KeysInOrder
    <3>4. CASE pane'[p][k][2] = keyed[t] + 1
      <4>1. PICK x \in 1..keyed[t] : x = pane'[p][i][2]
        BY <3>2 DEF KeysReach
      <4> QED BY <1>1, <3>4, <4>1
    <3> QED BY <1>2, <2>1, <3>3, <3>4
  <2> QED BY <2>1 DEF KeysInOrder
<1> QED BY <1>3, <1>4, <1>5

\* A step of a send does nothing to another.
LEMMA OneSender ==
  ASSUME TypeOK, NEW u \in Sender, NEW t \in Sender \ {u},
         SendPipe(u) \/ SendKey(u) \/ RecordSend(u) \/ SendFails(u)
  PROVE  spc'[t] = spc[t] /\ keyed'[t] = keyed[t]
BY DEF SendPipe, SendKey, RecordSend, SendFails, GoSend, TypeOK

\* Every step keeps how far a send is and what of it is in the panes.
LEMMA SendHeldStep ==
  ASSUME TypeOK, Next, Grown, NEW t \in Sender, SendHeld(t)
  PROVE  SendHeld(t)'
<1>1. PlaceHeld(t) /\ KeysReach(t) /\ KeysThere(t) /\ KeysInOrder(t)
  BY SendSplit
<1>2. /\ spc \in [Sender -> {"idle", "pipe", "keys", "record", "done", "failed"}]
      /\ to \in [Sender -> Session] /\ input \in [Sender -> Inputs \cup {<< >>}]
      /\ keyed \in [Sender -> Nat]
  BY DEF TypeOK
<1>3. <<"SendKeys", t>> \in log' => <<"SendKeys", t>> \in log \/ RecordSend(t)
  BY LogGrows
<1>4. ASSUME PlaceHeld(t)', keyed'[t] = keyed[t], to'[t] = to[t] \/ keyed[t] = 0
      PROVE  SendHeld(t)'
  BY <1>1, <1>4, KeysKept, SendSplit DEF SendHeld, PlaceHeld, KeysReach, KeysThere, KeysInOrder
<1>5. CASE UNCHANGED senders
  <2>1. UNCHANGED <<spc, to, input, keyed>>
    BY <1>5 DEF senders
  <2>2. ~RecordSend(t)
    BY <1>2, <2>1 DEF RecordSend, GoSend
  <2> QED BY <1>1, <1>3, <1>4, <2>1, <2>2 DEF PlaceHeld
<1>6. CASE \E u \in Sender, s \in Session : StartSend(u, s)
  <2>1. PICK u \in Sender, s \in Session : StartSend(u, s)
    BY <1>6
  <2>2. PICK keys \in Inputs : input' = [input EXCEPT ![u] = keys]
    BY <2>1 DEF StartSend
  <2>3. keys # << >>
    BY TmuxAssumption
  <2>4. /\ spc[u] = "idle" /\ spc' = [spc EXCEPT ![u] = "pipe"] /\ to' = [to EXCEPT ![u] = s]
        /\ keyed' = keyed
    BY <2>1 DEF StartSend, GoSend
  <2>5. ~RecordSend(t)
    BY <1>2, <2>4 DEF RecordSend, GoSend
  <2>6. CASE t = u
    BY <1>1, <1>2, <1>3, <1>4, <2>2, <2>3, <2>4, <2>5, <2>6 DEF PlaceHeld
  <2>7. CASE t # u
    BY <1>1, <1>2, <1>3, <1>4, <2>2, <2>4, <2>5, <2>7 DEF PlaceHeld
  <2> QED BY <2>6, <2>7
<1>7. CASE \E u \in Sender \ {t} : SendPipe(u) \/ SendKey(u) \/ RecordSend(u) \/ SendFails(u)
  <2>1. PICK u \in Sender \ {t} : SendPipe(u) \/ SendKey(u) \/ RecordSend(u) \/ SendFails(u)
    BY <1>7
  <2>2. spc'[t] = spc[t] /\ keyed'[t] = keyed[t]
    BY <2>1, OneSender
  <2>3. UNCHANGED <<to, input>>
    BY <2>1 DEF SendPipe, SendKey, RecordSend, SendFails
  <2>4. ~RecordSend(t)
    BY <1>2, <2>2 DEF RecordSend, GoSend
  <2> QED BY <1>1, <1>3, <1>4, <2>2, <2>3, <2>4 DEF PlaceHeld
<1>8. CASE SendPipe(t)
  <2>1. /\ spc[t] = "pipe" /\ spc'[t] = "keys" /\ UNCHANGED <<to, input, keyed, log>>
    BY <1>2, <1>8 DEF SendPipe, GoSend
  <2>2. input[t] # << >> /\ keyed[t] = 0
    BY <1>1, <2>1 DEF PlaceHeld
  <2>3. 0 < Len(input[t])
    BY <2>2, InputLength
  <2> QED BY <1>1, <1>4, <2>1, <2>2, <2>3 DEF PlaceHeld
<1>9. CASE SendKey(t)
  <2>1. /\ spc[t] = "keys" /\ UNCHANGED <<to, input>> /\ keyed'[t] = keyed[t] + 1
        /\ spc'[t] = IF keyed[t] + 1 = Len(input[t]) THEN "record" ELSE "keys"
    BY <1>2, <1>9 DEF SendKey, GoSend
  <2>2. log' = log
    BY <1>9 DEF SendKey
  <2>3. keyed[t] < Len(input[t]) /\ keyed[t] \in Nat /\ Len(input[t]) \in Nat
        /\ input[t] # << >> /\ <<"SendKeys", t>> \notin log
    BY <1>1, <1>2, <2>1, InputLength DEF PlaceHeld
  <2>4. keyed[t] + 1 # Len(input[t]) => keyed[t] + 1 < Len(input[t])
    BY <2>3
  <2>5. PlaceHeld(t)'
    BY <2>1, <2>2, <2>3, <2>4 DEF PlaceHeld
  <2>6. KeysReach(t)' /\ KeysThere(t)' /\ KeysInOrder(t)'
    BY <1>1, <1>9, KeysGrow
  <2> QED BY <2>5, <2>6, SendSplit DEF SendHeld, PlaceHeld, KeysReach, KeysThere, KeysInOrder
<1>10. CASE RecordSend(t) \/ SendFails(t)
  <2>1. UNCHANGED <<to, input, keyed>>
    BY <1>10 DEF RecordSend, SendFails
  <2>2. /\ spc[t] \in {"pipe", "keys", "record"}
        /\ \/ spc[t] = "record" /\ spc'[t] = "done"
           \/ spc'[t] = "failed" /\ log' = log
    BY <1>2, <1>10 DEF RecordSend, SendFails, Sending, GoSend
  <2> QED BY <1>1, <1>4, <2>1, <2>2 DEF PlaceHeld
<1> QED BY <1>5, <1>6, <1>7, <1>8, <1>9, <1>10, SendersMove

\* A send that is alone stays so or is counted as overlapped.
LEMMA AloneSending ==
  ASSUME TypeOK, Next, NEW t \in Sender, AloneHeld(t), t \notin overlapped'
  PROVE  /\ t \notin overlapped
         /\ t \in Sending' => Sending' = {t} /\ (t \in Sending \/ spc[t] = "idle")
<1>1. spc \in [Sender -> {"idle", "pipe", "keys", "record", "done", "failed"}]
  BY DEF TypeOK
<1>2. CASE UNCHANGED senders
  BY <1>2 DEF senders, AloneHeld, Sending
<1>3. CASE \E u \in Sender, s \in Session : StartSend(u, s)
  <2>1. PICK u \in Sender, s \in Session : StartSend(u, s)
    BY <1>3
  <2>2. /\ spc[u] = "idle" /\ spc' = [spc EXCEPT ![u] = "pipe"]
        /\ overlapped' = IF Sending = {} THEN overlapped ELSE overlapped \cup Sending \cup {u}
    BY <2>1 DEF StartSend, GoSend
  <2>3. Sending' = Sending \cup {u}
    BY <1>1, <2>2 DEF Sending
  <2>4. CASE Sending = {}
    BY <2>2, <2>3, <2>4
  <2>5. CASE Sending # {}
    BY <2>2, <2>3, <2>5
  <2> QED BY <2>4, <2>5
<1>4. CASE \E u \in Sender : SendPipe(u) \/ SendKey(u) \/ RecordSend(u) \/ SendFails(u)
  <2>1. PICK u \in Sender : SendPipe(u) \/ SendKey(u) \/ RecordSend(u) \/ SendFails(u)
    BY <1>4
  <2>2. overlapped' = overlapped /\ u \in Sending
    BY <2>1 DEF SendPipe, SendKey, RecordSend, SendFails, Sending
  <2>3. \A v \in Sender \ {u} : spc'[v] = spc[v]
    BY <2>1, OneSender
  <2>4. Sending' \subseteq Sending
    BY <2>2, <2>3 DEF Sending
  <2>5. t \in Sending => Sending = {t}
    BY <2>2 DEF AloneHeld
  <2> QED BY <2>2, <2>4, <2>5
<1> QED BY <1>2, <1>3, <1>4, SendersMove

\* Every step keeps a send that is alone apart from the keys of the others.
LEMMA AloneHeldStep ==
  ASSUME TypeOK, Next, Grown, NEW t \in Sender, SendHeld(t), AloneHeld(t)
  PROVE  AloneHeld(t)'
<1> SUFFICES ASSUME t \notin overlapped'
             PROVE  /\ t \in Sending' => Sending' = {t}
                    /\ \A p \in Session : \A i \in KeysOf(t, p)' : \A j \in DOMAIN pane'[p] :
                         i < j /\ (t \in Sending' \/ \E k \in KeysOf(t, p)' : j < k) =>
                           pane'[p][j][1] \in {t, Shell}
  BY DEF AloneHeld
<1>1. /\ t \notin overlapped
      /\ t \in Sending' => Sending' = {t} /\ (t \in Sending \/ spc[t] = "idle")
  BY AloneSending
<1>2. \A u \in Sender : SendKey(u) => u \in Sending
  BY DEF SendKey, Sending
<1>3. ASSUME NEW p \in Session, NEW i \in KeysOf(t, p)', NEW j \in DOMAIN pane'[p], i < j,
             t \in Sending' \/ \E k \in KeysOf(t, p)' : j < k
      PROVE  pane'[p][j][1] \in {t, Shell}
  <2>1. Len(pane[p]) \in Nat /\ DOMAIN pane[p] = 1..Len(pane[p])
    BY Rows
  <2>2. i \in DOMAIN pane'[p] /\ pane'[p][i][1] = t
    BY <1>3 DEF KeysOf
  <2>3. \A k \in DOMAIN pane'[p] : k \in DOMAIN pane[p] \/ k = Len(pane[p]) + 1
    BY PaneGrows
  <2>4. i \in DOMAIN pane[p] /\ pane'[p][i] = pane[p][i]
    BY <1>3, <2>1, <2>2, <2>3 DEF Grown, Grows
  <2>5. i \in KeysOf(t, p)
    BY <2>2, <2>4 DEF KeysOf
  <2>6. spc[t] # "idle"
    <3>1. pane[p][i][2] \in 1..keyed[t]
      BY <2>5 DEF SendHeld
    <3>2. keyed[t] # 0
      BY <3>1
    <3> QED BY <3>2 DEF SendHeld
  <2>7. CASE j \notin DOMAIN pane[p]
    <3>1. j = Len(pane[p]) + 1
      BY <2>3, <2>7
    <3>2. \A k \in KeysOf(t, p)' : ~(j < k)
      BY <2>1, <2>3, <3>1 DEF KeysOf
    <3>3. t \in Sending' /\ t \in Sending
      BY <1>1, <1>3, <2>6, <3>2
    <3>4. Sending = {t}
      BY <1>1, <3>3 DEF AloneHeld
    <3>5. ASSUME NEW u \in Sender, SendKey(u), pane'[p][j] = <<u, keyed[u] + 1>>
          PROVE  pane'[p][j][1] \in {t, Shell}
      BY <1>2, <3>4, <3>5
    <3> QED BY <2>7, <3>5, PaneGrows
  <2>8. CASE j \in DOMAIN pane[p]
    <3>1. pane'[p][j] = pane[p][j]
      BY <2>8 DEF Grown, Grows
    <3>2. t \in Sending \/ \E k \in KeysOf(t, p) : j < k
      <4>1. CASE t \in Sending'
        BY <1>1, <2>6, <4>1
      <4>2. ASSUME NEW k \in KeysOf(t, p)', j < k
            PROVE  t \in Sending \/ k \in KeysOf(t, p)
        <5>1. k \in DOMAIN pane'[p] /\ pane'[p][k][1] = t
          BY <4>2 DEF KeysOf
        <5>2. CASE k \in DOMAIN pane[p]
          BY <5>1, <5>2 DEF KeysOf, Grown, Grows
        <5>3. CASE k \notin DOMAIN pane[p]
          <6>1. PICK u \in Sender : SendKey(u) /\ pane'[p][k] = <<u, keyed[u] + 1>>
            BY <5>1, <5>3, PaneGrows, TmuxAssumption
          <6>2. u = t
            BY <5>1, <6>1
          <6> QED BY <1>2, <6>1, <6>2
        <5> QED BY <5>2, <5>3
      <4> QED BY <1>3, <4>1, <4>2
    <3>3. pane[p][j][1] \in {t, Shell}
      BY <1>1, <1>3, <2>5, <2>8, <3>2 DEF AloneHeld
    <3> QED BY <3>1, <3>3
  <2> QED BY <2>7, <2>8
<1> QED BY <1>1, <1>3

----------------------------------------------------------------------------
(* Waits.                                                                  *)

\* Rows grow at their end: what is the beginning of one stays it.
LEMMA BeginsStays ==
  ASSUME TypeOK, Grown, TmuxTypes', NEW s \in Session, NEW text \in Seq(Entry), Begins(text, pane[s])
  PROVE  Begins(text, pane'[s])
<1> HIDE DEF Entry
<1>1. /\ Len(pane[s]) \in Nat /\ DOMAIN pane[s] = 1..Len(pane[s])
      /\ Len(text) \in Nat /\ DOMAIN text = 1..Len(text)
  BY Rows
<1>2. pane'[s] \in Seq(Entry)
  BY DEF TmuxTypes
<1>3. Len(pane'[s]) \in Nat /\ Len(pane[s]) <= Len(pane'[s])
  BY <1>2 DEF Grown, Grows
<1>4. \A i \in DOMAIN text : i \in DOMAIN pane[s]
  BY <1>1 DEF Begins
<1> QED BY <1>1, <1>3, <1>4 DEF Begins, Grown, Grows

\* What a call sees of a session under a name that is still its own is its pane.
LEMMA LooksAt ==
  ASSUME TypeOK, NEW s \in Session, NEW p \in Target(s)
  PROVE  /\ pane[p] \in Seq(Entry) /\ Begins(pane[p], pane[p])
         /\ Stable(s) => p = s
<1>1. p \in Session /\ Reaches(s, p)
  BY TargetReached
<1>2. pane[p] \in Seq(Entry) /\ Len(pane[p]) \in Nat
  BY <1>1, Rows
<1> QED BY <1>1, <1>2, StableReaches DEF Begins

\* A name that is that of its session was so before.
LEMMA StableBefore ==
  ASSUME Grown, NEW s, Stable(s)'
  PROVE  Stable(s)
BY DEF Stable, Grown

\* A wait that does not move keeps what it has seen, for panes only grow.
LEMMA WaitKept ==
  ASSUME TypeOK, Grown, TmuxTypes', log \subseteq log', NEW w \in Waiter, WaitHeld(w),
         wpc'[w] = wpc[w], on'[w] = on[w], condition'[w] = condition[w],
         observation'[w] = observation[w], last_text'[w] = last_text[w],
         quiet'[w] = quiet[w], result'[w] = result[w]
  PROVE  WaitHeld(w)'
<1>1. on[w] \in Session /\ last_text[w] \in Seq(Entry)
  BY DEF TypeOK
<1>2. Stable(on[w])' => Stable(on[w])
  BY DEF Stable, Grown
<1>3. Begins(last_text[w], pane[on[w]]) => Begins(last_text[w], pane'[on[w]])
  BY <1>1, BeginsStays
<1>4. Shows(w, last_text[w])' <=> Shows(w, last_text[w])
  BY DEF Shows
<1>5. Shows(w, observation[w])' <=> Shows(w, observation[w])
  BY DEF Shows
<1>6. Begins(last_text[w], observation[w])' <=> Begins(last_text[w], observation[w])
  BY DEF Begins
<1>7. Begins(last_text[w], pane[on[w]])' <=> Begins(last_text[w], pane'[on[w]])
  BY DEF Begins
<1> QED BY <1>2, <1>3, <1>4, <1>5, <1>6, <1>7 DEF WaitHeld

\* A wait that is called has recorded it.
LEMMA WaitCalled ==
  ASSUME TypeOK, NEW w \in Waiter, NEW s \in Session, WaitHeld(w), WaitCall(w, s)
  PROVE  WaitHeld(w)'
<1>1. PICK c \in Conditions :
        IF c = "invalid" THEN Answer(w, "error") ELSE GoWait(w, "look") /\ UNCHANGED result
  BY DEF WaitCall
<1>2. <<"WaitFor", w>> \in log'
  BY DEF WaitCall, Record
<1>3. \/ wpc'[w] = "done" /\ result'[w] = "error"
      \/ wpc'[w] = "look" /\ result'[w] = result[w]
  BY <1>1 DEF Answer, GoWait, TypeOK
<1>4. result[w] = "none"
  BY DEF WaitHeld, WaitCall
<1> QED BY <1>2, <1>3, <1>4 DEF WaitHeld

\* A look sees the pane, and what it sees is what is compared with the next time.
LEMMA Looked ==
  ASSUME TypeOK, Grown, TmuxTypes', log \subseteq log', NEW w \in Waiter, WaitHeld(w), Look(w)
  PROVE  WaitHeld(w)'
<1>1. /\ wpc[w] = "look" /\ UNCHANGED <<pane, live, on, condition, log>> /\ on[w] \in Session
      /\ result[w] = "none" /\ <<"WaitFor", w>> \in log
  BY DEF Look, tmux, TypeOK, WaitHeld
<1>2. CASE Target(on[w]) = {}
  <2>1. wpc'[w] = "done" /\ result'[w] = "error"
    BY <1>2 DEF Look, Answer, GoWait, TypeOK
  <2> QED BY <1>1, <2>1 DEF WaitHeld
<1>3. CASE Target(on[w]) # {}
  <2>1. PICK p \in Target(on[w]) :
          /\ observation' = [observation EXCEPT ![w] = pane[p]]
          /\ last_text' = [last_text EXCEPT ![w] = pane[p]]
          /\ GoWait(w, "decide") /\ UNCHANGED result
    BY <1>3 DEF Look
  <2>2. observation'[w] = pane[p] /\ last_text'[w] = pane[p] /\ wpc'[w] = "decide" /\ result' = result
    BY <2>1 DEF GoWait, TypeOK
  <2>3. Begins(pane[p], pane[p]) /\ (Stable(on[w]) => p = on[w])
    BY <1>1, LooksAt
  <2>4. Stable(on[w])' => Begins(last_text[w], pane[on[w]])'
    BY <1>1, <2>2, <2>3 DEF Stable, Begins
  <2> QED BY <1>1, <2>2, <2>4 DEF WaitHeld
<1> QED BY <1>2, <1>3

\* A wait answers with what it has decided on.
LEMMA Decided ==
  ASSUME TypeOK, NEW w \in Waiter, WaitHeld(w), Decide(w)
  PROVE  WaitHeld(w)'
<1>1. /\ wpc[w] = "decide" /\ result[w] = "none" /\ <<"WaitFor", w>> \in log
      /\ UNCHANGED <<tmux, on, condition, observation, last_text, quiet>>
      /\ observation[w] = last_text[w]
      /\ Stable(on[w]) => Begins(last_text[w], pane[on[w]])
  BY DEF Decide, WaitHeld
<1>2. UNCHANGED <<pane, live>>
  BY <1>1 DEF tmux
<1>3. Shows(w, last_text[w])' <=> Shows(w, last_text[w])
  BY <1>1 DEF Shows
<1>4. Shows(w, observation[w])' <=> Shows(w, observation[w])
  BY <1>1 DEF Shows
<1>5. CASE Shows(w, observation[w]) /\ Record(w, "Observation") /\ Answer(w, "ok")
  <2>1. /\ wpc'[w] = "done" /\ result'[w] = "ok"
        /\ <<"WaitFor", w>> \in log' /\ <<"Observation", w>> \in log'
    BY <1>1, <1>5 DEF Answer, GoWait, Record, TypeOK
  <2> QED BY <1>1, <1>4, <1>5, <2>1 DEF WaitHeld
<1>6. CASE /\ ~Shows(w, observation[w])
           /\ GoWait(w, IF expired[w] THEN "again" ELSE "look")
           /\ UNCHANGED <<result, log>>
  <2>1. wpc'[w] \in {"again", "look"} /\ result' = result /\ log' = log
    BY <1>6 DEF GoWait, TypeOK
  <2>2. (Stable(on[w]) => Begins(last_text[w], pane[on[w]]))'
    BY <1>1, <1>2 DEF Stable, Begins
  <2> QED BY <1>1, <1>3, <1>6, <2>1, <2>2 DEF WaitHeld
<1> QED BY <1>5, <1>6 DEF Decide

\* A wait that times out records what is there now, which is not older.
LEMMA LookedAgain ==
  ASSUME TypeOK, NEW w \in Waiter, WaitHeld(w), LookAgain(w)
  PROVE  WaitHeld(w)'
<1>1. /\ wpc[w] = "again" /\ result[w] = "none" /\ <<"WaitFor", w>> \in log
      /\ UNCHANGED <<tmux, on, condition, last_text, quiet>>
      /\ ~Shows(w, last_text[w]) /\ on[w] \in Session
      /\ Stable(on[w]) => Begins(last_text[w], pane[on[w]])
  BY DEF LookAgain, WaitHeld, TypeOK
<1>2. UNCHANGED <<pane, live>>
  BY <1>1 DEF tmux
<1>3. Shows(w, last_text[w])' <=> Shows(w, last_text[w])
  BY <1>1 DEF Shows
<1>4. CASE Target(on[w]) = {}
  <2>1. wpc'[w] = "done" /\ result'[w] = "error" /\ log' = log
    BY <1>4 DEF LookAgain, Answer, GoWait, TypeOK
  <2> QED BY <1>1, <2>1 DEF WaitHeld
<1>5. CASE Target(on[w]) # {}
  <2>1. PICK p \in Target(on[w]) : /\ observation' = [observation EXCEPT ![w] = pane[p]]
                                   /\ Record(w, "Observation") /\ Answer(w, "timeout")
    BY <1>5 DEF LookAgain
  <2>2. /\ observation'[w] = pane[p] /\ wpc'[w] = "done" /\ result'[w] = "timeout"
        /\ <<"WaitFor", w>> \in log' /\ <<"Observation", w>> \in log'
    BY <1>1, <2>1 DEF Answer, GoWait, Record, TypeOK
  <2>3. Stable(on[w]) => p = on[w]
    BY <1>1, LooksAt
  <2>4. (Stable(on[w]) => Begins(last_text[w], observation[w]))'
    BY <1>1, <1>2, <2>2, <2>3 DEF Stable, Begins
  <2> QED BY <1>1, <1>3, <2>2, <2>4 DEF WaitHeld
<1> QED BY <1>4, <1>5

\* Time passes for a wait that has not decided, or one fails.
LEMMA WaitDisturbed ==
  ASSUME TypeOK, NEW w \in Waiter, WaitHeld(w), Expire(w) \/ GetsQuiet(w) \/ WaitFails(w)
  PROVE  WaitHeld(w)'
<1>1. /\ UNCHANGED <<tmux, on, condition, observation, last_text, log>>
      /\ wpc[w] \in {"look", "decide", "again"} /\ result[w] = "none" /\ <<"WaitFor", w>> \in log
  BY DEF Expire, GetsQuiet, WaitFails, WaitHeld
<1>2. CASE WaitFails(w)
  <2>1. wpc'[w] = "done" /\ result'[w] = "error"
    BY <1>2 DEF WaitFails, Answer, GoWait, TypeOK
  <2> QED BY <1>1, <2>1 DEF WaitHeld
<1>3. CASE Expire(w) \/ GetsQuiet(w)
  <2>1. wpc[w] \in {"look", "decide"} /\ wpc' = wpc /\ result' = result
    BY <1>3 DEF Expire, GetsQuiet
  <2>2. (Stable(on[w]) => Begins(last_text[w], pane[on[w]]))'
        <=> (Stable(on[w]) => Begins(last_text[w], pane[on[w]]))
    BY <1>1 DEF tmux, Stable, Begins
  <2> QED BY <1>1, <2>1, <2>2 DEF WaitHeld
<1> QED BY <1>2, <1>3

\* Every step keeps what a wait has recorded and seen.
LEMMA WaitHeldStep ==
  ASSUME TypeOK, Next, Grown, TmuxTypes', NEW w \in Waiter, WaitHeld(w)
  PROVE  WaitHeld(w)'
<1>1. log \subseteq log'
  BY LogGrows
<1>2. CASE UNCHANGED waiters
  <2>1. UNCHANGED <<wpc, on, condition, observation, last_text, quiet, result>>
    BY <1>2 DEF waiters
  <2> QED BY <1>1, <2>1, WaitKept
<1>3. ASSUME NEW v \in Waiter \ {w},
             \/ \E s \in Session : WaitCall(v, s)
             \/ Expire(v) \/ GetsQuiet(v) \/ Look(v) \/ Decide(v) \/ LookAgain(v) \/ WaitFails(v)
      PROVE  WaitHeld(w)'
  <2>1. /\ wpc'[w] = wpc[w] /\ on'[w] = on[w] /\ condition'[w] = condition[w]
        /\ observation'[w] = observation[w] /\ last_text'[w] = last_text[w]
        /\ quiet'[w] = quiet[w] /\ result'[w] = result[w]
    BY <1>3 DEF WaitCall, Expire, GetsQuiet, Look, Decide, LookAgain, WaitFails, Answer, GoWait,
       TypeOK
  <2> QED BY <1>1, <2>1, WaitKept
<1>4. CASE \E s \in Session : WaitCall(w, s)
  BY <1>4, WaitCalled
<1>5. CASE Look(w)
  BY <1>1, <1>5, Looked
<1>6. CASE Decide(w)
  BY <1>6, Decided
<1>7. CASE LookAgain(w)
  BY <1>7, LookedAgain
<1>8. CASE Expire(w) \/ GetsQuiet(w) \/ WaitFails(w)
  BY <1>8, WaitDisturbed
<1> QED BY <1>2, <1>3, <1>4, <1>5, <1>6, <1>7, <1>8, WaitersMove

----------------------------------------------------------------------------
(* The inductive invariant.                                                *)

\* It holds at the start.
LEMMA InitIInv ==
  ASSUME Init
  PROVE  IInv
<1>1. AnySession \in Session
  BY TmuxAssumption DEF AnySession
<1>2. << >> \in Seq(Entry)
  BY EmptySeq
<1>3. NoScreen \in Seq(Entry)
  <2>1. <<Shell, 0>> \in Entry
    BY DEF Entry
  <2> HIDE DEF Entry
  <2> QED BY <2>1 DEF NoScreen
<1>4. TmuxTypes /\ SendTypes
  BY <1>1, <1>2, TmuxAssumption DEF Init, TmuxTypes, SendTypes
<1>5. WaitTypes
  BY <1>1, <1>2 DEF Init, WaitTypes
<1>6. PlaceTypes /\ CursorTypes /\ TextTypes
  <2>1. Len(<< >>) = 0 /\ transcript[attached] = << >>
    BY <1>1 DEF Init
  <2> QED BY <1>1, <1>2, <1>3, <2>1 DEF Init, PlaceTypes, CursorTypes, TextTypes
<1>7. TypeOK
  BY <1>4, <1>5, <1>6, Split
<1>8. \A p \in Session : pane[p] = << >> /\ transcript[p] = << >> /\ pipe[p] = p
  BY DEF Init
<1>9. \A p \in Session : PipeHeld(p)
  BY <1>8 DEF PipeHeld, Reaches
<1>10. \A t, p : p \in Session => KeysOf(t, p) = {}
  BY <1>8 DEF KeysOf
<1>11. ASSUME NEW t \in Sender PROVE SendHeld(t)
  <2>1. spc[t] = "idle" /\ keyed[t] = 0 /\ log = {}
    BY <1>11 DEF Init
  <2>2. 1..0 = {}
    OBVIOUS
  <2> QED BY <1>10, <2>1, <2>2 DEF SendHeld
<1>12. ASSUME NEW t \in Sender PROVE AloneHeld(t)
  BY <1>10, <1>12 DEF Init, AloneHeld, Sending
<1>13. AttachHeld
  BY DEF Init, AttachHeld
<1>14. ASSUME NEW w \in Waiter PROVE WaitHeld(w)
  BY <1>14 DEF Init, WaitHeld
<1> QED BY <1>7, <1>9, <1>11, <1>12, <1>13, <1>14 DEF IInv

\* Every step keeps it.
LEMMA NextIInv ==
  ASSUME IInv, [Next]_vars
  PROVE  IInv'
<1>1. /\ TypeOK /\ AttachHeld /\ \A p \in Session : PipeHeld(p)
      /\ \A t \in Sender : SendHeld(t) /\ AloneHeld(t)
      /\ \A w \in Waiter : WaitHeld(w)
  BY DEF IInv
<1>2. CASE Next
  <2>1. TmuxTypes' /\ Grown
    BY <1>1, <1>2, TmuxTypesStep
  <2>2. PlaceTypes' /\ CursorTypes' /\ TextTypes' /\ AttachHeld'
    BY <1>1, <1>2, <2>1, AttachHeldStep
  <2>3. SendTypes' /\ WaitTypes'
    BY <1>1, <1>2, SendTypesStep, WaitTypesStep
  <2>4. TypeOK'
    BY <2>1, <2>2, <2>3 DEF TypeOK, TmuxTypes, SendTypes, WaitTypes, PlaceTypes, CursorTypes,
       TextTypes
  <2>5. \A p \in Session : PipeHeld(p)'
    BY <1>1, <1>2, <2>1, PipeStep
  <2>6. \A t \in Sender : SendHeld(t)' /\ AloneHeld(t)'
    BY <1>1, <1>2, <2>1, SendHeldStep, AloneHeldStep
  <2>7. \A w \in Waiter : WaitHeld(w)'
    BY <1>1, <1>2, <2>1, WaitHeldStep
  <2> QED BY <2>2, <2>4, <2>5, <2>6, <2>7 DEF IInv
<1>3. CASE UNCHANGED vars
  <2>1. UNCHANGED <<live, pipe, pane, transcript, prints>> /\ UNCHANGED <<spc, to, input, keyed, overlapped>>
    BY <1>3 DEF vars
  <2>2. UNCHANGED <<wpc, on, condition, observation, last_text, quiet, expired, result, log>>
    BY <1>3 DEF vars
  <2>3. UNCHANGED <<apc, attached, cursor, last_screen, chunk, delivered, from, begun>>
    BY <1>3 DEF vars
  <2>4. TypeOK'
    BY <1>1, <2>1, <2>2, <2>3 DEF TypeOK
  <2>5. \A p \in Session : PipeHeld(p)'
    BY <1>1, <2>1 DEF PipeHeld, Reaches
  <2>6. \A t, p : KeysOf(t, p)' = KeysOf(t, p)
    BY <2>1 DEF KeysOf
  <2>7. ASSUME NEW t \in Sender PROVE SendHeld(t)'
    <3>1. PlaceHeld(t) /\ KeysReach(t) /\ KeysThere(t) /\ KeysInOrder(t)
      BY <1>1, SendSplit
    <3>2. PlaceHeld(t)'
      BY <2>1, <2>2, <3>1 DEF PlaceHeld
    <3>3. KeysReach(t)'
      BY <2>1, <2>6, <3>1 DEF KeysReach, Reaches
    <3>4. KeysThere(t)'
      BY <2>1, <2>6, <3>1 DEF KeysThere
    <3>5. KeysInOrder(t)'
      BY <2>1, <2>6, <3>1 DEF KeysInOrder
    <3> QED BY <3>2, <3>3, <3>4, <3>5 DEF SendHeld, PlaceHeld, KeysReach, KeysThere, KeysInOrder
  <2>8. \A t \in Sender : AloneHeld(t)'
    BY <1>1, <2>1, <2>6 DEF AloneHeld, Sending
  <2>9. AttachHeld'
    BY <1>1, <2>1, <2>3 DEF AttachHeld
  <2>10. \A w \in Waiter : WaitHeld(w)'
    BY ZenonT(30), <1>1, <2>1, <2>2 DEF WaitHeld, Shows, Stable, Begins
  <2> QED BY <2>4, <2>5, <2>7, <2>8, <2>9, <2>10 DEF IInv
<1> QED BY <1>2, <1>3

\* The inductive invariant holds of every behaviour of the tmux backend, for any
\* sessions, whatever names they have, any number of sends and waits, and any
\* input.
THEOREM InvariantHolds == Spec => []IInv
<1>1. Init => IInv
  BY InitIInv
<1>2. IInv /\ [Next]_vars => IInv'
  BY NextIInv
<1> QED BY <1>1, <1>2, PTL DEF Spec

\* The types of the variables.
THEOREM TypeCorrect == Spec => []TypeOK
<1>1. IInv => TypeOK
  BY DEF IInv
<1> QED BY <1>1, InvariantHolds, PTL

\* An input in the log was typed to its end, in its order, in one pane and not
\* mixed with another, unless the send was not alone or the session was replaced
\* under its name.
THEOREM Recorded == Spec => []RecordedWasTyped
<1>1. IInv => RecordedWasTyped
  <2> SUFFICES ASSUME IInv, NEW t \in Sender, <<"SendKeys", t>> \in log
               PROVE  LET typed(i, p) == <<t, i>> \in Range(pane[p]) IN
                      /\ \A i \in DOMAIN input[t] : \E p \in Session : typed(i, p)
                      /\ t \in overlapped \/ (Longer[to[t]] # {} /\ to[t] \notin live)
                         \/ \E p \in Session :
                              /\ \A i \in DOMAIN input[t] : typed(i, p)
                              /\ \A i, k \in KeysOf(t, p) : i < k =>
                                   /\ pane[p][i][2] < pane[p][k][2]
                                   /\ \A j \in i..k : pane[p][j][1] \in {t, Shell}
    BY DEF RecordedWasTyped
  <2>1. TypeOK /\ SendHeld(t) /\ AloneHeld(t) /\ to[t] \in Session
    BY DEF IInv, TypeOK
  <2>2. DOMAIN input[t] = 1..keyed[t]
    BY <2>1, InputLength DEF SendHeld
  <2>3. ASSUME NEW n \in DOMAIN input[t]
        PROVE  \E p \in Session : <<t, n>> \in Range(pane[p]) /\ Reaches(to[t], p)
    <3>1. PICK p \in Session : \E i \in KeysOf(t, p) : pane[p][i][2] = n
      BY <2>1, <2>2, <2>3 DEF SendHeld
    <3>2. PICK i \in KeysOf(t, p) : pane[p][i][2] = n
      BY <3>1
    <3>3. i \in DOMAIN pane[p] /\ pane[p][i][1] = t /\ Reaches(to[t], p)
      BY <2>1, <3>2 DEF KeysOf, SendHeld
    <3>4. pane[p][i] \in Entry
      BY <2>1, <3>3, Rows
    <3>5. pane[p][i] = <<t, n>>
      BY <3>2, <3>3, <3>4 DEF Entry
    <3> QED BY <3>3, <3>5 DEF Range
  <2>4. ASSUME t \notin overlapped, Stable(to[t])
        PROVE  LET p == to[t] IN
               /\ \A i \in DOMAIN input[t] : <<t, i>> \in Range(pane[p])
               /\ \A i, k \in KeysOf(t, p) : i < k =>
                    /\ pane[p][i][2] < pane[p][k][2]
                    /\ \A j \in i..k : pane[p][j][1] \in {t, Shell}
    <3> DEFINE p == to[t]
    <3>1. \A i \in DOMAIN input[t] : <<t, i>> \in Range(pane[p])
      BY <2>1, <2>3, <2>4, StableReaches
    <3>2. ASSUME NEW i \in KeysOf(t, p), NEW k \in KeysOf(t, p), i < k
          PROVE  /\ pane[p][i][2] < pane[p][k][2]
                 /\ \A j \in i..k : pane[p][j][1] \in {t, Shell}
      <4>1. pane[p][i][2] < pane[p][k][2]
        BY <2>1, <3>2 DEF SendHeld
      <4>2. /\ i \in DOMAIN pane[p] /\ pane[p][i][1] = t
            /\ k \in DOMAIN pane[p] /\ pane[p][k][1] = t
            /\ DOMAIN pane[p] = 1..Len(pane[p]) /\ Len(pane[p]) \in Nat
        BY <2>1, Rows DEF KeysOf
      <4>3. ASSUME NEW j \in i..k PROVE pane[p][j][1] \in {t, Shell}
        <5>1. j \in DOMAIN pane[p] /\ (j = i \/ j = k \/ (i < j /\ j < k))
          BY <4>2, <4>3
        <5>2. CASE i < j /\ j < k
          BY <2>1, <2>4, <5>1, <5>2 DEF AloneHeld
        <5> QED BY <4>2, <5>1, <5>2
      <4> QED BY <4>1, <4>3
    <3> QED BY <3>1, <3>2
  <2> QED BY <2>1, <2>3, <2>4 DEF Stable
<1> QED BY <1>1, InvariantHolds, PTL

\* Input goes to the session it names, and a transcript holds what happened in
\* its own session, except that the name of a session that is gone may mean one
\* with a longer name.
THEOREM SessionsApart == Spec => []NamesApart
<1>1. IInv => NamesApart
  <2> SUFFICES ASSUME IInv, NEW p \in Session
               PROVE  /\ \A what \in Range(pane[p]) :
                           what[1] \in Sender => Reaches(to[what[1]], p)
                      /\ \A what \in Range(transcript[p]) :
                           \E q \in Session : Reaches(p, q) /\ what \in Range(pane[q])
    BY DEF NamesApart
  <2>1. ASSUME NEW what \in Range(pane[p]), what[1] \in Sender
        PROVE  Reaches(to[what[1]], p)
    <3>1. PICK i \in DOMAIN pane[p] : pane[p][i] = what
      BY <2>1 DEF Range
    <3>2. i \in KeysOf(what[1], p)
      BY <3>1 DEF KeysOf
    <3> QED BY <2>1, <3>2 DEF IInv, SendHeld
  <2>2. ASSUME NEW what \in Range(transcript[p])
        PROVE  \E q \in Session : Reaches(p, q) /\ what \in Range(pane[q])
    <3>1. PICK i \in DOMAIN transcript[p] : transcript[p][i] = what
      BY <2>2 DEF Range
    <3>2. PICK q \in Session : Reaches(p, q) /\ \E k \in DOMAIN pane[q] : pane[q][k] = what
      BY <3>1 DEF IInv, PipeHeld
    <3> QED BY <3>2 DEF Range
  <2> QED BY <2>1, <2>2
<1> QED BY <1>1, InvariantHolds, PTL

\* A client of an attachment misses nothing that is in the transcript of its
\* session between the beginning of its history and its offset.
THEOREM MissesOnlyUnpiped == Spec => []AttachMissesOnlyUnpiped
<1>1. IInv => AttachMissesOnlyUnpiped
  <2> SUFFICES ASSUME IInv, apc = "input"
               PROVE  Range(SubSeq(transcript[attached], from + 1, cursor)) \subseteq delivered
    BY DEF AttachMissesOnlyUnpiped
  <2> DEFINE row == transcript[attached]
  <2>1. TypeOK /\ AttachHeld
    BY DEF IInv
  <2>2. /\ row \in Seq(Entry) /\ Len(row) \in Nat
        /\ cursor \in 0..Len(row) /\ from \in 0..cursor /\ chunk = << >>
    BY <2>1, Rows DEF TypeOK, AttachHeld
  <2> HIDE DEF Entry
  <2>3. \A i \in (from + 1)..cursor : row[i] \in delivered
    <3>1. Range(chunk) = {}
      BY <2>2 DEF Range
    <3> QED BY <2>1, <3>1 DEF AttachHeld
  <2> HIDE DEF row
  <2>4. /\ DOMAIN SubSeq(row, from + 1, cursor) = 1..(cursor - from)
        /\ \A i \in 1..(cursor - from) : SubSeq(row, from + 1, cursor)[i] = row[from + i]
    BY <2>2
  <2>5. \A i \in 1..(cursor - from) : from + i \in (from + 1)..cursor
    BY <2>2
  <2>6. Range(SubSeq(row, from + 1, cursor)) \subseteq delivered
    BY <2>3, <2>4, <2>5 DEF Range
  <2> QED BY <2>6 DEF row
<1> QED BY <1>1, InvariantHolds, PTL

\* A wait that succeeds or times out leaves its call and one observation in the
\* log: success shows the condition, and a timeout is later than the look that
\* did not.
THEOREM WaitsAnswered == Spec => []WaitAnswered
<1>1. IInv => WaitAnswered
  <2> SUFFICES ASSUME IInv, NEW w \in Waiter, result[w] \in {"ok", "timeout"}
               PROVE  /\ {<<"WaitFor", w>>, <<"Observation", w>>} \subseteq log
                      /\ result[w] = "ok" => Shows(w, observation[w]) /\ observation[w] = last_text[w]
                      /\ result[w] = "timeout" =>
                           /\ ~Shows(w, last_text[w])
                           /\ IsPrefix(last_text[w], observation[w])
                              \/ (Longer[on[w]] # {} /\ on[w] \notin live)
    BY DEF WaitAnswered
  <2>1. /\ WaitHeld(w) /\ wpc[w] \in {"idle", "look", "decide", "again", "done"}
        /\ last_text[w] \in Seq(Entry) /\ observation[w] \in Seq(Entry)
    BY DEF IInv, TypeOK
  <2>2. wpc[w] = "done"
    BY <2>1 DEF WaitHeld
  <2>3. {<<"WaitFor", w>>, <<"Observation", w>>} \subseteq log
    BY <2>1, <2>2 DEF WaitHeld
  <2>4. ASSUME result[w] = "timeout", Stable(on[w])
        PROVE  IsPrefix(last_text[w], observation[w])
    <3> DEFINE s == last_text[w]  r == observation[w]
    <3>1. Begins(s, r)
      BY <2>1, <2>4 DEF WaitHeld
    <3>2. s \in Seq(Entry) /\ r \in Seq(Entry)
      BY <2>1
    <3> HIDE DEF s, r, Entry
    <3>3. Len(s) \in Nat /\ Len(r) \in Nat /\ Len(s) <= Len(r)
      BY <3>1, <3>2 DEF Begins
    <3>4. /\ SubSeq(s, 1, Len(s)) \in Seq(Entry) /\ Len(SubSeq(s, 1, Len(s))) = Len(s)
          /\ \A i \in 1..Len(s) : SubSeq(s, 1, Len(s))[i] = s[i]
      BY <3>2, <3>3
    <3>5. /\ SubSeq(r, 1, Len(s)) \in Seq(Entry) /\ Len(SubSeq(r, 1, Len(s))) = Len(s)
          /\ \A i \in 1..Len(s) : SubSeq(r, 1, Len(s))[i] = r[i]
      BY <3>2, <3>3
    <3>6. \A i \in 1..Len(s) : s[i] = r[i]
      BY <3>1, <3>2 DEF Begins
    <3>7. SubSeq(s, 1, Len(s)) = SubSeq(r, 1, Len(s))
      BY <3>4, <3>5, <3>6, SeqEqual
    <3>8. IsPrefix(s, r)
      BY <3>3, <3>7 DEF IsPrefix
    <3> QED BY <3>8 DEF s, r
  <2>5. result[w] = "ok" => Shows(w, observation[w]) /\ observation[w] = last_text[w]
    BY <2>1 DEF WaitHeld
  <2>6. result[w] = "timeout" => ~Shows(w, last_text[w])
    BY <2>1 DEF WaitHeld
  <2> QED BY <2>3, <2>4, <2>5, <2>6 DEF Stable
<1> QED BY <1>1, InvariantHolds, PTL
=============================================================================
