------------------------- MODULE PolicyGate_proofs -------------------------
(***************************************************************************)
(* Proofs about PolicyGate, for any threads, processes, sessions, commands,*)
(* rules, grants, crashes and failed steps.                                *)
(***************************************************************************)
EXTENDS PolicyGate, FiniteSetTheorems, SequenceTheorems,
        WellFoundedInduction, TLAPS

----------------------------------------------------------------------------
(* The inductive invariants.                                               *)

\* What a request is when its thread is at a label.
RequestHeld ==
  \A t \in Thread : pc[t] # "idle" =>
    LET r == request[t] IN
    /\ r \in Request /\ r.at <= now
    /\ pc[t] \in {"approve", "deny"} => r.op = "send"
    /\ pc[t] = "created" => r.op = "approve"
    /\ pc[t] \in {"deliver", "record"} => r.op # "approve"
    /\ r.op = "attach" => pc[t] \in {"deliver", "record"} /\ r.grant = NoGrant
    /\ pc[t] \in {"lock", "read", "truncate", "write", "approve", "created"} =>
         Gated(r.command) /\ r.grant \in Grant /\ terms[r.grant] # Nothing

\* Nobody has seen a grant that no approval has made.
GrantsKnown ==
  \A g \in Grant : terms[g] = Nothing =>
    approvals[g] = "none" /\ g \notin issued /\ \A t \in Thread : copy[t][g] = "none"

\* From the read that found it valid on, a token fits the request that spends it.
TokenFits ==
  \A t \in Thread :
    pc[t] \in {"truncate", "write", "approve"} /\ request[t].op = "send" =>
      LET r == request[t] IN
      /\ terms[r.grant].session = r.session
      /\ terms[r.grant].command = r.command
      /\ r.at < terms[r.grant].expires

\* The approval of g for the command c is in the log of s.
Recorded(s, c, g) ==
  \E i \in DOMAIN evidence[s] :
    evidence[s][i] = [kind |-> "approved", command |-> c, grant |-> g]

\* An input that s may get: typed into an attachment, which carries no grant, or
\* let through by the rules.
MayGet(s, d) ==
  \/ d.via = "attach" /\ d.grant = NoGrant
  \/ /\ d.via = "send"
     /\ ~Denied(d.command)
     /\ Gated(d.command) => Recorded(s, d.command, d.grant)

DeliverApproved ==
  \A t \in Thread : pc[t] = "deliver" => MayGet(request[t].session, InputOf(t))

Delivers ==
  \A s \in Session : \A i \in DOMAIN terminal[s] : MayGet(s, terminal[s][i])

\* Where the spending of g has come to.
Spending(g) ==
  \/ \E s \in Session : \E i \in DOMAIN evidence[s] :
       evidence[s][i].kind = "approved" /\ evidence[s][i].grant = g
  \/ \E t \in Thread : pc[t] = "approve" /\ request[t].grant = g

SpentSeen ==
  faults = 0 =>
    /\ \A g \in Grant : approvals[g] = "used" => Spending(g)
    /\ \A t \in Thread, g \in Grant :
         pc[t] \in {"truncate", "write"} /\ copy[t][g] = "used" =>
           Spending(g) \/ (request[t].op = "send" /\ request[t].grant = g)

IInv == /\ TypeOK
        /\ RequestHeld
        /\ GrantsKnown
        /\ TokenFits
        /\ DeliverApproved
        /\ Delivers
        /\ SpentSeen

\* The threads that are about to log an input can be counted, and the count is
\* right.
Balanced(s, c) ==
  LET recorded == Cardinality(Logged(s, c)) + Cardinality(Logging(s, c))
  IN  /\ IsFiniteSet(Logging(s, c))
      /\ recorded <= Cardinality(Typed(s, c))
      /\ faults = 0 => recorded = Cardinality(Typed(s, c))
Counted == \A s \in Session, c \in Command : Balanced(s, c)

\* The mutex is what keeps two threads from the file, and only in one process.
OneProcess == \A t, u \in Thread : ProcOf[t] = ProcOf[u]

Mutex == \A t \in Thread : pc[t] \in HoldsLock => lock[ProcOf[t]] = t

\* Without faults it is only ever the thread inside the mutex that has the file
\* not parse, and it writes a file that it left empty.
FileParses ==
  faults = 0 =>
    /\ file # "whole" => \E t \in Thread : pc[t] = "write"
    /\ \A t \in Thread : pc[t] = "write" => file = "empty"

\* What a thread is about to write is the file with its own change.
CopyIsFresh ==
  \A t \in Thread : pc[t] \in {"truncate", "write"} =>
    LET r == request[t] IN
    /\ copy[t] = [approvals EXCEPT ![r.grant] = IF r.op = "send" THEN "used" ELSE "unused"]
    /\ r.op = "send" => approvals[r.grant] = "unused"

\* A grant comes into the file once, for the one request that made it.
Creating(t) == pc[t] \in {"lock", "read", "truncate", "write"} /\ request[t].op = "approve"

CreatedOnce ==
  /\ \A t, u \in Thread : Creating(t) /\ Creating(u) /\ request[t].grant = request[u].grant
                            => t = u
  /\ \A t \in Thread : Creating(t) =>
       approvals[request[t].grant] = "none" /\ request[t].grant \notin issued
  /\ \A t \in Thread : pc[t] = "created" => approvals[request[t].grant] # "none"
  /\ \A g \in issued : approvals[g] # "none"

\* An approval is spent once, recorded once and delivered once.
IsApproval(s, i, g) == evidence[s][i].kind = "approved" /\ evidence[s][i].grant = g

ApprovedOnce ==
  /\ \A g \in Grant, s1, s2 \in Session :
       \A i \in DOMAIN evidence[s1], j \in DOMAIN evidence[s2] :
         IsApproval(s1, i, g) /\ IsApproval(s2, j, g) => s1 = s2 /\ i = j
  /\ \A s \in Session : \A i \in DOMAIN evidence[s] :
       evidence[s][i].kind = "approved" =>
         evidence[s][i].grant \in Grant /\ approvals[evidence[s][i].grant] = "used"
  /\ \A t \in Thread : pc[t] = "approve" =>
       LET g == request[t].grant IN
       /\ approvals[g] = "used"
       /\ \A s \in Session : \A i \in DOMAIN evidence[s] : ~IsApproval(s, i, g)
       /\ \A u \in Thread : pc[u] = "approve" /\ request[u].grant = g => u = t

Delivering(t) ==
  pc[t] = "deliver" /\ Gated(request[t].command) /\ request[t].grant \in Grant

IsDelivery(s, i, g) == Gated(terminal[s][i].command) /\ terminal[s][i].grant = g

DeliveredOnce ==
  /\ \A g \in Grant, s1, s2 \in Session :
       \A i \in DOMAIN terminal[s1], j \in DOMAIN terminal[s2] :
         IsDelivery(s1, i, g) /\ IsDelivery(s2, j, g) => s1 = s2 /\ i = j
  /\ \A t \in Thread : Delivering(t) =>
       /\ \A s \in Session : \A i \in DOMAIN terminal[s] : ~IsDelivery(s, i, request[t].grant)
       /\ \A u \in Thread : Delivering(u) /\ request[u].grant = request[t].grant => u = t

\* A send presents a grant that a client was told of.
Presented ==
  \A t \in Thread : pc[t] # "idle" /\ request[t].op = "send" =>
    request[t].grant \in issued \cup {NoGrant}

OInv == /\ IInv
        /\ Mutex
        /\ FileParses
        /\ CopyIsFresh
        /\ CreatedOnce
        /\ ApprovedOnce
        /\ DeliveredOnce
        /\ Presented

----------------------------------------------------------------------------
(* Lemmas about the rules and about the logs.                              *)

\* A set of natural numbers that is not empty has a least element: of the
\* intervals that end in its elements, one contains no other.
LEMMA LeastElement ==
  ASSUME NEW S \in SUBSET Nat, S # {}
  PROVE  \E m \in S : \A n \in S : m <= n
<1> DEFINE intervals == {1..n : n \in S}
           smaller == StrictSubsetOrdering(Nat)
<1>1. \A n \in Nat : 1..n \in FiniteSubsetsOf(Nat)
  BY FS_Interval DEF FiniteSubsetsOf
<1>2. intervals \subseteq FiniteSubsetsOf(Nat) /\ intervals # {}
  BY <1>1
<1>3. IsWellFoundedOn(smaller, FiniteSubsetsOf(Nat))
  BY FS_StrictSubsetOrderingWellFounded
<1>4. \E x \in intervals : \A y \in intervals : ~ (<<y, x>> \in smaller)
  <2> HIDE DEF intervals, smaller
  <2> QED BY <1>2, <1>3, WFMin
<1>5. PICK m \in S : \A n \in S : ~ (<<1..n, 1..m>> \in smaller)
  BY <1>4
<1>6. ASSUME NEW n \in S, n < m PROVE FALSE
  <2>1. 1..n \subseteq 1..m /\ m \in 1..m /\ m \notin 1..n
    BY <1>6
  <2>2. <<1..n, 1..m>> \in smaller
    BY <2>1 DEF StrictSubsetOrdering
  <2> QED BY <1>5, <2>2
<1> QED BY <1>6

\* The rule that decides exists when any rule matches: it is the first of them.
LEMMA FirstRuleDecides ==
  ASSUME NEW c \in Command, Matching(c) # {}
  PROVE  \E i \in Matching(c) :
           /\ \A j \in Matching(c) : i <= j
           /\ Evaluate(c) = [label |-> Rules[i].label, action |-> Rules[i].action]
<1>1. Rules \in Seq(Rule)
  BY GateAssumption DEF Rules
<1>2. Matching(c) \in SUBSET Nat
  BY <1>1 DEF Matching
<1>3. \E i \in Matching(c) : \A j \in Matching(c) : i <= j
  BY <1>2, LeastElement
<1> QED BY <1>3 DEF Evaluate

\* The rule that gates a command has a label.
LEMMA GatedByARule ==
  ASSUME NEW c \in Command, Gated(c)
  PROVE  Evaluate(c).label \in STRING
<1>1. Matching(c) # {}
  BY DEF Gated, Evaluate, NoMatch
<1>2. PICK i \in Matching(c) :
        Evaluate(c) = [label |-> Rules[i].label, action |-> Rules[i].action]
  BY <1>1, FirstRuleDecides
<1>3. Rules \in Seq(Rule) /\ i \in DOMAIN Rules
  BY GateAssumption DEF Rules, Matching
<1>4. Rules[i] \in Rule
  BY <1>3
<1> QED BY <1>2, <1>4 DEF Rule

\* An event comes to the end of one log, and every log keeps what it has.
LEMMA LogAppends ==
  ASSUME TypeOK, NEW t \in Thread, request[t] \in Request,
         NEW kind \in {"created", "approved", "denied", "send"}, Log(t, kind)
  PROVE  LET s == request[t].session
             n == Len(evidence[s]) + 1
         IN
         /\ evidence' \in [Session -> Seq(Event)]
         /\ \A u \in Session \ {s} : evidence'[u] = evidence[u]
         /\ DOMAIN evidence'[s] = DOMAIN evidence[s] \cup {n} /\ n \notin DOMAIN evidence[s]
         /\ \A i \in DOMAIN evidence[s] : evidence'[s][i] = evidence[s][i]
         /\ evidence'[s][n] = [kind |-> kind, command |-> request[t].command,
              grant |-> IF kind \in {"created", "approved"} THEN request[t].grant
                                                            ELSE NoGrant]
<1> DEFINE r == request[t]
           ev == [kind |-> kind, command |-> r.command,
                  grant |-> IF kind \in {"created", "approved"} THEN r.grant ELSE NoGrant]
           old == evidence[r.session]
<1>1. r.session \in Session /\ ev \in Event
  BY DEF Request, Event
<1>2. old \in Seq(Event)
  BY <1>1 DEF TypeOK
<1>3. evidence' = [evidence EXCEPT ![r.session] = Append(old, ev)]
  BY DEF Log
<1> HIDE DEF ev, old
<1>4. /\ Append(old, ev) \in Seq(Event)
      /\ DOMAIN Append(old, ev) = DOMAIN old \cup {Len(old) + 1}
      /\ Len(old) + 1 \notin DOMAIN old
      /\ \A i \in DOMAIN old : Append(old, ev)[i] = old[i]
      /\ Append(old, ev)[Len(old) + 1] = ev
  BY <1>1, <1>2
<1>5. evidence \in [Session -> Seq(Event)]
  BY DEF TypeOK
<1>6. /\ evidence' \in [Session -> Seq(Event)]
      /\ \A u \in Session \ {r.session} : evidence'[u] = evidence[u]
      /\ evidence'[r.session] = Append(old, ev)
  BY <1>1, <1>3, <1>4, <1>5
<1> QED BY <1>4, <1>6 DEF ev, old

----------------------------------------------------------------------------
(* Types.                                                                  *)

\* Nothing has happened at first.
LEMMA InitIInv == Init => IInv
<1> SUFFICES ASSUME Init PROVE IInv
  OBVIOUS
<1> USE GateAssumption DEF Init, NoApprovals
<1>1. TypeOK
  <2>1. /\ approvals \in [Grant -> GrantState] /\ file \in {"whole", "empty", "torn"}
        /\ copy \in [Thread -> [Grant -> GrantState]]
    BY DEF GrantState
  <2>2. /\ lock \in [Process -> Thread \cup {NoThread}]
        /\ terms \in [Grant -> GrantTerms \cup {Nothing}] /\ issued \in SUBSET Grant
        /\ pc \in [Thread -> Busy \cup {"idle"}]
        /\ request \in [Thread -> Request \cup {Nothing}]
    OBVIOUS
  <2>3. /\ evidence \in [Session -> Seq(Event)]
        /\ terminal \in [Session -> Seq(Input)]
    OBVIOUS
  <2>4. now \in 0..MaxClock /\ requests \in 0..MaxRequests /\ faults \in 0..MaxFaults
    BY SMT
  <2> QED BY <2>1, <2>2, <2>3, <2>4 DEF TypeOK
<1>2. RequestHeld /\ GrantsKnown /\ TokenFits /\ DeliverApproved
  BY DEF RequestHeld, GrantsKnown, TokenFits, DeliverApproved
<1>3. Delivers /\ SpentSeen
  BY DEF Delivers, SpentSeen
<1> QED BY <1>1, <1>2, <1>3 DEF IInv

\* The parts of the invariant that say what a request is are kept together with
\* the types.
LEMMA NextTypes ==
  ASSUME TypeOK, RequestHeld, GrantsKnown, [Next]_vars
  PROVE  TypeOK' /\ RequestHeld' /\ GrantsKnown'
<1> USE GateAssumption DEF Busy, HoldsLock, fileVars, outVars, bounds, Goto, Return
<1>1. ASSUME NEW t \in Thread, NEW s \in Session, NEW c \in Command,
             NEW g \in Grant \cup {NoGrant}, SendCall(t, s, c, g)
      PROVE  TypeOK' /\ RequestHeld' /\ GrantsKnown'
  <2> DEFINE r == [op |-> "send", session |-> s, command |-> c, grant |-> g, at |-> now]
  <2>1. r \in Request
    BY DEF Request, TypeOK
  <2>2. request' = [request EXCEPT ![t] = r]
    BY <1>1 DEF SendCall
  <2>3. TypeOK'
    <3> HIDE DEF r
    <3>1. requests' \in 0..MaxRequests
      BY <1>1 DEF SendCall, TypeOK
    <3>2. request' \in [Thread -> Request \cup {Nothing}]
      BY <2>1, <2>2 DEF TypeOK
    <3>3. pc' \in [Thread -> Busy \cup {"idle"}]
      BY <1>1 DEF SendCall, TypeOK
    <3>4. /\ approvals' \in [Grant -> GrantState] /\ file' \in {"whole", "empty", "torn"}
          /\ copy' \in [Thread -> [Grant -> GrantState]]
          /\ lock' \in [Process -> Thread \cup {NoThread}]
          /\ terms' \in [Grant -> GrantTerms \cup {Nothing}] /\ issued' \in SUBSET Grant
      BY <1>1 DEF SendCall, TypeOK
    <3>5. /\ evidence' \in [Session -> Seq(Event)]
          /\ terminal' \in [Session -> Seq(Input)]
          /\ now' \in 0..MaxClock /\ faults' \in 0..MaxFaults
      BY <1>1 DEF SendCall, TypeOK
    <3> QED BY <3>1, <3>2, <3>3, <3>4, <3>5 DEF TypeOK
  <2>4. RequestHeld'
    <3>1. pc' = [pc EXCEPT ![t] = "lock"] => Gated(c) /\ g \in Grant /\ terms[g] # Nothing
      BY <1>1 DEF SendCall, TypeOK, GrantsKnown
    <3>2. pc'[t] \in {"lock", "deliver", "deny"} /\ \A u \in Thread \ {t} : pc'[u] = pc[u]
      BY <1>1 DEF SendCall, TypeOK
    <3> QED BY <1>1, <2>1, <2>2, <3>1, <3>2 DEF SendCall, TypeOK, RequestHeld
  <2>5. GrantsKnown'
    BY <1>1 DEF SendCall, TypeOK, GrantsKnown
  <2> QED BY <2>3, <2>4, <2>5
<1>a. ASSUME NEW t \in Thread, NEW s \in Session, NEW c \in Command, AttachInput(t, s, c)
      PROVE  TypeOK' /\ RequestHeld' /\ GrantsKnown'
  <2> DEFINE r == [op |-> "attach", session |-> s, command |-> c, grant |-> NoGrant, at |-> now]
  <2>1. r \in Request
    BY DEF Request, TypeOK
  <2>2. request' = [request EXCEPT ![t] = r] /\ pc' = [pc EXCEPT ![t] = "deliver"]
    BY <1>a DEF AttachInput
  <2>3. TypeOK'
    <3> HIDE DEF r
    <3>1. requests' \in 0..MaxRequests
      BY <1>a DEF AttachInput, TypeOK
    <3>2. /\ request' \in [Thread -> Request \cup {Nothing}]
          /\ pc' \in [Thread -> Busy \cup {"idle"}]
      BY <2>1, <2>2 DEF TypeOK
    <3>3. UNCHANGED <<approvals, file, lock, terms, issued, evidence, terminal, copy, now, faults>>
      BY <1>a DEF AttachInput
    <3> QED BY <3>1, <3>2, <3>3 DEF TypeOK
  <2>4. RequestHeld'
    <3>1. terms' = terms /\ now' = now /\ now \in Nat
      BY <1>a DEF AttachInput, TypeOK
    <3> HIDE GateAssumption
    <3> QED BY <2>1, <2>2, <3>1 DEF TypeOK, RequestHeld
  <2>5. GrantsKnown'
    BY <1>a DEF AttachInput, TypeOK, GrantsKnown
  <2> QED BY <2>3, <2>4, <2>5
<1>2. ASSUME NEW t \in Thread, NEW s \in Session, NEW c \in Command, NEW g \in Grant,
             NEW ttl \in Ttl, ApproveCall(t, s, c, g, ttl)
      PROVE  TypeOK' /\ RequestHeld' /\ GrantsKnown'
  <2> DEFINE r == [op |-> "approve", session |-> s, command |-> c, grant |-> g, at |-> now]
             granted == [session |-> s, command |-> c, label |-> Evaluate(c).label,
                         expires |-> now + ttl]
  <2>1. r \in Request /\ granted \in GrantTerms
    BY <1>2, GatedByARule DEF ApproveCall, Request, GrantTerms, TypeOK
  <2>2. /\ request' = [request EXCEPT ![t] = r] /\ terms' = [terms EXCEPT ![g] = granted]
        /\ r.at = now /\ r.op = "approve" /\ r.grant = g /\ r.command = c
    BY <1>2 DEF ApproveCall
  <2> HIDE DEF r, granted
  <2>3. TypeOK'
    <3>1. /\ requests' \in 0..MaxRequests /\ pc' \in [Thread -> Busy \cup {"idle"}]
          /\ now' \in 0..MaxClock /\ faults' \in 0..MaxFaults
      BY <1>2 DEF ApproveCall, TypeOK
    <3>2. /\ request' \in [Thread -> Request \cup {Nothing}]
          /\ terms' \in [Grant -> GrantTerms \cup {Nothing}]
      BY <2>1, <2>2 DEF TypeOK
    <3>3. /\ approvals' \in [Grant -> GrantState] /\ file' \in {"whole", "empty", "torn"}
          /\ copy' \in [Thread -> [Grant -> GrantState]]
          /\ lock' \in [Process -> Thread \cup {NoThread}] /\ issued' \in SUBSET Grant
      BY <1>2 DEF ApproveCall, TypeOK
    <3>4. /\ evidence' \in [Session -> Seq(Event)]
          /\ terminal' \in [Session -> Seq(Input)]
      BY <1>2 DEF ApproveCall, TypeOK
    <3> QED BY <3>1, <3>2, <3>3, <3>4 DEF TypeOK
  <2>4. RequestHeld'
    <3>1. /\ Gated(c) /\ pc' = [pc EXCEPT ![t] = "lock"] /\ now' = now
      BY <1>2 DEF ApproveCall
    <3>2. now \in Nat
      BY DEF TypeOK
    <3>3. terms'[g] # Nothing /\ \A h \in Grant : terms[h] # Nothing => terms'[h] # Nothing
      BY <2>1, <2>2 DEF TypeOK
    <3> HIDE GateAssumption
    <3> QED BY <2>1, <2>2, <3>1, <3>2, <3>3 DEF TypeOK, RequestHeld
  <2>5. GrantsKnown'
    BY <1>2, <2>1, <2>2 DEF ApproveCall, TypeOK, GrantsKnown
  <2> QED BY <2>3, <2>4, <2>5
<1>3. ASSUME NEW t \in Thread, LockApprovals(t)
      PROVE  TypeOK' /\ RequestHeld' /\ GrantsKnown'
  <2>1. TypeOK'
    BY <1>3 DEF LockApprovals, TypeOK
  <2>2. RequestHeld' /\ GrantsKnown'
    BY <1>3 DEF LockApprovals, TypeOK, RequestHeld, GrantsKnown
  <2> QED BY <2>1, <2>2
<1>4. ASSUME NEW t \in Thread, ReadToConsume(t)
      PROVE  TypeOK' /\ RequestHeld' /\ GrantsKnown'
  <2>1. TypeOK'
    <3> DEFINE spent == [approvals EXCEPT ![request[t].grant] = "used"]
    <3>1. copy' \in [Thread -> [Grant -> GrantState]]
      <4>1. spent \in [Grant -> GrantState]
        BY DEF GrantState, TypeOK
      <4>2. copy' = [copy EXCEPT ![t] = spent] \/ copy' = copy
        BY <1>4 DEF ReadToConsume
      <4> HIDE DEF spent
      <4> QED BY <4>1, <4>2 DEF TypeOK
    <3>2. pc' \in [Thread -> Busy \cup {"idle"}]
      <4>1. \E label \in {"truncate", "deny"} : Goto(t, label)
        BY <1>4 DEF ReadToConsume
      <4> QED BY <4>1 DEF TypeOK
    <3>3. lock' \in [Process -> Thread \cup {NoThread}]
      BY <1>4 DEF ReadToConsume, UnlockApprovals, TypeOK
    <3>4. UNCHANGED <<fileVars, terms, issued, outVars, request, bounds>>
      BY <1>4 DEF ReadToConsume
    <3> QED BY <3>1, <3>2, <3>3, <3>4 DEF TypeOK
  <2>2. RequestHeld'
    <3>1. pc' \in {[pc EXCEPT ![t] = "truncate"], [pc EXCEPT ![t] = "deny"]}
      BY <1>4 DEF ReadToConsume
    <3> QED BY <1>4, <3>1 DEF ReadToConsume, TypeOK, RequestHeld
  <2>3. GrantsKnown'
    <3> DEFINE k == request[t].grant
    <3>1. \/ copy' = copy
          \/ /\ k \in Grant /\ approvals[k] = "unused"
             /\ copy' = [copy EXCEPT ![t] = [approvals EXCEPT ![k] = "used"]]
      BY <1>4 DEF ReadToConsume, IsValidFor
    <3>2. approvals' = approvals /\ terms' = terms /\ issued' = issued
      BY <1>4 DEF ReadToConsume
    <3> HIDE DEF k
    <3>3. ASSUME NEW g \in Grant, terms[g] = Nothing, NEW u \in Thread
          PROVE  copy'[u][g] = "none"
      <4>1. copy[u][g] = "none" /\ approvals[g] = "none"
        BY <3>3 DEF GrantsKnown
      <4>2. \/ copy'[u] = copy[u]
            \/ /\ k \in Grant /\ approvals[k] = "unused"
               /\ copy'[u] = [approvals EXCEPT ![k] = "used"]
        BY <3>1 DEF TypeOK
      <4>3. approvals \in [Grant -> GrantState]
        BY DEF TypeOK
      <4> QED BY <4>1, <4>2, <4>3
    <3> QED BY <3>2, <3>3 DEF GrantsKnown
  <2> QED BY <2>1, <2>2, <2>3
<1>5. ASSUME NEW t \in Thread, ReadToCreate(t)
      PROVE  TypeOK' /\ RequestHeld' /\ GrantsKnown'
  <2>1. TypeOK'
    BY <1>5 DEF ReadToCreate, GrantState, TypeOK
  <2>2. RequestHeld' /\ GrantsKnown'
    BY <1>5 DEF ReadToCreate, TypeOK, RequestHeld, GrantsKnown
  <2> QED BY <2>1, <2>2
<1>6. ASSUME NEW t \in Thread, ReadFails(t)
      PROVE  TypeOK' /\ RequestHeld' /\ GrantsKnown'
  <2>1. TypeOK'
    BY <1>6 DEF ReadFails, UnlockApprovals, NoApprovals, GrantState, TypeOK
  <2>2. RequestHeld' /\ GrantsKnown'
    BY <1>6 DEF ReadFails, NoApprovals, TypeOK, RequestHeld, GrantsKnown
  <2> QED BY <2>1, <2>2
<1>7. ASSUME NEW t \in Thread, Truncate(t)
      PROVE  TypeOK' /\ RequestHeld' /\ GrantsKnown'
  <2>1. TypeOK'
    BY <1>7 DEF Truncate, TypeOK
  <2>2. RequestHeld' /\ GrantsKnown'
    BY <1>7 DEF Truncate, TypeOK, RequestHeld, GrantsKnown
  <2> QED BY <2>1, <2>2
<1>8. ASSUME NEW t \in Thread, WriteApprovals(t)
      PROVE  TypeOK' /\ RequestHeld' /\ GrantsKnown'
  <2>1. TypeOK'
    <3>1. file' \in {"whole", "empty", "torn"}
      BY <1>8 DEF WriteApprovals, Overwritten
    <3> QED BY <1>8, <3>1 DEF WriteApprovals, UnlockApprovals, TypeOK
  <2>2. RequestHeld' /\ GrantsKnown'
    BY <1>8 DEF WriteApprovals, Request, TypeOK, RequestHeld, GrantsKnown
  <2> QED BY <2>1, <2>2
<1>9. ASSUME NEW t \in Thread, WriteFails(t)
      PROVE  TypeOK' /\ RequestHeld' /\ GrantsKnown'
  <2>1. TypeOK'
    <3>1. faults' \in 0..MaxFaults
      BY <1>9 DEF WriteFails, Fault, TypeOK
    <3>2. NoApprovals \in [Grant -> GrantState]
      BY DEF NoApprovals, GrantState
    <3> QED BY <1>9, <3>1, <3>2 DEF WriteFails, UnlockApprovals, TypeOK
  <2>2. RequestHeld' /\ GrantsKnown'
    BY <1>9 DEF WriteFails, NoApprovals, TypeOK, RequestHeld, GrantsKnown
  <2> QED BY <2>1, <2>2
<1>10. ASSUME NEW t \in Thread, RecordApproved(t)
       PROVE  TypeOK' /\ RequestHeld' /\ GrantsKnown'
  <2>1. evidence' \in [Session -> Seq(Event)]
    BY <1>10, LogAppends DEF RecordApproved, RequestHeld
  <2>2. TypeOK'
    BY <1>10, <2>1 DEF RecordApproved, TypeOK
  <2>3. RequestHeld' /\ GrantsKnown'
    BY <1>10 DEF RecordApproved, TypeOK, RequestHeld, GrantsKnown
  <2> QED BY <2>2, <2>3
<1>11. ASSUME NEW t \in Thread, RecordDenied(t)
       PROVE  TypeOK' /\ RequestHeld' /\ GrantsKnown'
  <2>1. evidence' \in [Session -> Seq(Event)]
    BY <1>11, LogAppends DEF RecordDenied, RequestHeld
  <2>2. TypeOK'
    BY <1>11, <2>1 DEF RecordDenied, NoApprovals, GrantState, TypeOK
  <2>3. RequestHeld' /\ GrantsKnown'
    BY <1>11 DEF RecordDenied, NoApprovals, TypeOK, RequestHeld, GrantsKnown
  <2> QED BY <2>2, <2>3
<1>12. ASSUME NEW t \in Thread, Deliver(t)
       PROVE  TypeOK' /\ RequestHeld' /\ GrantsKnown'
  <2>1. terminal' \in [Session -> Seq(Input)]
    <3> DEFINE d == InputOf(t)
               s == request[t].session
    <3>1. s \in Session /\ d \in Input
      BY <1>12 DEF Deliver, RequestHeld, Request, Input, InputOf
    <3>2. terminal' = [terminal EXCEPT ![s] = Append(@, d)]
      BY <1>12 DEF Deliver
    <3>3. terminal \in [Session -> Seq(Input)]
      BY DEF TypeOK
    <3> HIDE DEF d, s
    <3>4. Append(terminal[s], d) \in Seq(Input)
      BY <3>1, <3>3
    <3> QED BY <3>1, <3>2, <3>3, <3>4
  <2>2. TypeOK'
    BY <1>12, <2>1 DEF Deliver, TypeOK
  <2>3. RequestHeld' /\ GrantsKnown'
    BY <1>12 DEF Deliver, TypeOK, RequestHeld, GrantsKnown
  <2> QED BY <2>2, <2>3
<1>13. ASSUME NEW t \in Thread, RecordSend(t)
       PROVE  TypeOK' /\ RequestHeld' /\ GrantsKnown'
  <2>1. evidence' \in [Session -> Seq(Event)]
    BY <1>13, LogAppends DEF RecordSend, RequestHeld
  <2>2. TypeOK'
    BY <1>13, <2>1 DEF RecordSend, NoApprovals, GrantState, TypeOK
  <2>3. RequestHeld' /\ GrantsKnown'
    BY <1>13 DEF RecordSend, NoApprovals, TypeOK, RequestHeld, GrantsKnown
  <2> QED BY <2>2, <2>3
<1>14. ASSUME NEW t \in Thread, RecordCreated(t)
       PROVE  TypeOK' /\ RequestHeld' /\ GrantsKnown'
  <2>1. evidence' \in [Session -> Seq(Event)]
    BY <1>14, LogAppends DEF RecordCreated, RequestHeld
  <2>2. TypeOK'
    BY <1>14, <2>1 DEF RecordCreated, NoApprovals, GrantState, RequestHeld, TypeOK
  <2>3. RequestHeld' /\ GrantsKnown'
    BY <1>14 DEF RecordCreated, NoApprovals, TypeOK, RequestHeld, GrantsKnown
  <2> QED BY <2>2, <2>3
<1>15. ASSUME NEW t \in Thread, StepFails(t)
       PROVE  TypeOK' /\ RequestHeld' /\ GrantsKnown'
  <2>1. TypeOK'
    <3>1. faults' \in 0..MaxFaults
      BY <1>15 DEF StepFails, Fault, TypeOK
    <3>2. NoApprovals \in [Grant -> GrantState]
      BY DEF NoApprovals, GrantState
    <3> QED BY <1>15, <3>1, <3>2 DEF StepFails, TypeOK
  <2>2. RequestHeld' /\ GrantsKnown'
    BY <1>15 DEF StepFails, NoApprovals, TypeOK, RequestHeld, GrantsKnown
  <2> QED BY <2>1, <2>2
<1>16. ASSUME NEW p \in Process, Crash(p)
       PROVE  TypeOK' /\ RequestHeld' /\ GrantsKnown'
  <2>1. TypeOK'
    <3>1. faults' \in 0..MaxFaults
      BY <1>16 DEF Crash, Fault, TypeOK
    <3>2. NoApprovals \in [Grant -> GrantState]
      BY DEF NoApprovals, GrantState
    <3> QED BY <1>16, <3>1, <3>2 DEF Crash, TypeOK
  <2>2. RequestHeld' /\ GrantsKnown'
    BY <1>16 DEF Crash, NoApprovals, TypeOK, RequestHeld, GrantsKnown
  <2> QED BY <2>1, <2>2
<1>17. ASSUME Tick
       PROVE  TypeOK' /\ RequestHeld' /\ GrantsKnown'
  <2>1. TypeOK'
    <3>1. now' \in 0..MaxClock
      BY <1>17 DEF Tick, TypeOK
    <3> QED BY <1>17, <3>1 DEF Tick, TypeOK
  <2>2. RequestHeld' /\ GrantsKnown'
    BY <1>17 DEF Tick, Request, TypeOK, RequestHeld, GrantsKnown
  <2> QED BY <2>1, <2>2
<1>18. ASSUME UNCHANGED vars
       PROVE  TypeOK' /\ RequestHeld' /\ GrantsKnown'
  BY <1>18 DEF vars, TypeOK, RequestHeld, GrantsKnown
<1> QED BY <1>1, <1>a, <1>2, <1>3, <1>4, <1>5, <1>6, <1>7, <1>8, <1>9, <1>10, <1>11, <1>12,
           <1>13, <1>14, <1>15, <1>16, <1>17, <1>18 DEF Next, HandlerStep

----------------------------------------------------------------------------
(* Tokens and commands, whatever the processes do.                         *)

\* An event that a log holds stays at its place.
LEMMA LogsGrow ==
  ASSUME TypeOK, RequestHeld, [Next]_vars
  PROVE  \A s \in Session : \A i \in DOMAIN evidence[s] :
           i \in DOMAIN evidence'[s] /\ evidence'[s][i] = evidence[s][i]
<1> DEFINE Grown == \A s \in Session : \A i \in DOMAIN evidence[s] :
                      i \in DOMAIN evidence'[s] /\ evidence'[s][i] = evidence[s][i]
<1>1. ASSUME NEW t \in Thread, NEW kind \in {"created", "approved", "denied", "send"},
             pc[t] # "idle", Log(t, kind)
      PROVE  Grown
  <2>1. request[t] \in Request
    BY <1>1 DEF RequestHeld
  <2> QED BY <1>1, <2>1, LogAppends
<1>2. ASSUME NEW t \in Thread,
             RecordApproved(t) \/ RecordDenied(t) \/ RecordSend(t) \/ RecordCreated(t)
      PROVE  Grown
  BY <1>1, <1>2 DEF RecordApproved, RecordDenied, RecordSend, RecordCreated
<1>3. CASE UNCHANGED evidence
  BY <1>3
<1> HIDE DEF Grown
<1>4. \/ \E t \in Thread :
           RecordApproved(t) \/ RecordDenied(t) \/ RecordSend(t) \/ RecordCreated(t)
      \/ UNCHANGED evidence
  <2>1. ASSUME NEW t \in Thread,
                \/ \E s \in Session, c \in Command, g \in Grant \cup {NoGrant} : SendCall(t, s, c, g)
                \/ \E s \in Session, c \in Command : AttachInput(t, s, c)
                \/ \E s \in Session, c \in Command, g \in Grant, ttl \in Ttl :
                     ApproveCall(t, s, c, g, ttl)
        PROVE  UNCHANGED evidence
    BY <2>1 DEF SendCall, AttachInput, ApproveCall, outVars
  <2>2. ASSUME NEW t \in Thread,
               \/ LockApprovals(t) \/ ReadToConsume(t) \/ ReadToCreate(t) \/ ReadFails(t)
               \/ Truncate(t) \/ WriteApprovals(t) \/ WriteFails(t) \/ Deliver(t) \/ StepFails(t)
        PROVE  UNCHANGED evidence
    BY <2>2 DEF LockApprovals, ReadToConsume, ReadToCreate, ReadFails, Truncate, WriteApprovals,
                WriteFails, Deliver, StepFails, outVars
  <2>3. ASSUME (\E p \in Process : Crash(p)) \/ Tick \/ UNCHANGED vars
        PROVE  UNCHANGED evidence
    BY <2>3 DEF Crash, Tick, vars, outVars
  <2> QED BY <2>1, <2>2, <2>3 DEF Next, HandlerStep
<1> QED BY <1>2, <1>3, <1>4 DEF Grown

\* Once a token is known to fit a request, neither changes while it is being spent.
LEMMA NextTokenFits ==
  ASSUME TypeOK, RequestHeld, TokenFits, [Next]_vars
  PROVE  TokenFits'
<1> USE DEF TypeOK, Goto, Return, TokenFits
<1>1. ASSUME NEW t \in Thread, NEW s \in Session, NEW c \in Command,
             NEW g \in Grant \cup {NoGrant}, SendCall(t, s, c, g)
      PROVE  TokenFits'
  <2>1. pc'[t] \notin {"truncate", "write", "approve"}
    BY <1>1 DEF SendCall
  <2> QED BY <1>1, <2>1 DEF SendCall
<1>a. ASSUME NEW t \in Thread, NEW s \in Session, NEW c \in Command, AttachInput(t, s, c)
      PROVE  TokenFits'
  <2>1. pc'[t] \notin {"truncate", "write", "approve"}
    BY <1>a DEF AttachInput
  <2> QED BY <1>a, <2>1 DEF AttachInput
<1>2. ASSUME NEW t \in Thread, NEW s \in Session, NEW c \in Command, NEW g \in Grant,
             NEW ttl \in Ttl, ApproveCall(t, s, c, g, ttl)
      PROVE  TokenFits'
  <2>1. \A h \in Grant : terms[h] # Nothing => terms'[h] = terms[h]
    BY <1>2 DEF ApproveCall
  <2>2. pc'[t] = "lock" /\ \A u \in Thread \ {t} : pc'[u] = pc[u] /\ request'[u] = request[u]
    BY <1>2 DEF ApproveCall
  <2>3. \A u \in Thread : pc[u] \in {"truncate", "write", "approve"} =>
          request[u].grant \in Grant /\ terms[request[u].grant] # Nothing
    BY DEF RequestHeld
  <2>4. ASSUME NEW u \in Thread, pc'[u] \in {"truncate", "write", "approve"}
        PROVE  /\ pc'[u] = pc[u] /\ request'[u] = request[u]
               /\ terms'[request[u].grant] = terms[request[u].grant]
    <3>1. u # t
      BY <2>2, <2>4
    <3>2. pc'[u] = pc[u] /\ request'[u] = request[u]
      BY <2>2, <3>1
    <3>3. request[u].grant \in Grant /\ terms[request[u].grant] # Nothing
      BY <2>3, <2>4, <3>2
    <3> QED BY <2>1, <3>2, <3>3
  <2> QED BY <2>4
<1>3. ASSUME NEW t \in Thread, ReadToConsume(t)
      PROVE  TokenFits'
  <2> DEFINE r == request[t]
  <2>1. pc'[t] = "truncate" => /\ terms[r.grant].session = r.session
                               /\ terms[r.grant].command = r.command
                               /\ r.grant \in Grant
                               /\ terms[r.grant].expires > now
    BY <1>3 DEF ReadToConsume, IsValidFor
  <2>2. r.at <= now /\ r.at \in Nat /\ r.grant \in Grant /\ terms[r.grant] # Nothing
    BY <1>3 DEF ReadToConsume, RequestHeld, Request
  <2>3. terms[r.grant].expires \in Nat /\ now \in Nat
    BY <2>2 DEF GrantTerms
  <2>4. pc'[t] # "write" /\ pc'[t] # "approve"
    BY <1>3 DEF ReadToConsume
  <2>5. /\ \A u \in Thread \ {t} : pc'[u] = pc[u]
        /\ request' = request /\ terms' = terms
    BY <1>3 DEF ReadToConsume
  <2> QED BY <2>1, <2>2, <2>3, <2>4, <2>5
<1>4. ASSUME NEW t \in Thread, ReadToCreate(t)
      PROVE  TokenFits'
  BY <1>4 DEF ReadToCreate
<1>5. ASSUME NEW t \in Thread, Truncate(t) \/ WriteApprovals(t)
      PROVE  TokenFits'
  BY <1>5 DEF Truncate, WriteApprovals
<1>6. ASSUME NEW t \in Thread,
             \/ LockApprovals(t) \/ ReadFails(t) \/ RecordApproved(t) \/ RecordDenied(t)
             \/ Deliver(t) \/ RecordSend(t) \/ RecordCreated(t) \/ WriteFails(t) \/ StepFails(t)
      PROVE  TokenFits'
  <2>1. pc'[t] \notin {"truncate", "write", "approve"}
    BY <1>6 DEF LockApprovals, ReadFails, RecordApproved, RecordDenied, Deliver, RecordSend,
                RecordCreated, WriteFails, StepFails
  <2>2. /\ \A u \in Thread \ {t} : pc'[u] = pc[u] /\ request'[u] = request[u]
        /\ terms' = terms
    BY <1>6 DEF LockApprovals, ReadFails, RecordApproved, RecordDenied, Deliver, RecordSend,
                RecordCreated, WriteFails, StepFails
  <2> QED BY <2>1, <2>2
<1>7. ASSUME NEW p \in Process, Crash(p)
      PROVE  TokenFits'
  BY <1>7 DEF Crash
<1>8. CASE Tick \/ UNCHANGED vars
  BY <1>8 DEF Tick, vars
<1> QED BY <1>1, <1>a, <1>2, <1>3, <1>4, <1>5, <1>6, <1>7, <1>8 DEF Next, HandlerStep

\* What is about to be written to a terminal, and what was written, has the
\* approval it needs in the log.
LEMMA NextDelivers ==
  ASSUME TypeOK, RequestHeld, DeliverApproved, Delivers, [Next]_vars
  PROVE  DeliverApproved' /\ Delivers'
<1> USE DEF TypeOK, Goto, Return
<1>1. ASSUME NEW s \in Session, NEW d, MayGet(s, d) PROVE MayGet(s, d)'
  BY <1>1, LogsGrow DEF MayGet, Recorded
<1>2. \A u \in Thread : pc[u] = "deliver" =>
        request[u].session \in Session /\ request[u].command \in Command
  BY DEF RequestHeld, Request
<1> DEFINE Kept(u) == pc'[u] = "deliver" => pc[u] = "deliver" /\ request'[u] = request[u]
<1>a. ASSUME NEW u \in Thread, Kept(u), pc'[u] = "deliver"
      PROVE  MayGet(request[u].session, InputOf(u))'
  <2>1. /\ request[u].session \in Session /\ MayGet(request[u].session, InputOf(u))
        /\ request'[u] = request[u]
    BY <1>2, <1>a DEF DeliverApproved
  <2> QED BY <2>1, <1>1 DEF InputOf
<1>b. ASSUME terminal' = terminal PROVE Delivers'
  BY <1>1, <1>b DEF Delivers
<1>3. ASSUME NEW t \in Thread, NEW s \in Session, NEW c \in Command,
             NEW g \in Grant \cup {NoGrant}, SendCall(t, s, c, g)
      PROVE  DeliverApproved' /\ Delivers'
  <2>1. pc'[t] = "deliver" => ~Denied(c) /\ ~Gated(c)
    BY <1>3 DEF SendCall, Denied, Gated
  <2>2. /\ request'[t].command = c /\ request'[t].op = "send" /\ terminal' = terminal
        /\ \A u \in Thread \ {t} : pc'[u] = pc[u] /\ request'[u] = request[u]
    BY <1>3 DEF SendCall, outVars
  <2>3. pc'[t] = "deliver" => MayGet(request[t].session, InputOf(t))'
    BY <2>1, <2>2 DEF MayGet, InputOf
  <2> QED BY <1>a, <1>b, <2>2, <2>3 DEF DeliverApproved
<1>c. ASSUME NEW t \in Thread, NEW s \in Session, NEW c \in Command, AttachInput(t, s, c)
      PROVE  DeliverApproved' /\ Delivers'
  <2>1. /\ request'[t].grant = NoGrant /\ request'[t].op = "attach" /\ terminal' = terminal
        /\ \A u \in Thread \ {t} : pc'[u] = pc[u] /\ request'[u] = request[u]
    BY <1>c DEF AttachInput, outVars
  <2>2. MayGet(request[t].session, InputOf(t))'
    BY <2>1 DEF MayGet, InputOf
  <2> QED BY <1>a, <1>b, <2>1, <2>2 DEF DeliverApproved
<1>4. ASSUME NEW t \in Thread, RecordApproved(t)
      PROVE  DeliverApproved' /\ Delivers'
  <2> DEFINE r == request[t]
  <2>1. /\ r \in Request /\ r.session \in Session /\ Gated(r.command) /\ pc[t] = "approve"
        /\ r.op = "send"
    BY <1>4 DEF RecordApproved, RequestHeld, Request
  <2>2. Recorded(r.session, r.command, r.grant)'
    BY <1>4, <2>1, LogAppends DEF RecordApproved, Recorded
  <2>3. ~Denied(r.command)
    BY <2>1 DEF Gated, Denied
  <2>4. terminal' = terminal /\ request' = request /\ \A u \in Thread \ {t} : pc'[u] = pc[u]
    BY <1>4 DEF RecordApproved
  <2>5. MayGet(request[t].session, InputOf(t))'
    BY <2>1, <2>2, <2>3, <2>4 DEF MayGet, InputOf
  <2> QED BY <1>a, <1>b, <2>4, <2>5 DEF DeliverApproved
<1>5. ASSUME NEW t \in Thread, Deliver(t)
      PROVE  DeliverApproved' /\ Delivers'
  <2> DEFINE s == request[t].session
             d == InputOf(t)
             written == terminal[s]
  <2>1. s \in Session /\ pc[t] = "deliver"
    BY <1>2, <1>5 DEF Deliver
  <2>2. MayGet(s, d)'
    <3>1. MayGet(s, d)
      BY <2>1 DEF DeliverApproved
    <3>2. request' = request
      BY <1>5 DEF Deliver
    <3> QED BY <1>1, <2>1, <3>1, <3>2 DEF InputOf
  <2>3. /\ terminal'[s] = Append(written, d) /\ UNCHANGED <<s, d>>
        /\ \A u \in Session \ {s} : terminal'[u] = terminal[u]
    BY <1>5, <2>1 DEF Deliver, InputOf
  <2>4. written \in Seq(Input)
    BY <2>1
  <2>5. \A i \in DOMAIN terminal'[s] :
          \/ terminal'[s][i] = d
          \/ i \in DOMAIN written /\ terminal'[s][i] = written[i]
    <3> HIDE DEF d, written, s
    <3> QED BY <2>3, <2>4
  <2>6. Delivers'
    <3>1. ASSUME NEW u \in Session, NEW i \in DOMAIN terminal'[u]
          PROVE  MayGet(u, terminal[u][i])'
      <4>1. CASE u = s /\ terminal'[u][i] = d
        BY <2>2, <2>3, <4>1
      <4>2. CASE i \in DOMAIN terminal[u] /\ terminal'[u][i] = terminal[u][i]
        BY <1>1, <4>2 DEF Delivers
      <4> HIDE DEF d, s, TypeOK
      <4> QED BY <2>3, <2>5, <4>1, <4>2 DEF written
    <3> QED BY <3>1 DEF Delivers
  <2>7. DeliverApproved'
    <3>1. \A u \in Thread : Kept(u)
      BY <1>5 DEF Deliver
    <3> QED BY <1>a, <3>1 DEF DeliverApproved
  <2> HIDE DEF TypeOK, Goto, Return
  <2> QED BY <2>6, <2>7
<1>6. ASSUME \A u \in Thread : Kept(u), terminal' = terminal
      PROVE  DeliverApproved' /\ Delivers'
  BY <1>a, <1>b, <1>6 DEF DeliverApproved
<1>7. ASSUME NEW t \in Thread, NEW s \in Session, NEW c \in Command, NEW g \in Grant,
             NEW ttl \in Ttl, ApproveCall(t, s, c, g, ttl)
      PROVE  DeliverApproved' /\ Delivers'
  BY <1>6, <1>7 DEF ApproveCall, outVars
<1>8. ASSUME NEW t \in Thread,
             \/ LockApprovals(t) \/ ReadToConsume(t) \/ ReadToCreate(t) \/ ReadFails(t)
             \/ Truncate(t) \/ WriteApprovals(t) \/ WriteFails(t)
             \/ RecordDenied(t) \/ RecordSend(t) \/ RecordCreated(t) \/ StepFails(t)
      PROVE  DeliverApproved' /\ Delivers'
  <2>1. terminal' = terminal
    BY <1>8 DEF LockApprovals, ReadToConsume, ReadToCreate, ReadFails, Truncate, WriteApprovals,
                WriteFails, RecordDenied, RecordSend, RecordCreated, StepFails, outVars
  <2>2. /\ pc'[t] # "deliver"
        /\ \A u \in Thread \ {t} : pc'[u] = pc[u] /\ request'[u] = request[u]
    BY <1>8 DEF LockApprovals, ReadToConsume, ReadToCreate, ReadFails, Truncate, WriteApprovals,
                WriteFails, RecordDenied, RecordSend, RecordCreated, StepFails
  <2> QED BY <1>6, <2>1, <2>2
<1>9. ASSUME NEW p \in Process, Crash(p)
      PROVE  DeliverApproved' /\ Delivers'
  BY <1>6, <1>9 DEF Crash, outVars
<1>10. CASE Tick \/ UNCHANGED vars
  BY <1>6, <1>10 DEF Tick, vars, outVars
<1> QED BY <1>3, <1>c, <1>4, <1>5, <1>7, <1>8, <1>9, <1>10 DEF Next, HandlerStep

\* While nothing has failed no process stops and no request fails half-way.
LEMMA NoFault ==
  ASSUME TypeOK, [Next]_vars, faults' = 0
  PROVE  /\ faults = 0
         /\ \A t \in Thread : ~WriteFails(t) /\ ~StepFails(t)
         /\ \A p \in Process : ~Crash(p)
<1>1. ~Fault
  BY GateAssumption DEF TypeOK, Fault
<1>2. /\ \A t \in Thread : ~WriteFails(t) /\ ~StepFails(t)
      /\ \A p \in Process : ~Crash(p)
  BY <1>1 DEF WriteFails, StepFails, Crash
<1>3. faults' = faults
  <2>1. ASSUME NEW t \in Thread,
                \/ \E s \in Session, c \in Command, g \in Grant \cup {NoGrant} : SendCall(t, s, c, g)
                \/ \E s \in Session, c \in Command : AttachInput(t, s, c)
                \/ \E s \in Session, c \in Command, g \in Grant, ttl \in Ttl :
                     ApproveCall(t, s, c, g, ttl)
        PROVE  faults' = faults
    BY <2>1 DEF SendCall, AttachInput, ApproveCall
  <2>2. ASSUME NEW t \in Thread, HandlerStep(t)
        PROVE  faults' = faults
    BY <2>2 DEF HandlerStep, LockApprovals, ReadToConsume, ReadToCreate, ReadFails, Truncate,
                WriteApprovals, RecordApproved, RecordDenied, Deliver, RecordSend, RecordCreated,
                bounds
  <2>3. ASSUME Tick \/ UNCHANGED vars
        PROVE  faults' = faults
    BY <2>3 DEF Tick, vars, bounds
  <2> QED BY <1>2, <2>1, <2>2, <2>3 DEF Next
<1> QED BY <1>2, <1>3

\* What is being spent stays so until its approval is in the log.
LEMMA SpendingStays ==
  ASSUME TypeOK, RequestHeld, [Next]_vars, faults' = 0, NEW g \in Grant, Spending(g)
  PROVE  faults = 0 /\ Spending(g)'
<1>1. /\ faults = 0 /\ \A t \in Thread : ~WriteFails(t) /\ ~StepFails(t)
      /\ \A p \in Process : ~Crash(p)
  BY NoFault
<1>2. CASE \E s \in Session : \E i \in DOMAIN evidence[s] :
             evidence[s][i].kind = "approved" /\ evidence[s][i].grant = g
  BY <1>1, <1>2, LogsGrow DEF Spending
<1>3. CASE \E t \in Thread : pc[t] = "approve" /\ request[t].grant = g
  <2>1. PICK t \in Thread : pc[t] = "approve" /\ request[t].grant = g
    BY <1>3
  <2>2. CASE RecordApproved(t)
    <3>1. request[t] \in Request /\ request[t].session \in Session
      BY <2>1 DEF RequestHeld, Request
    <3>2. Recorded(request[t].session, request[t].command, g)'
      BY <2>1, <2>2, <3>1, LogAppends DEF RecordApproved, Recorded
    <3> DEFINE s == request[t].session
    <3>3. PICK i \in DOMAIN evidence'[s] :
            evidence'[s][i] = [kind |-> "approved", command |-> request[t].command, grant |-> g]
      BY <2>2, <3>2 DEF Recorded, RecordApproved
    <3>4. evidence'[s][i].kind = "approved" /\ evidence'[s][i].grant = g
      BY <3>3
    <3> QED BY <1>1, <3>1, <3>4 DEF Spending
  <2>3. CASE ~RecordApproved(t)
    <3> DEFINE Stays == pc'[t] = pc[t] /\ request'[t] = request[t]
    <3> USE DEF TypeOK, Goto, Return
    <3>1. ASSUME NEW u \in Thread,
                 \/ \E s \in Session, c \in Command, h \in Grant \cup {NoGrant} :
                      SendCall(u, s, c, h)
                 \/ \E s \in Session, c \in Command : AttachInput(u, s, c)
                 \/ \E s \in Session, c \in Command, h \in Grant, ttl \in Ttl :
                      ApproveCall(u, s, c, h, ttl)
          PROVE  Stays
      BY <2>1, <3>1 DEF SendCall, AttachInput, ApproveCall
    <3>2. ASSUME NEW u \in Thread, HandlerStep(u)
          PROVE  Stays
      BY <2>1, <2>3, <3>2
         DEF HandlerStep, LockApprovals, ReadToConsume, ReadToCreate, ReadFails, Truncate,
             WriteApprovals, RecordApproved, RecordDenied, Deliver, RecordSend, RecordCreated
    <3>3. ASSUME Tick \/ UNCHANGED vars
          PROVE  Stays
      BY <3>3 DEF Tick, vars
    <3> HIDE DEF Stays
    <3>4. Stays
      BY <1>1, <3>1, <3>2, <3>3 DEF Next
    <3> QED BY <1>1, <2>1, <3>4 DEF Spending, Stays
  <2> QED BY <2>2, <2>3
<1> QED BY <1>2, <1>3 DEF Spending

\* A grant comes to be used only while its sender goes on to record it.
LEMMA NextSpentSeen ==
  ASSUME TypeOK, RequestHeld, SpentSeen, [Next]_vars
  PROVE  SpentSeen'
<1> SUFFICES ASSUME faults' = 0 PROVE SpentSeen'
  BY DEF SpentSeen
<1> USE DEF Goto, Return
<1>1. /\ faults = 0 /\ \A t \in Thread : ~WriteFails(t) /\ ~StepFails(t)
      /\ \A p \in Process : ~Crash(p)
  BY NoFault
<1> DEFINE Seen == \A g \in Grant : approvals[g] = "used" => Spending(g)
           Seeing(t) == \A g \in Grant :
                          pc[t] \in {"truncate", "write"} /\ copy[t][g] = "used" =>
                            Spending(g) \/ (request[t].op = "send" /\ request[t].grant = g)
<1>2. Seen /\ \A t \in Thread : Seeing(t)
  BY <1>1 DEF SpentSeen
<1>3. \A g \in Grant : Spending(g) => Spending(g)'
  BY SpendingStays
<1> SUFFICES Seen' /\ \A t \in Thread : Seeing(t)'
  BY DEF SpentSeen
<1> DEFINE Kept(u) == pc'[u] = pc[u] /\ request'[u] = request[u] /\ copy'[u] = copy[u]
<1>4. ASSUME NEW u \in Thread, Kept(u) PROVE Seeing(u)'
  BY <1>2, <1>3, <1>4
<1>5. ASSUME NEW u \in Thread, pc'[u] \notin {"truncate", "write"} PROVE Seeing(u)'
  BY <1>5
<1>6. ASSUME approvals' = approvals PROVE Seen'
  BY <1>2, <1>3, <1>6
<1>7. ASSUME NEW t \in Thread, ReadToConsume(t)
      PROVE  Seen' /\ \A u \in Thread : Seeing(u)'
  <2>1. approvals' = approvals /\ \A u \in Thread \ {t} : Kept(u)
    BY <1>7 DEF ReadToConsume, fileVars, TypeOK
  <2>3. request' = request /\ request[t].grant \in Grant /\ request[t].op = "send"
    BY <1>7 DEF ReadToConsume, RequestHeld
  <2>4. \/ pc'[t] = "deny"
        \/ copy'[t] = [approvals EXCEPT ![request[t].grant] = "used"]
    BY <1>7 DEF ReadToConsume, TypeOK
  <2>5. \A g \in Grant : copy'[t][g] = "used" /\ pc'[t] # "deny" =>
          approvals[g] = "used" \/ g = request[t].grant
    BY <2>3, <2>4 DEF TypeOK
  <2>6. pc'[t] \in {"deny", "truncate"}
    BY <1>7 DEF ReadToConsume, TypeOK
  <2>7. Seeing(t)'
    BY <1>2, <1>3, <2>3, <2>5, <2>6
  <2> HIDE DEF Seeing, Kept
  <2> QED BY <1>4, <1>6, <2>1, <2>7
<1>8. ASSUME NEW t \in Thread, ReadToCreate(t)
      PROVE  Seen' /\ \A u \in Thread : Seeing(u)'
  <2>1. approvals' = approvals /\ \A u \in Thread \ {t} : Kept(u)
    BY <1>8 DEF ReadToCreate, fileVars, TypeOK
  <2>3. copy'[t] = [approvals EXCEPT ![request[t].grant] = "unused"]
    BY <1>8 DEF ReadToCreate, TypeOK
  <2>4. \A g \in Grant : copy'[t][g] = "used" => approvals[g] = "used"
    BY <2>3 DEF TypeOK
  <2>5. Seeing(t)'
    BY <1>2, <1>3, <2>4
  <2> HIDE DEF Seeing, Kept
  <2> QED BY <1>4, <1>6, <2>1, <2>5
<1>9. ASSUME NEW t \in Thread, Truncate(t)
      PROVE  Seen' /\ \A u \in Thread : Seeing(u)'
  <2>1. /\ approvals' = approvals /\ pc'[t] = "write" /\ pc[t] = "truncate"
        /\ request' = request /\ copy' = copy
        /\ \A u \in Thread \ {t} : pc'[u] = pc[u]
    BY <1>9 DEF Truncate, TypeOK
  <2>2. Seeing(t)'
    BY <1>2, <1>3, <2>1
  <2>3. \A u \in Thread \ {t} : Kept(u)
    BY <2>1
  <2> HIDE DEF Seeing, Kept
  <2> QED BY <1>4, <1>6, <2>1, <2>2, <2>3
<1>10. ASSUME NEW t \in Thread, WriteApprovals(t)
       PROVE  Seen' /\ \A u \in Thread : Seeing(u)'
  <2>1. /\ approvals' = copy[t] /\ pc[t] = "write"
        /\ pc'[t] = (IF request[t].op = "send" THEN "approve" ELSE "created")
        /\ request' = request
        /\ \A u \in Thread \ {t} : Kept(u)
    BY <1>10 DEF WriteApprovals, TypeOK
  <2>2. \A g \in Grant : approvals'[g] = "used" => Spending(g)'
    BY <1>2, <1>3, <2>1 DEF Spending
  <2>3. pc'[t] \notin {"truncate", "write"}
    BY <2>1
  <2> HIDE DEF Seeing, Kept
  <2> QED BY <1>4, <1>5, <2>1, <2>2, <2>3
<1>11. ASSUME NEW t \in Thread,
              \/ \E s \in Session, c \in Command, g \in Grant \cup {NoGrant} : SendCall(t, s, c, g)
              \/ \E s \in Session, c \in Command : AttachInput(t, s, c)
              \/ \E s \in Session, c \in Command, g \in Grant, ttl \in Ttl :
                   ApproveCall(t, s, c, g, ttl)
              \/ LockApprovals(t) \/ ReadFails(t) \/ RecordApproved(t) \/ RecordDenied(t)
              \/ Deliver(t) \/ RecordSend(t) \/ RecordCreated(t)
       PROVE  Seen' /\ \A u \in Thread : Seeing(u)'
  <2>1. /\ approvals' = approvals /\ pc'[t] \notin {"truncate", "write"}
    BY <1>11 DEF SendCall, AttachInput, ApproveCall, LockApprovals, ReadFails, RecordApproved, RecordDenied,
                 Deliver, RecordSend, RecordCreated, fileVars, TypeOK
  <2>2. \A u \in Thread \ {t} : Kept(u)
    BY <1>11 DEF SendCall, AttachInput, ApproveCall, LockApprovals, ReadFails, RecordApproved, RecordDenied,
                 Deliver, RecordSend, RecordCreated, TypeOK
  <2> HIDE DEF Seeing, Kept
  <2> QED BY <1>4, <1>5, <1>6, <2>1, <2>2
<1>12. CASE Tick \/ UNCHANGED vars
  <2>1. UNCHANGED <<approvals, pc, request, copy>>
    BY <1>12 DEF Tick, vars, fileVars
  <2> QED BY <1>2, <1>3, <2>1
<1> HIDE DEF Seen, Seeing
<1> QED BY <1>1, <1>7, <1>8, <1>9, <1>10, <1>11, <1>12 DEF Next, HandlerStep

----------------------------------------------------------------------------
(* Theorems for any number of processes.                                   *)

\* Every step of every process keeps the invariant.
LEMMA NextIInv == IInv /\ [Next]_vars => IInv'
BY NextTypes, NextTokenFits, NextDelivers, NextSpentSeen DEF IInv

\* The strengthened invariant holds of every behaviour.
THEOREM InvariantHolds == Spec => []IInv
<1>1. Init => IInv
  BY InitIInv
<1>2. IInv /\ [Next]_vars => IInv'
  BY NextIInv
<1> QED BY <1>1, <1>2, PTL DEF Spec

\* Every variable of the gate stays in its type.
THEOREM TypeCorrect == Spec => []TypeOK
<1>1. IInv => TypeOK
  BY DEF IInv
<1> QED BY <1>1, InvariantHolds, PTL

\* Nothing that needs approval is written to a terminal for a Send request
\* (authorize_action_policy, then send or send_line) without its approval in the
\* session's log, and nothing denied is.  What handle_attach_stream writes is not
\* gated.
THEOREM Gatekeeping == Spec => []GatedBehindApproval
<1>1. IInv => GatedBehindApproval
  BY DEF IInv, Delivers, MayGet, Recorded, GatedBehindApproval
<1> QED BY <1>1, InvariantHolds, PTL

\* consume_policy_approval honours a token only for the session, the command
\* and the time it was granted for.
THEOREM Honoured == Spec => []HonouredAsGranted
<1>1. IInv => HonouredAsGranted
  BY DEF IInv, RequestHeld, TokenFits, HonouredAsGranted
<1> QED BY <1>1, InvariantHolds, PTL

\* A log with an approval in it counts at least one.
LEMMA ApprovedCounts ==
  ASSUME TypeOK, NEW s \in Session, NEW g \in Grant,
         NEW i \in DOMAIN evidence[s], evidence[s][i].kind = "approved", evidence[s][i].grant = g
  PROVE  Approved(s, g) > 0
<1> DEFINE those == {j \in DOMAIN evidence[s] : /\ evidence[s][j].kind = "approved"
                                                /\ evidence[s][j].grant = g}
<1>1. evidence[s] \in Seq(Event)
  BY DEF TypeOK
<1>2. IsFiniteSet(DOMAIN evidence[s])
  BY <1>1, FS_Interval
<1>3. IsFiniteSet(those) /\ those # {}
  BY <1>2, FS_Subset
<1>4. Cardinality(those) \in Nat /\ Cardinality(those) # 0
  BY <1>3, FS_CardinalityType, FS_EmptySet
<1> QED BY <1>4 DEF Approved, ApprovedAt

\* Without faults what the file shows as spent is recorded in a log, or is about
\* to be (record_policy_approved), however many processes write the file.
UsedIsRecorded ==
  faults = 0 /\ file = "whole" =>
    \A g \in Grant : approvals[g] = "used" =>
      \/ \E s \in Session : Approved(s, g) > 0
      \/ \E t \in Thread : pc[t] = "approve" /\ request[t].grant = g

THEOREM UseRecorded == Spec => []UsedIsRecorded
<1>1. IInv => UsedIsRecorded
  BY ApprovedCounts DEF IInv, SpentSeen, Spending, UsedIsRecorded
<1> QED BY <1>1, InvariantHolds, PTL

----------------------------------------------------------------------------
(* What was typed and what the log says of it.                             *)

\* The places of a row can be counted.
LEMMA PlacesCount ==
  ASSUME NEW S, NEW row \in Seq(S), NEW T \in SUBSET DOMAIN row
  PROVE  IsFiniteSet(T) /\ Cardinality(T) \in Nat
<1>1. IsFiniteSet(DOMAIN row)
  BY FS_Interval
<1> QED BY <1>1, FS_Subset, FS_CardinalityType

\* A write adds one place and one thread that is to log it, an event moves that
\* thread to the places of the log, and only a fault drops a thread.
LEMMA NextCounted ==
  ASSUME IInv, Counted, [Next]_vars
  PROVE  Counted'
<1> SUFFICES ASSUME NEW s \in Session, NEW c \in Command
             PROVE  Balanced(s, c)'
  BY DEF Counted
<1>1. TypeOK /\ RequestHeld /\ TypeOK' /\ Balanced(s, c)
  BY NextIInv DEF IInv, Counted
<1>2. /\ IsFiniteSet(Typed(s, c)) /\ Cardinality(Typed(s, c)) \in Nat
      /\ IsFiniteSet(Logged(s, c)) /\ Cardinality(Logged(s, c)) \in Nat
      /\ IsFiniteSet(Logging(s, c)) /\ Cardinality(Logging(s, c)) \in Nat
  <2>1. terminal[s] \in Seq(Input)
        /\ evidence[s] \in Seq(Event)
    BY <1>1 DEF TypeOK
  <2>2. Typed(s, c) \in SUBSET DOMAIN terminal[s] /\ Logged(s, c) \in SUBSET DOMAIN evidence[s]
    BY DEF Typed, Logged
  <2>3. IsFiniteSet(Logging(s, c))
    BY <1>1 DEF Balanced
  <2> QED BY <2>1, <2>2, <2>3, PlacesCount, FS_CardinalityType
<1>3. ASSUME Typed(s, c)' = Typed(s, c), Logged(s, c)' = Logged(s, c),
             Logging(s, c)' \in SUBSET Logging(s, c),
             Logging(s, c)' = Logging(s, c) \/ faults' # 0,
             faults' = 0 => faults = 0
      PROVE  Balanced(s, c)'
  <2>1. /\ IsFiniteSet(Logging(s, c)') /\ Cardinality(Logging(s, c)') \in Nat
        /\ Cardinality(Logging(s, c)') <= Cardinality(Logging(s, c))
    BY <1>2, <1>3, FS_Subset, FS_CardinalityType
  <2> QED BY <1>1, <1>2, <1>3, <2>1 DEF Balanced
<1>4. ASSUME NEW t \in Thread, Deliver(t)
      PROVE  Balanced(s, c)'
  <2> DEFINE r == request[t]
             written == terminal[r.session]
             d == InputOf(t)
             n == Len(written) + 1
  <2>1. /\ r.session \in Session /\ r.command \in Command /\ pc[t] = "deliver" /\ pc'[t] = "record"
        /\ \A u \in Thread \ {t} : pc'[u] = pc[u]
        /\ request' = request /\ evidence' = evidence /\ faults' = faults
    BY <1>1, <1>4 DEF Deliver, RequestHeld, Request, Goto, TypeOK, bounds
  <2>2. /\ terminal'[r.session] = Append(written, d)
        /\ \A u \in Session \ {r.session} : terminal'[u] = terminal[u]
    BY <1>1, <1>4, <2>1 DEF Deliver, TypeOK
  <2>3. /\ DOMAIN Append(written, d) = DOMAIN written \cup {n} /\ n \notin DOMAIN written
        /\ \A i \in DOMAIN written : Append(written, d)[i] = written[i]
        /\ Append(written, d)[n].command = r.command
    <3>1. /\ written \in Seq(Input)
          /\ d.command = r.command
      BY <1>1, <2>1 DEF TypeOK, InputOf
    <3> HIDE DEF written, d
    <3>2. /\ Len(written) \in Nat /\ DOMAIN written = 1..Len(written)
          /\ DOMAIN Append(written, d) = 1..(Len(written) + 1)
          /\ \A i \in 1..Len(written) : Append(written, d)[i] = written[i]
          /\ Append(written, d)[Len(written) + 1] = d
      BY <3>1
    <3> QED BY <3>1, <3>2
  <2>4. Logged(s, c)' = Logged(s, c)
    BY <2>1 DEF Logged
  <2>5. CASE r.session = s /\ r.command = c
    <3>1. Typed(s, c)' = Typed(s, c) \cup {n} /\ n \notin Typed(s, c)
      BY <2>2, <2>3, <2>5 DEF Typed
    <3>2. Logging(s, c)' = Logging(s, c) \cup {t} /\ t \notin Logging(s, c)
      BY <2>1, <2>5 DEF Logging
    <3> HIDE DEF n
    <3>3. /\ Cardinality(Typed(s, c) \cup {n}) = Cardinality(Typed(s, c)) + 1
          /\ Cardinality(Logging(s, c) \cup {t}) = Cardinality(Logging(s, c)) + 1
          /\ IsFiniteSet(Logging(s, c) \cup {t})
      BY <1>2, <3>1, <3>2, FS_AddElement
    <3>4. /\ Cardinality(Typed(s, c)') = Cardinality(Typed(s, c)) + 1
          /\ Cardinality(Logging(s, c)') = Cardinality(Logging(s, c)) + 1
          /\ IsFiniteSet(Logging(s, c)')
      BY <3>1, <3>2, <3>3
    <3> QED BY <1>1, <1>2, <2>1, <2>4, <3>4 DEF Balanced
  <2>6. CASE ~(r.session = s /\ r.command = c)
    <3>1. Typed(s, c)' = Typed(s, c)
      <4>1. CASE r.session = s
        <5> DEFINE after == terminal'[s]
        <5>1. /\ DOMAIN after = DOMAIN terminal[s] \cup {n} /\ n \notin DOMAIN terminal[s]
              /\ \A i \in DOMAIN terminal[s] : after[i] = terminal[s][i]
              /\ after[n].command # c
          BY <2>2, <2>3, <2>6, <4>1
        <5> HIDE DEF after, n
        <5>2. {i \in DOMAIN after : after[i].command = c} = Typed(s, c)
          BY <5>1 DEF Typed
        <5> QED BY <5>2 DEF Typed, after
      <4>2. CASE r.session # s
        BY <2>2, <4>2 DEF Typed
      <4> QED BY <4>1, <4>2
    <3>2. Logging(s, c)' = Logging(s, c)
      BY <2>1, <2>6 DEF Logging
    <3> QED BY <1>3, <2>1, <2>4, <3>1, <3>2
  <2> QED BY <2>5, <2>6
<1>5. ASSUME NEW t \in Thread, NEW kind \in {"created", "approved", "denied", "send"}, Log(t, kind),
             terminal' = terminal, faults' = faults, request[t] \in Request,
             (pc[t] = "record") <=> kind = "send", pc'[t] # "record",
             \A u \in Thread \ {t} : pc'[u] = pc[u] /\ request'[u] = request[u]
      PROVE  Balanced(s, c)'
  <2> DEFINE r == request[t]
             n == Len(evidence[r.session]) + 1
  <2>1. /\ \A u \in Session \ {r.session} : evidence'[u] = evidence[u]
        /\ DOMAIN evidence'[r.session] = DOMAIN evidence[r.session] \cup {n}
        /\ n \notin DOMAIN evidence[r.session]
        /\ \A i \in DOMAIN evidence[r.session] : evidence'[r.session][i] = evidence[r.session][i]
        /\ evidence'[r.session][n].kind = kind /\ evidence'[r.session][n].command = r.command
    <3> DEFINE named == IF kind \in {"created", "approved"} THEN r.grant ELSE NoGrant
    <3>1. evidence'[r.session][n] = [kind |-> kind, command |-> r.command, grant |-> named]
      BY <1>1, <1>5, LogAppends
    <3>2. evidence'[r.session][n].kind = kind /\ evidence'[r.session][n].command = r.command
      BY <3>1
    <3> HIDE DEF named
    <3> QED BY <1>1, <1>5, <3>2, LogAppends
  <2>2. Typed(s, c)' = Typed(s, c)
    BY <1>5 DEF Typed
  <2> HIDE DEF n
  <2>3. CASE kind = "send" /\ r.session = s /\ r.command = c
    <3>1. Logged(s, c)' = Logged(s, c) \cup {n} /\ n \notin Logged(s, c)
      BY <2>1, <2>3 DEF Logged
    <3>2. Logging(s, c)' = Logging(s, c) \ {t} /\ t \in Logging(s, c)
      BY <1>5, <2>3 DEF Logging
    <3>3. /\ Cardinality(Logged(s, c) \cup {n}) = Cardinality(Logged(s, c)) + 1
          /\ Cardinality(Logging(s, c) \ {t}) = Cardinality(Logging(s, c)) - 1
          /\ IsFiniteSet(Logging(s, c) \ {t})
      BY <1>2, <3>1, <3>2, FS_AddElement, FS_RemoveElement
    <3>4. /\ Cardinality(Logged(s, c)') = Cardinality(Logged(s, c)) + 1
          /\ Cardinality(Logging(s, c)') = Cardinality(Logging(s, c)) - 1
          /\ IsFiniteSet(Logging(s, c)')
      BY <3>1, <3>2, <3>3
    <3> QED BY <1>1, <1>2, <1>5, <2>2, <3>4 DEF Balanced
  <2>4. CASE ~(kind = "send" /\ r.session = s /\ r.command = c)
    <3>1. Logged(s, c)' = Logged(s, c)
      <4>1. CASE r.session = s
        BY <2>1, <2>4, <4>1 DEF Logged
      <4>2. CASE r.session # s
        BY <2>1, <4>2 DEF Logged
      <4> QED BY <4>1, <4>2
    <3>2. Logging(s, c)' = Logging(s, c)
      BY <1>5, <2>4 DEF Logging
    <3> QED BY <1>3, <1>5, <2>2, <3>1, <3>2
  <2> HIDE DEF r
  <2> QED BY SMTT(20), <2>3, <2>4
<1>6. ASSUME NEW t \in Thread,
             RecordApproved(t) \/ RecordDenied(t) \/ RecordSend(t) \/ RecordCreated(t)
      PROVE  Balanced(s, c)'
  <2>1. /\ request[t] \in Request /\ terminal' = terminal /\ faults' = faults
        /\ pc'[t] # "record"
        /\ \A u \in Thread \ {t} : pc'[u] = pc[u] /\ request'[u] = request[u]
    BY <1>1, <1>6 DEF RecordApproved, RecordDenied, RecordSend, RecordCreated, RequestHeld,
                      Goto, Return, TypeOK, bounds
  <2>2. \E kind \in {"created", "approved", "denied", "send"} :
          Log(t, kind) /\ ((pc[t] = "record") <=> kind = "send")
    BY <1>6 DEF RecordApproved, RecordDenied, RecordSend, RecordCreated
  <2> QED BY <1>5, <2>1, <2>2
<1>7. ASSUME NEW t \in Thread,
             \/ \E u \in Session, d \in Command, g \in Grant \cup {NoGrant} : SendCall(t, u, d, g)
             \/ \E u \in Session, d \in Command : AttachInput(t, u, d)
             \/ \E u \in Session, d \in Command, g \in Grant, ttl \in Ttl :
                  ApproveCall(t, u, d, g, ttl)
             \/ LockApprovals(t) \/ ReadToConsume(t) \/ ReadToCreate(t) \/ ReadFails(t)
             \/ Truncate(t) \/ WriteApprovals(t) \/ WriteFails(t)
      PROVE  Balanced(s, c)'
  <2>1. /\ evidence' = evidence /\ terminal' = terminal /\ (faults' = 0 => faults = 0)
        /\ pc[t] # "record" /\ pc'[t] # "record"
        /\ \A u \in Thread \ {t} : pc'[u] = pc[u] /\ request'[u] = request[u]
    <3>1. faults \in Nat
      BY <1>1, GateAssumption DEF TypeOK
    <3>2. pc[t] # "record" /\ pc'[t] # "record"
      BY <1>1, <1>7 DEF SendCall, AttachInput, ApproveCall, LockApprovals, ReadToConsume, ReadToCreate, ReadFails,
                        Truncate, WriteApprovals, WriteFails, Goto, Return, TypeOK
    <3>3. \A u \in Thread \ {t} : pc'[u] = pc[u] /\ request'[u] = request[u]
      BY <1>1, <1>7 DEF SendCall, AttachInput, ApproveCall, LockApprovals, ReadToConsume, ReadToCreate, ReadFails,
                        Truncate, WriteApprovals, WriteFails, Goto, Return, TypeOK
    <3>4. evidence' = evidence /\ terminal' = terminal /\ faults' \in {faults, faults + 1}
      BY <1>7 DEF SendCall, AttachInput, ApproveCall, LockApprovals, ReadToConsume, ReadToCreate, ReadFails,
                  Truncate, WriteApprovals, WriteFails, Fault, outVars, bounds
    <3> QED BY <3>1, <3>2, <3>3, <3>4
  <2>2. Typed(s, c)' = Typed(s, c) /\ Logged(s, c)' = Logged(s, c)
    BY <2>1 DEF Typed, Logged
  <2>3. Logging(s, c)' = Logging(s, c)
    BY <2>1 DEF Logging
  <2> QED BY <1>3, <2>1, <2>2, <2>3
<1>8. ASSUME (\E t \in Thread : StepFails(t)) \/ (\E p \in Process : Crash(p))
      PROVE  Balanced(s, c)'
  <2>1. evidence' = evidence /\ terminal' = terminal /\ faults' = faults + 1
    BY <1>8 DEF StepFails, Crash, Fault, outVars
  <2>2. \A u \in Thread : pc'[u] = "record" => pc[u] = "record" /\ request'[u] = request[u]
    BY <1>1, <1>8 DEF StepFails, Crash, Return, TypeOK
  <2>3. faults' # 0
    BY <1>1, <2>1, GateAssumption DEF TypeOK
  <2>4. Typed(s, c)' = Typed(s, c) /\ Logged(s, c)' = Logged(s, c)
    BY <2>1 DEF Typed, Logged
  <2>5. Logging(s, c)' \in SUBSET Logging(s, c)
    BY <2>2 DEF Logging
  <2> QED BY <1>3, <2>3, <2>4, <2>5
<1>9. ASSUME Tick \/ UNCHANGED vars
      PROVE  Balanced(s, c)'
  <2>1. UNCHANGED <<evidence, terminal, pc, request, faults>>
    BY <1>9 DEF Tick, vars, outVars
  <2>2. Typed(s, c)' = Typed(s, c) /\ Logged(s, c)' = Logged(s, c) /\ Logging(s, c)' = Logging(s, c)
    BY <2>1 DEF Typed, Logged, Logging
  <2> QED BY <1>3, <2>1, <2>2
<1> QED BY <1>4, <1>6, <1>7, <1>8, <1>9 DEF Next, HandlerStep

\* What a terminal got and what its log says it got are the same inputs, but for
\* those a crash or a failed append left out (session.rs, send).
THEOREM InputsRecorded == Spec => []InputRecorded
<1>1. Init => Counted
  <2> SUFFICES ASSUME Init, NEW s \in Session, NEW c \in Command PROVE Balanced(s, c)
    BY DEF Counted
  <2>1. Typed(s, c) = {} /\ Logged(s, c) = {} /\ Logging(s, c) = {}
    BY DEF Init, Typed, Logged, Logging
  <2> QED BY <2>1, FS_EmptySet DEF Balanced
<1>2. IInv /\ Counted /\ [Next]_vars => Counted'
  BY NextCounted
<1>3. Counted => InputRecorded
  BY DEF Counted, Balanced, InputRecorded
<1> QED BY <1>1, <1>2, <1>3, InvariantHolds, PTL DEF Spec

----------------------------------------------------------------------------
(* One process: approval_lock guards the file.                             *)

\* Who reads or rewrites the file holds approval_lock of its process.
LEMMA NextMutex ==
  ASSUME TypeOK, Mutex, [Next]_vars
  PROVE  Mutex'
<1> USE GateAssumption DEF TypeOK, HoldsLock, Goto, Return, Mutex
<1>1. ASSUME NEW t \in Thread,
             \/ \E s \in Session, c \in Command, g \in Grant \cup {NoGrant} : SendCall(t, s, c, g)
             \/ \E s \in Session, c \in Command : AttachInput(t, s, c)
             \/ \E s \in Session, c \in Command, g \in Grant, ttl \in Ttl :
                  ApproveCall(t, s, c, g, ttl)
             \/ RecordApproved(t) \/ RecordDenied(t) \/ Deliver(t) \/ RecordSend(t)
             \/ RecordCreated(t) \/ StepFails(t)
      PROVE  Mutex'
  <2>1. lock' = lock /\ pc'[t] \notin HoldsLock /\ \A u \in Thread \ {t} : pc'[u] = pc[u]
    BY <1>1 DEF SendCall, AttachInput, ApproveCall, RecordApproved, RecordDenied, Deliver, RecordSend,
                RecordCreated, StepFails
  <2> QED BY <2>1
<1>2. ASSUME NEW t \in Thread, LockApprovals(t)
      PROVE  Mutex'
  BY <1>2 DEF LockApprovals
<1>3. ASSUME NEW t \in Thread, ReadToConsume(t) \/ ReadToCreate(t) \/ Truncate(t)
      PROVE  Mutex'
  BY <1>3 DEF ReadToConsume, ReadToCreate, Truncate, UnlockApprovals
<1>4. ASSUME NEW t \in Thread, ReadFails(t) \/ WriteApprovals(t) \/ WriteFails(t)
      PROVE  Mutex'
  <2>1. lock[ProcOf[t]] = t /\ pc'[t] \notin HoldsLock
    BY <1>4 DEF ReadFails, WriteApprovals, WriteFails
  <2>2. /\ lock' = [lock EXCEPT ![ProcOf[t]] = NoThread]
        /\ \A u \in Thread \ {t} : pc'[u] = pc[u]
    BY <1>4 DEF ReadFails, WriteApprovals, WriteFails, UnlockApprovals
  <2> QED BY <2>1, <2>2
<1>5. ASSUME NEW p \in Process, Crash(p)
      PROVE  Mutex'
  BY <1>5 DEF Crash, Of
<1>6. CASE Tick \/ UNCHANGED vars
  BY <1>6 DEF Tick, vars
<1> QED BY <1>1, <1>2, <1>3, <1>4, <1>5, <1>6 DEF Next, HandlerStep

\* Without faults the file is empty from one thread's truncation until that
\* thread's write, and whole otherwise.
LEMMA NextFileParses ==
  ASSUME OneProcess, TypeOK, Mutex, FileParses, [Next]_vars
  PROVE  FileParses'
<1> SUFFICES ASSUME faults' = 0 PROVE FileParses'
  BY DEF FileParses
<1> USE DEF TypeOK, Goto, Return
<1>1. /\ faults = 0 /\ \A t \in Thread : ~WriteFails(t) /\ ~StepFails(t)
      /\ \A p \in Process : ~Crash(p)
  BY NoFault
<1>2. /\ file # "whole" => \E t \in Thread : pc[t] = "write"
      /\ \A t \in Thread : pc[t] = "write" => file = "empty"
  BY <1>1 DEF FileParses
<1>3. ASSUME NEW t \in Thread, Truncate(t)
      PROVE  FileParses'
  BY <1>3 DEF Truncate, FileParses
<1>4. ASSUME NEW t \in Thread, WriteApprovals(t)
      PROVE  FileParses'
  <2>1. file' = "whole" /\ pc'[t] # "write"
    BY <1>2, <1>4 DEF WriteApprovals, Overwritten
  <2>2. ASSUME NEW u \in Thread \ {t} PROVE pc'[u] # "write"
    <3>1. pc'[u] = pc[u] /\ pc[t] = "write" /\ ProcOf[t] = ProcOf[u]
      BY <1>4 DEF WriteApprovals, OneProcess
    <3> QED BY <3>1 DEF Mutex, HoldsLock
  <2> QED BY <2>1, <2>2 DEF FileParses
<1>5. ASSUME file' = file, \A t \in Thread : pc'[t] = "write" <=> pc[t] = "write"
      PROVE  FileParses'
  BY <1>2, <1>5 DEF FileParses
<1>6. ASSUME NEW t \in Thread,
             \/ \E s \in Session, c \in Command, g \in Grant \cup {NoGrant} : SendCall(t, s, c, g)
             \/ \E s \in Session, c \in Command : AttachInput(t, s, c)
             \/ \E s \in Session, c \in Command, g \in Grant, ttl \in Ttl :
                  ApproveCall(t, s, c, g, ttl)
             \/ LockApprovals(t) \/ ReadToConsume(t) \/ ReadToCreate(t) \/ ReadFails(t)
             \/ RecordApproved(t) \/ RecordDenied(t) \/ Deliver(t) \/ RecordSend(t)
             \/ RecordCreated(t)
      PROVE  FileParses'
  <2>1. /\ file' = file /\ pc[t] # "write" /\ pc'[t] # "write"
        /\ \A u \in Thread \ {t} : pc'[u] = pc[u]
    BY <1>6 DEF SendCall, AttachInput, ApproveCall, LockApprovals, ReadToConsume, ReadToCreate,
                ReadFails, RecordApproved, RecordDenied, Deliver, RecordSend, RecordCreated,
                fileVars
  <2> QED BY <1>5, <2>1
<1>7. CASE Tick \/ UNCHANGED vars
  BY <1>5, <1>7 DEF Tick, vars, fileVars
<1> QED BY <1>1, <1>3, <1>4, <1>6, <1>7 DEF Next, HandlerStep

\* In one process nobody writes the file between another's read and its write.
LEMMA NextCopyIsFresh ==
  ASSUME OneProcess, TypeOK, RequestHeld, Mutex, CopyIsFresh, [Next]_vars
  PROVE  CopyIsFresh'
<1> USE DEF TypeOK, Goto, Return, CopyIsFresh
<1>1. ASSUME NEW t \in Thread, ReadToConsume(t)
      PROVE  CopyIsFresh'
  <2>1. /\ approvals' = approvals /\ request' = request /\ request[t].op = "send"
        /\ \A u \in Thread \ {t} : pc'[u] = pc[u] /\ copy'[u] = copy[u]
    BY <1>1 DEF ReadToConsume, fileVars
  <2>2. /\ pc'[t] = "truncate" => copy'[t] = [approvals EXCEPT ![request[t].grant] = "used"]
        /\ pc'[t] = "truncate" => approvals[request[t].grant] = "unused"
    BY <1>1 DEF ReadToConsume, IsValidFor
  <2>3. pc'[t] # "write"
    BY <1>1 DEF ReadToConsume
  <2> HIDE DEF TypeOK, Goto, Return
  <2>4. ASSUME NEW u \in Thread \ {t}, pc'[u] \in {"truncate", "write"}
        PROVE  LET r == request'[u] IN
               /\ copy'[u] = [approvals' EXCEPT ![r.grant] =
                                IF r.op = "send" THEN "used" ELSE "unused"]
               /\ r.op = "send" => approvals'[r.grant] = "unused"
    BY <2>1, <2>4
  <2>5. ASSUME pc'[t] = "truncate"
        PROVE  LET r == request'[t] IN
               /\ copy'[t] = [approvals' EXCEPT ![r.grant] =
                                IF r.op = "send" THEN "used" ELSE "unused"]
               /\ r.op = "send" => approvals'[r.grant] = "unused"
    BY <2>1, <2>2, <2>5
  <2> QED BY <2>3, <2>4, <2>5
<1>2. ASSUME NEW t \in Thread, ReadToCreate(t)
      PROVE  CopyIsFresh'
  BY <1>2 DEF ReadToCreate, fileVars
<1>3. ASSUME NEW t \in Thread, WriteApprovals(t)
      PROVE  CopyIsFresh'
  <2>1. ASSUME NEW u \in Thread \ {t} PROVE pc'[u] \notin {"truncate", "write"}
    <3>1. pc'[u] = pc[u] /\ pc[t] = "write" /\ ProcOf[t] = ProcOf[u]
      BY <1>3 DEF WriteApprovals, OneProcess
    <3> QED BY <3>1 DEF Mutex, HoldsLock
  <2>2. pc'[t] \notin {"truncate", "write"}
    BY <1>3 DEF WriteApprovals
  <2> QED BY <2>1, <2>2
<1>4. ASSUME NEW t \in Thread, Truncate(t)
      PROVE  CopyIsFresh'
  BY <1>4 DEF Truncate
<1>5. ASSUME NEW t \in Thread,
             \/ \E s \in Session, c \in Command, g \in Grant \cup {NoGrant} : SendCall(t, s, c, g)
             \/ \E s \in Session, c \in Command : AttachInput(t, s, c)
             \/ \E s \in Session, c \in Command, g \in Grant, ttl \in Ttl :
                  ApproveCall(t, s, c, g, ttl)
             \/ LockApprovals(t) \/ ReadFails(t) \/ WriteFails(t) \/ RecordApproved(t)
             \/ RecordDenied(t) \/ Deliver(t) \/ RecordSend(t) \/ RecordCreated(t) \/ StepFails(t)
      PROVE  CopyIsFresh'
  <2>1. approvals' = approvals /\ pc'[t] \notin {"truncate", "write"}
    BY <1>5 DEF SendCall, AttachInput, ApproveCall, LockApprovals, ReadFails, WriteFails, RecordApproved,
                RecordDenied, Deliver, RecordSend, RecordCreated, StepFails, fileVars
  <2>2. \A u \in Thread \ {t} : pc'[u] = pc[u] /\ copy'[u] = copy[u] /\ request'[u] = request[u]
    BY <1>5 DEF SendCall, AttachInput, ApproveCall, LockApprovals, ReadFails, WriteFails, RecordApproved,
                RecordDenied, Deliver, RecordSend, RecordCreated, StepFails
  <2> HIDE DEF TypeOK
  <2>3. ASSUME NEW u \in Thread, pc'[u] \in {"truncate", "write"}
        PROVE  LET r == request'[u] IN
               /\ copy'[u] = [approvals' EXCEPT ![r.grant] =
                                IF r.op = "send" THEN "used" ELSE "unused"]
               /\ r.op = "send" => approvals'[r.grant] = "unused"
    <3>1. u # t
      BY <2>1, <2>3
    <3>2. pc'[u] = pc[u] /\ copy'[u] = copy[u] /\ request'[u] = request[u] /\ approvals' = approvals
      BY <2>1, <2>2, <3>1
    <3> QED BY <2>3, <3>2
  <2> QED BY <2>3
<1>6. ASSUME NEW p \in Process, Crash(p)
      PROVE  CopyIsFresh'
  BY <1>6 DEF Crash, fileVars
<1>7. CASE Tick \/ UNCHANGED vars
  BY <1>7 DEF Tick, vars, fileVars
<1> QED BY <1>1, <1>2, <1>3, <1>4, <1>5, <1>6, <1>7 DEF Next, HandlerStep

\* A write changes the record of the one grant of its request, to used from
\* unused or from none to unused.
LEMMA WriteChangesOne ==
  ASSUME TypeOK, RequestHeld, CopyIsFresh, CreatedOnce, NEW t \in Thread, WriteApprovals(t)
  PROVE  /\ request[t].grant \in Grant
         /\ \A g \in Grant \ {request[t].grant} : approvals'[g] = approvals[g]
         /\ request[t].op = "send" => /\ approvals[request[t].grant] = "unused"
                                      /\ approvals'[request[t].grant] = "used"
         /\ request[t].op # "send" => /\ Creating(t)
                                      /\ approvals[request[t].grant] = "none"
                                      /\ approvals'[request[t].grant] = "unused"
<1> DEFINE r == request[t]
<1>1. pc[t] = "write" /\ approvals' = copy[t]
  BY DEF WriteApprovals
<1>2. r.grant \in Grant /\ r.op \in {"send", "approve"}
  BY <1>1 DEF RequestHeld, Request
<1>3. /\ copy[t] = [approvals EXCEPT ![r.grant] = IF r.op = "send" THEN "used" ELSE "unused"]
      /\ r.op = "send" => approvals[r.grant] = "unused"
  BY <1>1 DEF CopyIsFresh
<1>4. r.op # "send" => Creating(t) /\ approvals[r.grant] = "none"
  BY <1>1, <1>2 DEF Creating, CreatedOnce
<1>5. approvals \in [Grant -> GrantState]
  BY DEF TypeOK
<1> HIDE DEF r
<1>6. /\ \A g \in Grant \ {r.grant} : approvals'[g] = approvals[g]
      /\ r.op = "send" => approvals'[r.grant] = "used"
      /\ r.op # "send" => approvals'[r.grant] = "unused"
  BY <1>1, <1>2, <1>3, <1>5
<1> QED BY <1>2, <1>3, <1>4, <1>6 DEF r

\* No record leaves the file and no spent approval becomes valid again.
LEMMA ApprovalsGrow ==
  ASSUME TypeOK, RequestHeld, CopyIsFresh, CreatedOnce, [Next]_vars, NEW g \in Grant
  PROVE  /\ approvals[g] # "none" => approvals'[g] # "none"
         /\ approvals[g] = "used" => approvals'[g] = "used"
<1>1. ASSUME NEW t \in Thread, WriteApprovals(t)
      PROVE  /\ approvals[g] # "none" => approvals'[g] # "none"
             /\ approvals[g] = "used" => approvals'[g] = "used"
  BY <1>1, WriteChangesOne
<1>2. (\E t \in Thread : WriteApprovals(t)) \/ approvals' = approvals
  <2>1. ASSUME NEW t \in Thread,
                \/ \E s \in Session, c \in Command, h \in Grant \cup {NoGrant} : SendCall(t, s, c, h)
                \/ \E s \in Session, c \in Command : AttachInput(t, s, c)
                \/ \E s \in Session, c \in Command, h \in Grant, ttl \in Ttl :
                     ApproveCall(t, s, c, h, ttl)
        PROVE  approvals' = approvals
    BY <2>1 DEF SendCall, AttachInput, ApproveCall, fileVars
  <2>2. ASSUME NEW t \in Thread, ~WriteApprovals(t),
               HandlerStep(t) \/ WriteFails(t) \/ StepFails(t)
        PROVE  approvals' = approvals
    BY <2>2 DEF HandlerStep, LockApprovals, ReadToConsume, ReadToCreate, ReadFails, Truncate,
                WriteFails, RecordApproved, RecordDenied, Deliver, RecordSend, RecordCreated,
                StepFails, fileVars
  <2>3. ASSUME (\E p \in Process : Crash(p)) \/ Tick \/ UNCHANGED vars
        PROVE  approvals' = approvals
    BY <2>3 DEF Crash, Tick, vars, fileVars
  <2> QED BY <2>1, <2>2, <2>3 DEF Next
<1> QED BY <1>1, <1>2

\* Every grant is made by one request, and is in the file once that is done.
LEMMA NextCreatedOnce ==
  ASSUME TypeOK, RequestHeld, GrantsKnown, CopyIsFresh, CreatedOnce, [Next]_vars
  PROVE  CreatedOnce'
<1> DEFINE Apart(t, u) == Creating(t) /\ Creating(u) /\ request[t].grant = request[u].grant => t = u
           Absent(t) == Creating(t) =>
             approvals[request[t].grant] = "none" /\ request[t].grant \notin issued
           Present(t) == pc[t] = "created" => approvals[request[t].grant] # "none"
           Kept(t) == /\ Creating(t)' => Creating(t) /\ request'[t] = request[t]
                      /\ pc'[t] = "created" => pc[t] = "created" /\ request'[t] = request[t]
           Goal == /\ \A t, u \in Thread : Apart(t, u)'
                   /\ \A t \in Thread : Absent(t)' /\ Present(t)'
                   /\ \A g \in issued' : approvals'[g] # "none"
<1>1. \A t, u \in Thread : Apart(t, u) /\ Absent(t) /\ Present(t)
  BY DEF CreatedOnce
<1> SUFFICES Goal
  BY DEF CreatedOnce
<1> USE DEF TypeOK, Goto, Return
<1>2. \A g \in issued : g \in Grant /\ approvals[g] # "none" /\ approvals'[g] # "none"
  BY ApprovalsGrow DEF CreatedOnce
<1>3. \A t \in Thread : Creating(t) \/ pc[t] = "created" =>
        request[t].grant \in Grant /\ terms[request[t].grant] # Nothing
  BY DEF RequestHeld, Creating
<1>4. ASSUME \A t \in Thread : Kept(t), approvals' = approvals, issued' = issued
      PROVE  Goal
  <2>1. \A t, u \in Thread : Apart(t, u)'
    BY <1>1, <1>4
  <2>2. \A t \in Thread : Absent(t)' /\ Present(t)'
    BY <1>1, <1>4
  <2> QED BY <1>2, <1>4, <2>1, <2>2
<1>5. ASSUME NEW t \in Thread, NEW s \in Session, NEW c \in Command,
             NEW g \in Grant \cup {NoGrant}, SendCall(t, s, c, g)
      PROVE  Goal
  <2>1. approvals' = approvals /\ issued' = issued
    BY <1>5 DEF SendCall, fileVars
  <2>2. request'[t].op = "send" /\ pc'[t] # "created"
    BY <1>5 DEF SendCall
  <2>3. \A u \in Thread \ {t} : pc'[u] = pc[u] /\ request'[u] = request[u]
    BY <1>5 DEF SendCall
  <2>4. \A u \in Thread : Kept(u)
    BY <2>2, <2>3 DEF Creating
  <2> HIDE DEF Kept, Goal
  <2> QED BY <1>4, <2>1, <2>4
<1>a. ASSUME NEW t \in Thread, NEW s \in Session, NEW c \in Command, AttachInput(t, s, c)
      PROVE  Goal
  <2>1. approvals' = approvals /\ issued' = issued
    BY <1>a DEF AttachInput, fileVars
  <2>2. pc'[t] = "deliver"
    BY <1>a DEF AttachInput
  <2>3. \A u \in Thread \ {t} : pc'[u] = pc[u] /\ request'[u] = request[u]
    BY <1>a DEF AttachInput
  <2>4. \A u \in Thread : Kept(u)
    BY <2>2, <2>3 DEF Creating
  <2> HIDE DEF Kept, Goal
  <2> QED BY <1>4, <2>1, <2>4
<1>6. ASSUME NEW t \in Thread, NEW s \in Session, NEW c \in Command, NEW g \in Grant,
             NEW ttl \in Ttl, ApproveCall(t, s, c, g, ttl)
      PROVE  Goal
  <2>1. approvals' = approvals /\ issued' = issued
    BY <1>6 DEF ApproveCall, fileVars
  <2>2. request'[t].grant = g /\ pc'[t] = "lock"
    BY <1>6 DEF ApproveCall
  <2>3. \A u \in Thread \ {t} : pc'[u] = pc[u] /\ request'[u] = request[u]
    BY <1>6 DEF ApproveCall
  <2>4. approvals[g] = "none" /\ g \notin issued
    BY <1>6 DEF ApproveCall, GrantsKnown
  <2>5. \A u \in Thread : Creating(u) => request[u].grant # g
    BY <1>3, <1>6 DEF ApproveCall
  <2>6. \A u \in Thread \ {t} : Kept(u)
    BY <2>3 DEF Creating
  <2>7. \A u \in Thread : Absent(u)' /\ Present(u)'
    <3>1. Absent(t)' /\ Present(t)'
      BY <2>1, <2>2, <2>4
    <3>2. \A u \in Thread \ {t} : Absent(u)' /\ Present(u)'
      BY <1>1, <2>1, <2>6
    <3> QED BY <3>1, <3>2
  <2>8. \A u, v \in Thread : Apart(u, v)'
    BY ZenonT(30), <1>1, <2>2, <2>5, <2>6
  <2> QED BY <1>2, <2>1, <2>7, <2>8
<1>7. ASSUME NEW t \in Thread,
             \/ LockApprovals(t) \/ ReadToConsume(t) \/ ReadToCreate(t) \/ ReadFails(t)
             \/ Truncate(t) \/ WriteFails(t) \/ RecordApproved(t) \/ RecordDenied(t)
             \/ Deliver(t) \/ RecordSend(t) \/ StepFails(t)
      PROVE  Goal
  <2>1. approvals' = approvals /\ issued' = issued
    BY <1>7 DEF LockApprovals, ReadToConsume, ReadToCreate, ReadFails, Truncate, WriteFails,
                RecordApproved, RecordDenied, Deliver, RecordSend, StepFails, fileVars
  <2>2. /\ pc'[t] # "created"
        /\ Creating(t)' => Creating(t) /\ request'[t] = request[t]
    BY <1>7 DEF LockApprovals, ReadToConsume, ReadToCreate, ReadFails, Truncate, WriteFails,
                RecordApproved, RecordDenied, Deliver, RecordSend, StepFails, Creating
  <2>3. \A u \in Thread \ {t} : pc'[u] = pc[u] /\ request'[u] = request[u]
    BY <1>7 DEF LockApprovals, ReadToConsume, ReadToCreate, ReadFails, Truncate, WriteFails,
                RecordApproved, RecordDenied, Deliver, RecordSend, StepFails
  <2>4. \A u \in Thread : Kept(u)
    BY <2>2, <2>3 DEF Creating
  <2> HIDE DEF Kept, Goal
  <2> QED BY <1>4, <2>1, <2>4
<1>8. ASSUME NEW t \in Thread, WriteApprovals(t)
      PROVE  Goal
  <2> DEFINE r == request[t]
  <2>1. issued' = issued /\ request' = request /\ \A u \in Thread \ {t} : pc'[u] = pc[u]
    BY <1>8 DEF WriteApprovals
  <2>2. /\ r.grant \in Grant
        /\ \A g \in Grant \ {r.grant} : approvals'[g] = approvals[g]
        /\ r.op = "send" => approvals[r.grant] = "unused"
        /\ r.op # "send" => Creating(t)
        /\ approvals'[r.grant] # "none"
    BY <1>8, WriteChangesOne
  <2>3. pc'[t] \notin {"lock", "read", "truncate", "write"}
    BY <1>8 DEF WriteApprovals
  <2>4. \A u \in Thread : Creating(u)' => u # t /\ Creating(u)
    BY <2>1, <2>3 DEF Creating
  <2>5. \A u \in Thread : Creating(u)' => request[u].grant # r.grant
    BY <1>1, <2>2, <2>4
  <2>6. \A u \in Thread : Absent(u)'
    BY <1>1, <1>3, <2>1, <2>2, <2>4, <2>5
  <2>7. \A u \in Thread : Present(u)'
    <3>1. \A u \in Thread \ {t} : pc'[u] = "created" => approvals'[request[u].grant] # "none"
      BY <1>1, <1>3, <2>1, <2>2
    <3> QED BY <2>1, <2>2, <3>1
  <2>8. \A u, v \in Thread : Apart(u, v)'
    BY <1>1, <2>1, <2>4
  <2> QED BY <1>2, <2>1, <2>6, <2>7, <2>8
<1>9. ASSUME NEW t \in Thread, RecordCreated(t)
      PROVE  Goal
  <2>1. /\ approvals' = approvals /\ pc[t] = "created" /\ pc'[t] = "idle"
        /\ issued' = issued \cup {request[t].grant}
        /\ \A u \in Thread \ {t} : pc'[u] = pc[u] /\ request'[u] = request[u]
    BY <1>9 DEF RecordCreated, fileVars
  <2>2. approvals[request[t].grant] # "none"
    BY <1>1, <2>1
  <2>3. \A u \in Thread : Kept(u)
    BY <2>1 DEF Creating
  <2>4. \A u \in Thread : Absent(u)' /\ Present(u)'
    BY <1>1, <2>1, <2>2, <2>3
  <2>5. \A u, v \in Thread : Apart(u, v)'
    BY <1>1, <2>3
  <2> QED BY <1>2, <2>1, <2>2, <2>4, <2>5
<1>10. ASSUME NEW p \in Process, Crash(p)
       PROVE  Goal
  <2>1. approvals' = approvals /\ issued' = issued
    BY <1>10 DEF Crash, fileVars
  <2>2. \A u \in Thread : Kept(u)
    BY <1>10 DEF Crash, Creating
  <2> HIDE DEF Kept, Goal
  <2> QED BY <1>4, <2>1, <2>2
<1>11. ASSUME Tick \/ UNCHANGED vars
       PROVE  Goal
  <2>1. UNCHANGED <<approvals, issued, pc, request>>
    BY <1>11 DEF Tick, vars, fileVars
  <2>2. \A u \in Thread : Kept(u)
    BY <2>1 DEF Creating
  <2> HIDE DEF Kept, Goal
  <2> QED BY <1>4, <2>1, <2>2
<1> HIDE DEF Goal
<1> QED BY <1>5, <1>a, <1>6, <1>7, <1>8, <1>9, <1>10, <1>11 DEF Next, HandlerStep

\* A grant is spent by one request, and approved in one log at one place.
LEMMA NextApprovedOnce ==
  ASSUME TypeOK, RequestHeld, CopyIsFresh, CreatedOnce, ApprovedOnce, [Next]_vars
  PROVE  ApprovedOnce'
<1> DEFINE Once == \A g \in Grant, s1, s2 \in Session :
                     \A i \in DOMAIN evidence[s1], j \in DOMAIN evidence[s2] :
                       IsApproval(s1, i, g) /\ IsApproval(s2, j, g) => s1 = s2 /\ i = j
           Used == \A s \in Session : \A i \in DOMAIN evidence[s] :
                     evidence[s][i].kind = "approved" =>
                       evidence[s][i].grant \in Grant /\ approvals[evidence[s][i].grant] = "used"
           Unseen(g) == \A s \in Session : \A i \in DOMAIN evidence[s] : ~IsApproval(s, i, g)
           Approving(t) == pc[t] = "approve" =>
             /\ approvals[request[t].grant] = "used"
             /\ Unseen(request[t].grant)
             /\ \A u \in Thread : pc[u] = "approve" /\ request[u].grant = request[t].grant => u = t
           NoNew == \A s \in Session : \A i \in DOMAIN evidence'[s] :
             evidence'[s][i].kind = "approved" =>
               i \in DOMAIN evidence[s] /\ evidence'[s][i] = evidence[s][i]
           Kept(t) == pc'[t] = "approve" => pc[t] = "approve" /\ request'[t] = request[t]
           Goal == Once' /\ Used' /\ \A t \in Thread : Approving(t)'
<1>1. Once /\ Used /\ \A t \in Thread : Approving(t)
  BY DEF ApprovedOnce
<1> SUFFICES Goal
  BY DEF ApprovedOnce
<1> USE DEF TypeOK, Goto, Return
<1>2. \A g \in Grant : approvals[g] = "used" => approvals'[g] = "used"
  BY ApprovalsGrow
<1>3. \A t \in Thread : pc[t] = "approve" => request[t].grant \in Grant
  BY DEF RequestHeld
<1>4. ASSUME NoNew PROVE Once' /\ Used'
  <2>1. ASSUME NEW g \in Grant, NEW s \in Session, NEW i \in DOMAIN evidence'[s],
               IsApproval(s, i, g)'
        PROVE  i \in DOMAIN evidence[s] /\ IsApproval(s, i, g)
    BY <1>4, <2>1 DEF IsApproval
  <2>2. Once'
    <3> HIDE DEF NoNew
    <3> QED BY <1>1, <2>1
  <2>3. ASSUME NEW s \in Session, NEW i \in DOMAIN evidence'[s], evidence'[s][i].kind = "approved"
        PROVE  evidence'[s][i].grant \in Grant /\ approvals'[evidence'[s][i].grant] = "used"
    <3>1. i \in DOMAIN evidence[s] /\ evidence'[s][i] = evidence[s][i]
      BY <1>4, <2>3
    <3> QED BY <1>1, <1>2, <2>3, <3>1
  <2> QED BY <2>2, <2>3
<1>5. ASSUME NoNew, \A t \in Thread : Kept(t)
      PROVE  Goal
  <2>1. \A g : Unseen(g) => Unseen(g)'
    BY <1>5 DEF IsApproval
  <2>2. ASSUME NEW t \in Thread, pc'[t] = "approve" PROVE Approving(t)'
    <3>1. pc[t] = "approve" /\ request'[t] = request[t]
      BY <1>5, <2>2
    <3>2. approvals'[request[t].grant] = "used" /\ Unseen(request[t].grant)'
      BY <1>1, <1>2, <1>3, <2>1, <3>1
    <3>3. \A u \in Thread : pc'[u] = "approve" /\ request'[u].grant = request[t].grant => u = t
      BY <1>1, <1>5, <3>1
    <3> HIDE DEF Unseen
    <3> QED BY <2>2, <3>1, <3>2, <3>3
  <2> QED BY <1>4, <1>5, <2>2
<1>6. ASSUME NEW t \in Thread, pc[t] # "idle", NEW kind \in {"created", "denied", "send"},
             Log(t, kind)
      PROVE  NoNew
  <2> HIDE DEF TypeOK
  <2>1. request[t] \in Request
    BY <1>6 DEF RequestHeld
  <2> DEFINE s == request[t].session
             n == Len(evidence[s]) + 1
  <2>2. /\ \A u \in Session \ {s} : evidence'[u] = evidence[u]
        /\ DOMAIN evidence'[s] = DOMAIN evidence[s] \cup {n}
        /\ \A i \in DOMAIN evidence[s] : evidence'[s][i] = evidence[s][i]
        /\ evidence'[s][n] = [kind |-> kind, command |-> request[t].command,
             grant |-> IF kind \in {"created", "approved"} THEN request[t].grant ELSE NoGrant]
    <3>1. kind \in {"created", "approved", "denied", "send"} /\ Log(t, kind)
      BY <1>6
    <3> HIDE DEF Goto, Return, Log
    <3> QED BY <2>1, <3>1, LogAppends, ZenonT(60)
  <2>3. evidence'[s][n].kind = kind
    <3> HIDE DEF s, n
    <3> QED BY <2>2
  <2> HIDE DEF s, n
  <2> QED BY <1>6, <2>2, <2>3
<1>7. ASSUME NEW t \in Thread,
             RecordDenied(t) \/ RecordSend(t) \/ RecordCreated(t)
      PROVE  Goal
  <2>1. NoNew
    BY <1>6, <1>7 DEF RecordDenied, RecordSend, RecordCreated
  <2>2. \A u \in Thread : Kept(u)
    BY <1>7 DEF RecordDenied, RecordSend, RecordCreated
  <2> HIDE DEF NoNew, Kept, Goal
  <2> QED BY <1>5, <2>1, <2>2
<1>8. ASSUME NEW t \in Thread,
             \/ \E s \in Session, c \in Command, g \in Grant \cup {NoGrant} : SendCall(t, s, c, g)
             \/ \E s \in Session, c \in Command : AttachInput(t, s, c)
             \/ \E s \in Session, c \in Command, g \in Grant, ttl \in Ttl :
                  ApproveCall(t, s, c, g, ttl)
             \/ LockApprovals(t) \/ ReadToConsume(t) \/ ReadToCreate(t) \/ ReadFails(t)
             \/ Truncate(t) \/ WriteFails(t) \/ Deliver(t) \/ StepFails(t)
      PROVE  Goal
  <2>1. evidence' = evidence
    BY <1>8 DEF SendCall, AttachInput, ApproveCall, LockApprovals, ReadToConsume, ReadToCreate, ReadFails,
                Truncate, WriteFails, Deliver, StepFails, outVars
  <2>2. pc'[t] # "approve" /\ \A u \in Thread \ {t} : pc'[u] = pc[u] /\ request'[u] = request[u]
    BY <1>8 DEF SendCall, AttachInput, ApproveCall, LockApprovals, ReadToConsume, ReadToCreate, ReadFails,
                Truncate, WriteFails, Deliver, StepFails
  <2>3. NoNew /\ \A u \in Thread : Kept(u)
    BY <2>1, <2>2
  <2> HIDE DEF NoNew, Kept, Goal
  <2> QED BY <1>5, <2>3
<1>9. ASSUME NEW t \in Thread, WriteApprovals(t)
      PROVE  Goal
  <2> DEFINE r == request[t]
  <2>1. evidence' = evidence /\ request' = request /\ \A u \in Thread \ {t} : pc'[u] = pc[u]
    BY <1>9 DEF WriteApprovals, outVars
  <2>2. /\ r.grant \in Grant
        /\ r.op = "send" => approvals[r.grant] = "unused" /\ approvals'[r.grant] = "used"
    BY <1>9, WriteChangesOne
  <2>3. pc'[t] = "approve" => r.op = "send"
    BY <1>9 DEF WriteApprovals
  <2>4. NoNew
    BY <2>1
  <2>5. \A g \in Grant : Unseen(g) => Unseen(g)'
    BY <2>1 DEF IsApproval
  <2>6. pc'[t] = "approve" => Unseen(r.grant)
    BY <1>1, <2>2, <2>3 DEF IsApproval
  <2>7. pc'[t] = "approve" => \A u \in Thread \ {t} : pc[u] = "approve" => request[u].grant # r.grant
    BY <1>1, <2>2, <2>3
  <2>8. Approving(t)'
    <3> HIDE DEF Unseen
    <3> QED BY <2>1, <2>2, <2>3, <2>5, <2>6, <2>7
  <2>9. ASSUME NEW u \in Thread \ {t} PROVE Approving(u)'
    <3>1. pc'[u] = "approve" => /\ approvals'[request[u].grant] = "used"
                                /\ Unseen(request[u].grant)'
      BY <1>1, <1>2, <1>3, <2>1, <2>5
    <3>2. pc'[u] = "approve" =>
            \A v \in Thread : pc'[v] = "approve" /\ request[v].grant = request[u].grant => v = u
      BY <1>1, <2>1, <2>7
    <3> HIDE DEF Unseen
    <3> QED BY <2>1, <3>1, <3>2
  <2> HIDE DEF NoNew, Approving
  <2> QED BY <1>4, <2>4, <2>8, <2>9
<1>10. ASSUME NEW t \in Thread, RecordApproved(t)
       PROVE  Goal
  <2> DEFINE r == request[t]
             s == r.session
             n == Len(evidence[s]) + 1
  <2>1. /\ r \in Request /\ s \in Session /\ r.grant \in Grant /\ pc[t] = "approve"
        /\ pc'[t] = "deliver" /\ request' = request
        /\ approvals' = approvals /\ \A u \in Thread \ {t} : pc'[u] = pc[u]
    BY <1>10 DEF RecordApproved, RequestHeld, Request, fileVars
  <2>2. /\ approvals[r.grant] = "used" /\ Unseen(r.grant)
        /\ \A u \in Thread \ {t} : pc[u] = "approve" => request[u].grant # r.grant
    BY <1>1, <2>1
  <2>3. /\ \A u \in Session \ {s} : evidence'[u] = evidence[u]
        /\ DOMAIN evidence'[s] = DOMAIN evidence[s] \cup {n} /\ n \notin DOMAIN evidence[s]
        /\ \A i \in DOMAIN evidence[s] : evidence'[s][i] = evidence[s][i]
        /\ evidence'[s][n] = [kind |-> "approved", command |-> r.command, grant |-> r.grant]
    <3>1. Log(t, "approved")
      BY <1>10 DEF RecordApproved
    <3> QED BY <2>1, <3>1, LogAppends
  <2>4. evidence'[s][n].kind = "approved" /\ evidence'[s][n].grant = r.grant
    BY <2>3
  <2> HIDE DEF n, s, r, TypeOK
  <2>5. \A u \in Session : \A i \in DOMAIN evidence'[u] :
          \/ u = s /\ i = n
          \/ i \in DOMAIN evidence[u] /\ evidence'[u][i] = evidence[u][i]
    BY <2>1, <2>3
  <2>6. Once'
    <3>1. ASSUME NEW g \in Grant, NEW u \in Session, NEW i \in DOMAIN evidence'[u],
                 IsApproval(u, i, g)'
          PROVE  \/ u = s /\ i = n /\ g = r.grant
                 \/ g # r.grant /\ i \in DOMAIN evidence[u] /\ IsApproval(u, i, g)
      <4>1. CASE u = s /\ i = n
        BY <2>4, <3>1, <4>1 DEF IsApproval
      <4>2. CASE i \in DOMAIN evidence[u] /\ evidence'[u][i] = evidence[u][i]
        BY <2>2, <3>1, <4>2 DEF IsApproval
      <4> QED BY <2>5, <4>1, <4>2
    <3> QED BY <1>1, <3>1
  <2>7. ASSUME NEW u \in Session, NEW i \in DOMAIN evidence'[u], evidence'[u][i].kind = "approved"
        PROVE  evidence'[u][i].grant \in Grant /\ approvals'[evidence'[u][i].grant] = "used"
    <3>1. CASE u = s /\ i = n
      BY <2>1, <2>2, <2>4, <3>1
    <3>2. CASE i \in DOMAIN evidence[u] /\ evidence'[u][i] = evidence[u][i]
      BY <1>1, <2>1, <2>7, <3>2
    <3> QED BY <2>5, <3>1, <3>2
  <2>8. \A u \in Thread : Approving(u)'
    <3>1. ASSUME NEW u \in Thread \ {t}, pc[u] = "approve" PROVE Unseen(request[u].grant)'
      <4>1. request[u].grant # r.grant /\ Unseen(request[u].grant) /\ request' = request
        BY <1>1, <2>1, <2>2, <3>1
      <4>2. ASSUME NEW v \in Session, NEW i \in DOMAIN evidence'[v]
            PROVE  ~IsApproval(v, i, request[u].grant)'
        <5>1. CASE v = s /\ i = n
          BY <2>4, <4>1, <5>1 DEF IsApproval
        <5>2. CASE i \in DOMAIN evidence[v] /\ evidence'[v][i] = evidence[v][i]
          BY <4>1, <5>2 DEF IsApproval
        <5> QED BY <2>5, <5>1, <5>2
      <4> QED BY <4>1, <4>2
    <3> HIDE DEF Unseen
    <3> QED BY <1>1, <2>1, <3>1
  <2> QED BY <2>6, <2>7, <2>8
<1>11. ASSUME NEW p \in Process, Crash(p)
       PROVE  Goal
  <2>1. NoNew /\ \A u \in Thread : Kept(u)
    BY <1>11 DEF Crash, outVars
  <2> HIDE DEF NoNew, Kept, Goal
  <2> QED BY <1>5, <2>1
<1>12. ASSUME Tick \/ UNCHANGED vars
       PROVE  Goal
  <2>1. UNCHANGED <<evidence, pc, request>>
    BY <1>12 DEF Tick, vars, outVars
  <2>2. NoNew /\ \A u \in Thread : Kept(u)
    BY <2>1
  <2> HIDE DEF NoNew, Kept, Goal
  <2> QED BY <1>5, <2>2
<1> HIDE DEF Goal
<1> QED BY <1>7, <1>8, <1>9, <1>10, <1>11, <1>12 DEF Next, HandlerStep

\* A grant lets one command through, to one terminal.
LEMMA NextDeliveredOnce ==
  ASSUME TypeOK, RequestHeld, DeliverApproved, Delivers, ApprovedOnce, DeliveredOnce, [Next]_vars
  PROVE  DeliveredOnce'
<1> DEFINE Once == \A g \in Grant, s1, s2 \in Session :
                     \A i \in DOMAIN terminal[s1], j \in DOMAIN terminal[s2] :
                       IsDelivery(s1, i, g) /\ IsDelivery(s2, j, g) => s1 = s2 /\ i = j
           Unsent(g) == \A s \in Session : \A i \in DOMAIN terminal[s] : ~IsDelivery(s, i, g)
           Alone(t) == \A u \in Thread : Delivering(u) /\ request[u].grant = request[t].grant => u = t
           Kept(t) == Delivering(t)' => Delivering(t) /\ request'[t] = request[t]
           Goal == Once' /\ \A t \in Thread : Delivering(t)' => Unsent(request[t].grant)' /\ Alone(t)'
<1>1. Once /\ \A t \in Thread : Delivering(t) => Unsent(request[t].grant) /\ Alone(t)
  BY DEF DeliveredOnce
<1> SUFFICES Goal
  BY DEF DeliveredOnce
<1>2. ASSUME terminal' = terminal, \A t \in Thread : Kept(t)
      PROVE  Goal
  <2>1. Once'
    BY <1>1, <1>2 DEF IsDelivery
  <2>2. ASSUME NEW t \in Thread, Delivering(t)' PROVE Unsent(request[t].grant)' /\ Alone(t)'
    <3>1. Delivering(t) /\ request'[t] = request[t]
      BY <1>2, <2>2
    <3>2. Unsent(request[t].grant)'
      BY <1>1, <1>2, <3>1 DEF IsDelivery
    <3>3. Alone(t)'
      BY <1>1, <1>2, <3>1
    <3> QED BY <3>2, <3>3
  <2> QED BY <2>1, <2>2
<1> USE DEF TypeOK, Goto, Return
<1>3. ASSUME NEW t \in Thread, NEW s \in Session, NEW c \in Command,
             NEW g \in Grant \cup {NoGrant}, SendCall(t, s, c, g)
      PROVE  Goal
  <2>1. terminal' = terminal
    BY <1>3 DEF SendCall, outVars
  <2>2. request'[t].command = c /\ \A u \in Thread \ {t} : pc'[u] = pc[u] /\ request'[u] = request[u]
    BY <1>3 DEF SendCall
  <2>3. pc'[t] = "deliver" => ~Gated(c)
    BY <1>3 DEF SendCall, Gated, Denied
  <2>4. \A u \in Thread : Kept(u)
    BY <2>2, <2>3 DEF Delivering
  <2> HIDE DEF Kept, Goal
  <2> QED BY <1>2, <2>1, <2>4
<1>a. ASSUME NEW t \in Thread, NEW s \in Session, NEW c \in Command, AttachInput(t, s, c)
      PROVE  Goal
  <2>1. terminal' = terminal
    BY <1>a DEF AttachInput, outVars
  <2>2. /\ request'[t].grant \notin Grant
        /\ \A u \in Thread \ {t} : pc'[u] = pc[u] /\ request'[u] = request[u]
    BY <1>a, GateAssumption DEF AttachInput
  <2>3. \A u \in Thread : Kept(u)
    BY <2>2 DEF Delivering
  <2> HIDE DEF Kept, Goal
  <2> QED BY <1>2, <2>1, <2>3
<1>4. ASSUME NEW t \in Thread,
             \/ \E s \in Session, c \in Command, g \in Grant, ttl \in Ttl :
                  ApproveCall(t, s, c, g, ttl)
             \/ LockApprovals(t) \/ ReadToConsume(t) \/ ReadToCreate(t) \/ ReadFails(t)
             \/ Truncate(t) \/ WriteApprovals(t) \/ WriteFails(t) \/ RecordDenied(t)
             \/ RecordSend(t) \/ RecordCreated(t) \/ StepFails(t)
      PROVE  Goal
  <2>1. terminal' = terminal
    BY <1>4 DEF ApproveCall, LockApprovals, ReadToConsume, ReadToCreate, ReadFails, Truncate,
                WriteApprovals, WriteFails, RecordDenied, RecordSend, RecordCreated, StepFails,
                outVars
  <2>2. pc'[t] # "deliver" /\ \A u \in Thread \ {t} : pc'[u] = pc[u] /\ request'[u] = request[u]
    BY <1>4 DEF ApproveCall, LockApprovals, ReadToConsume, ReadToCreate, ReadFails, Truncate,
                WriteApprovals, WriteFails, RecordDenied, RecordSend, RecordCreated, StepFails
  <2>3. \A u \in Thread : Kept(u)
    BY <2>2 DEF Delivering
  <2> HIDE DEF Kept, Goal
  <2> QED BY <1>2, <2>1, <2>3
<1>5. ASSUME NEW t \in Thread, RecordApproved(t)
      PROVE  Goal
  <2> DEFINE g == request[t].grant
  <2>1. /\ terminal' = terminal /\ request' = request /\ pc[t] = "approve"
        /\ \A u \in Thread \ {t} : pc'[u] = pc[u]
    BY <1>5 DEF RecordApproved
  <2>2. g \in Grant
    BY <2>1 DEF RequestHeld
  <2>3. \A s \in Session : \A i \in DOMAIN evidence[s] : ~IsApproval(s, i, g)
    BY <2>1 DEF ApprovedOnce
  <2>4. ASSUME NEW s \in Session, NEW c PROVE ~Recorded(s, c, g)
    <3>1. SUFFICES ASSUME NEW i \in DOMAIN evidence[s],
                          evidence[s][i] = [kind |-> "approved", command |-> c, grant |-> g]
                   PROVE  FALSE
      BY DEF Recorded
    <3>2. evidence[s][i].kind = "approved" /\ evidence[s][i].grant = g
      BY <3>1
    <3> QED BY <2>3, <3>2 DEF IsApproval
  <2>5. Unsent(g)
    BY <2>2, <2>4, GateAssumption DEF Delivers, MayGet, IsDelivery
  <2>6. \A u \in Thread : pc[u] = "deliver" => request[u].session \in Session
    BY DEF RequestHeld, Request
  <2>7. \A u \in Thread : Delivering(u) => request[u].grant # g
    BY <2>2, <2>4, <2>6, GateAssumption DEF Delivering, DeliverApproved, MayGet, InputOf
  <2> HIDE DEF g, TypeOK
  <2>8. \A u \in Thread \ {t} : Delivering(u)' => Delivering(u)
    BY <2>1 DEF Delivering
  <2>9. Once'
    BY <1>1, <2>1 DEF IsDelivery
  <2>10. Unsent(request[t].grant)' /\ Alone(t)'
    <3>1. Unsent(g)'
      BY <2>1, <2>5 DEF g, IsDelivery
    <3>2. Alone(t)'
      BY <2>1, <2>7, <2>8 DEF g
    <3> QED BY <2>1, <3>1, <3>2 DEF g
  <2>11. ASSUME NEW u \in Thread \ {t}, Delivering(u)'
         PROVE  Unsent(request[u].grant)' /\ Alone(u)'
    <3>1. Delivering(u) /\ request[u].grant # g
      BY <2>7, <2>8, <2>11
    <3>2. Unsent(request[u].grant)'
      BY <1>1, <2>1, <3>1 DEF IsDelivery
    <3>3. Alone(u)'
      BY <1>1, <2>1, <2>8, <3>1 DEF g
    <3> QED BY <3>2, <3>3
  <2> QED BY <2>9, <2>10, <2>11
<1>6. ASSUME NEW t \in Thread, Deliver(t)
      PROVE  Goal
  <2> DEFINE r == request[t]
             d == InputOf(t)
             written == terminal[r.session]
             n == Len(written) + 1
  <2>1. r.session \in Session /\ pc[t] = "deliver" /\ d.command = r.command /\ d.grant = r.grant
    BY <1>6 DEF Deliver, RequestHeld, Request, InputOf
  <2>2. /\ terminal'[r.session] = Append(written, d)
        /\ \A s \in Session \ {r.session} : terminal'[s] = terminal[s]
        /\ request' = request /\ pc'[t] = "record" /\ \A u \in Thread \ {t} : pc'[u] = pc[u]
    BY <1>6, <2>1 DEF Deliver
  <2>3. written \in Seq(Input)
    BY <2>1
  <2>4. \A s \in Session : \A i \in DOMAIN terminal'[s] :
          \/ s = r.session /\ i = n /\ terminal'[s][i] = d
          \/ i \in DOMAIN terminal[s] /\ terminal'[s][i] = terminal[s][i]
    <3> HIDE DEF d, r, written, TypeOK
    <3>1. \A i \in DOMAIN Append(written, d) :
            \/ i = n /\ Append(written, d)[i] = d
            \/ i \in DOMAIN written /\ Append(written, d)[i] = written[i]
      BY <2>3
    <3>2. \A i \in DOMAIN terminal'[r.session] :
            \/ i = n /\ terminal'[r.session][i] = d
            \/ i \in DOMAIN written /\ terminal'[r.session][i] = written[i]
      BY <2>2, <3>1
    <3>3. written = terminal[r.session]
      BY DEF written
    <3> HIDE DEF n
    <3> QED BY <2>2, <3>2, <3>3
  <2> HIDE DEF d, n, TypeOK
  <2>5. \A u \in Thread : Delivering(u)' => u # t /\ Delivering(u)
    BY <2>2 DEF Delivering
  <2>6. Gated(d.command) /\ r.grant \in Grant => Unsent(r.grant)
    BY <1>1, <2>1 DEF Delivering
  <2>7. ASSUME NEW s \in Session, NEW i \in DOMAIN terminal'[s], NEW g \in Grant,
               IsDelivery(s, i, g)'
        PROVE  \/ s = r.session /\ i = n /\ Gated(d.command) /\ g = r.grant
               \/ /\ i \in DOMAIN terminal[s] /\ IsDelivery(s, i, g)
                  /\ Gated(d.command) => g # r.grant
    <3>1. CASE s = r.session /\ i = n /\ terminal'[s][i] = d
      BY <2>1, <2>7, <3>1 DEF IsDelivery
    <3>2. CASE i \in DOMAIN terminal[s] /\ terminal'[s][i] = terminal[s][i]
      BY <2>6, <2>7, <3>2 DEF IsDelivery
    <3> QED BY <2>4, <3>1, <3>2
  <2>8. Once'
    <3>1. ASSUME NEW g \in Grant, NEW s1 \in Session, NEW s2 \in Session,
                 NEW i \in DOMAIN terminal'[s1], NEW j \in DOMAIN terminal'[s2],
                 IsDelivery(s1, i, g)', IsDelivery(s2, j, g)'
          PROVE  s1 = s2 /\ i = j
      <4> HIDE DEF r
      <4> QED BY <1>1, <2>7, <3>1
    <3> QED BY <3>1
  <2>9. ASSUME NEW u \in Thread, Delivering(u)'
        PROVE  Unsent(request[u].grant)' /\ Alone(u)'
    <3>1. /\ u # t /\ Delivering(u) /\ Unsent(request[u].grant) /\ Alone(u)
          /\ request'[u].grant = request[u].grant /\ request[u].grant \in Grant
      BY <1>1, <2>2, <2>5, <2>9 DEF Delivering
    <3>2. Gated(d.command) => request[u].grant # r.grant
      BY <2>1, <3>1 DEF Delivering
    <3>3. Unsent(request[u].grant)'
      <4>1. \A s \in Session : \A i \in DOMAIN terminal[s] : ~IsDelivery(s, i, request[u].grant)
        BY <3>1
      <4>2. ASSUME NEW s \in Session, NEW i \in DOMAIN terminal'[s], NEW g \in Grant,
                   IsDelivery(s, i, g)'
            PROVE  g # request[u].grant
        <5> HIDE DEF r
        <5> QED BY <2>7, <3>2, <4>1, <4>2
      <4> QED BY <3>1, <4>2
    <3>4. Alone(u)'
      <4>1. request' = request
        BY <2>2
      <4>2. ASSUME NEW v \in Thread, Delivering(v)', request'[v].grant = request'[u].grant
            PROVE  v = u
        BY <2>5, <3>1, <4>1, <4>2
      <4> QED BY <4>2
    <3> QED BY <3>3, <3>4
  <2> QED BY <2>8, <2>9
<1>7. ASSUME NEW p \in Process, Crash(p)
      PROVE  Goal
  <2>1. terminal' = terminal /\ \A u \in Thread : Kept(u)
    BY <1>7 DEF Crash, outVars, Delivering
  <2> HIDE DEF Kept, Goal
  <2> QED BY <1>2, <2>1
<1>8. ASSUME Tick \/ UNCHANGED vars
      PROVE  Goal
  <2>1. UNCHANGED <<terminal, pc, request>>
    BY <1>8 DEF Tick, vars, outVars
  <2>2. \A u \in Thread : Kept(u)
    BY <2>1 DEF Delivering
  <2> HIDE DEF Kept, Goal
  <2> QED BY <1>2, <2>1, <2>2
<1> HIDE DEF Goal
<1> QED BY <1>3, <1>a, <1>4, <1>5, <1>6, <1>7, <1>8 DEF Next, HandlerStep

\* Clients forget no grant, and a request keeps the one it came with.
LEMMA NextPresented ==
  ASSUME TypeOK, Presented, [Next]_vars
  PROVE  Presented'
<1> USE DEF Presented, TypeOK, Goto, Return
<1>1. ASSUME NEW t \in Thread, NEW s \in Session, NEW c \in Command,
             NEW g \in Grant \cup {NoGrant}, SendCall(t, s, c, g)
      PROVE  Presented'
  <2>1. issued' = issued /\ g \in issued \cup {NoGrant} /\ request'[t].grant = g
    BY <1>1 DEF SendCall
  <2>2. \A u \in Thread \ {t} : pc'[u] = pc[u] /\ request'[u] = request[u]
    BY <1>1 DEF SendCall
  <2> QED BY <2>1, <2>2
<1>a. ASSUME NEW t \in Thread, NEW s \in Session, NEW c \in Command, AttachInput(t, s, c)
      PROVE  Presented'
  <2>1. issued' = issued /\ request'[t].op = "attach"
    BY <1>a DEF AttachInput
  <2>2. \A u \in Thread \ {t} : pc'[u] = pc[u] /\ request'[u] = request[u]
    BY <1>a DEF AttachInput
  <2> QED BY <2>1, <2>2
<1>2. ASSUME NEW t \in Thread, NEW s \in Session, NEW c \in Command, NEW g \in Grant,
             NEW ttl \in Ttl, ApproveCall(t, s, c, g, ttl)
      PROVE  Presented'
  <2>1. issued' = issued /\ request'[t].op = "approve"
    BY <1>2 DEF ApproveCall
  <2>2. \A u \in Thread \ {t} : pc'[u] = pc[u] /\ request'[u] = request[u]
    BY <1>2 DEF ApproveCall
  <2> QED BY <2>1, <2>2
<1>3. ASSUME NEW t \in Thread, HandlerStep(t) \/ WriteFails(t) \/ StepFails(t)
      PROVE  Presented'
  <2>1. issued \subseteq issued'
    BY <1>3 DEF HandlerStep, LockApprovals, ReadToConsume, ReadToCreate, ReadFails, Truncate,
                WriteApprovals, WriteFails, RecordApproved, RecordDenied, Deliver, RecordSend,
                RecordCreated, StepFails
  <2>2. /\ pc'[t] = "idle" \/ (pc[t] # "idle" /\ request'[t] = request[t])
        /\ \A u \in Thread \ {t} : pc'[u] = pc[u] /\ request'[u] = request[u]
    BY <1>3 DEF HandlerStep, LockApprovals, ReadToConsume, ReadToCreate, ReadFails, Truncate,
                WriteApprovals, WriteFails, RecordApproved, RecordDenied, Deliver, RecordSend,
                RecordCreated, StepFails
  <2> QED BY <2>1, <2>2
<1>4. ASSUME (\E p \in Process : Crash(p)) \/ Tick \/ UNCHANGED vars
      PROVE  Presented'
  BY <1>4 DEF Crash, Tick, vars
<1> QED BY <1>1, <1>a, <1>2, <1>3, <1>4 DEF Next

----------------------------------------------------------------------------
(* Theorems for one process.                                               *)

\* The invariant of the one-process gate holds at first and at every step.
LEMMA OneInvariant == ASSUME OneProcess PROVE Spec => []OInv
<1>1. Init => OInv
  <2>1. Init => IInv
    BY InitIInv
  <2>2. Init => Mutex /\ FileParses /\ CopyIsFresh /\ CreatedOnce
    BY DEF Init, HoldsLock, Mutex, FileParses, CopyIsFresh, CreatedOnce, Creating
  <2>3. Init => ApprovedOnce /\ DeliveredOnce /\ Presented
    BY DEF Init, ApprovedOnce, DeliveredOnce, Delivering, Presented
  <2> QED BY <2>1, <2>2, <2>3 DEF OInv
<1>2. OInv /\ [Next]_vars => OInv'
  BY NextIInv, NextMutex, NextFileParses, NextCopyIsFresh, NextCreatedOnce, NextApprovedOnce, NextDeliveredOnce,
     NextPresented DEF OInv, IInv
<1> QED BY <1>1, <1>2, PTL DEF Spec

\* A set without two elements has at most one.
LEMMA AtMostOne ==
  ASSUME NEW S, \A x, y \in S : x = y
  PROVE  Cardinality(S) <= 1
<1>1. CASE S = {}
  BY <1>1, FS_EmptySet
<1>2. CASE S # {}
  <2>1. PICK x \in S : TRUE
    BY <1>2
  <2>2. S = {x}
    BY <2>1
  <2> QED BY <2>2, FS_Singleton
<1> QED BY <1>1, <1>2

\* With one process a token is approved once and delivers one command at most,
\* whatever sends race for it and whenever the process dies.
THEOREM OneTime == ASSUME OneProcess PROVE Spec => []SpentOnce
<1>1. OInv => SpentOnce
  <2> SUFFICES ASSUME OInv, NEW g \in Grant
               PROVE  /\ \A s \in Session : Approved(s, g) <= 1 /\ Delivered(s, g) <= 1
                      /\ Cardinality({s \in Session : Approved(s, g) > 0}) <= 1
    BY DEF SpentOnce
  <2> DEFINE approvalsIn(s) == {i \in DOMAIN evidence[s] : /\ evidence[s][i].kind = "approved"
                                                           /\ evidence[s][i].grant = g}
  <2>1. \A s \in Session : Approved(s, g) <= 1
    <3>1. ASSUME NEW s \in Session PROVE Cardinality(approvalsIn(s)) <= 1
      <4>1. \A i, j \in approvalsIn(s) : i = j
        BY DEF OInv, ApprovedOnce, IsApproval
      <4> HIDE DEF approvalsIn
      <4> QED BY <4>1, AtMostOne
    <3> QED BY <3>1 DEF Approved, ApprovedAt
  <2>2. ASSUME NEW s \in Session PROVE Delivered(s, g) <= 1
    <3> DEFINE sent == {i \in DOMAIN terminal[s] : /\ Gated(terminal[s][i].command)
                                                   /\ terminal[s][i].grant = g}
    <3>1. \A i, j \in sent : i = j
      BY DEF OInv, DeliveredOnce, IsDelivery
    <3>2. Delivered(s, g) = Cardinality(sent)
      BY DEF Delivered, DeliveredAt
    <3> HIDE DEF sent
    <3> QED BY <3>1, <3>2, AtMostOne
  <2>3. Cardinality({s \in Session : Approved(s, g) > 0}) <= 1
    <3>1. ASSUME NEW s \in Session, Approved(s, g) > 0 PROVE approvalsIn(s) # {}
      BY <3>1, FS_EmptySet DEF Approved, ApprovedAt
    <3>2. \A s1, s2 \in Session : approvalsIn(s1) # {} /\ approvalsIn(s2) # {} => s1 = s2
      BY DEF OInv, ApprovedOnce, IsApproval
    <3>3. \A s1, s2 \in {s \in Session : Approved(s, g) > 0} : s1 = s2
      BY <3>1, <3>2
    <3> QED BY <3>3, AtMostOne
  <2> QED BY <2>1, <2>2, <2>3
<1> QED BY <1>1, OneInvariant, PTL

\* With one process no rewriting of policy-approvals.json loses the record of a
\* grant that a client holds: whenever the file parses, the record is in it.  (A
\* crash or a failed write that leaves the file empty or torn loses every record;
\* read_policy_approvals then fails.)
IssuedNotLost == file = "whole" => \A g \in issued : approvals[g] # "none"

THEOREM NothingLost == ASSUME OneProcess PROVE Spec => []IssuedNotLost
<1>1. OInv => IssuedNotLost
  BY DEF OInv, CreatedOnce, IssuedNotLost
<1> QED BY <1>1, OneInvariant, PTL

\* With one process and without faults the file parses when nobody rewrites it,
\* and what is spent is recorded in a log, or is about to be
\* (record_policy_approved).
THEOREM SpendingRecorded == ASSUME OneProcess PROVE Spec => []SpentIsRecorded
<1>1. OInv => SpentIsRecorded
  <2> SUFFICES ASSUME OInv, faults = 0 PROVE SpentIsRecorded
    BY DEF SpentIsRecorded
  <2>1. (\A t \in Thread : pc[t] # "write") => file = "whole"
    BY DEF OInv, FileParses
  <2>2. ASSUME NEW g \in Grant, approvals[g] = "used"
        PROVE  \/ \E s \in Session : Approved(s, g) > 0
               \/ \E t \in Thread : pc[t] = "approve" /\ request[t].grant = g
    BY <2>2, ApprovedCounts DEF OInv, IInv, SpentSeen, Spending
  <2> QED BY <2>1, <2>2 DEF SpentIsRecorded
<1> QED BY <1>1, OneInvariant, PTL

----------------------------------------------------------------------------
(* The approvals are one-time grants.                                      *)

\* What is in the places of a grant.
LEMMA InPlaces ==
  ASSUME NEW g \in Grant
  PROVE  /\ \A x : x \in RecordsOf(g) <=>
                     \E s \in Session : \E i \in ApprovedAt(s, g) : x = Place(s, evidence[s], i)
         /\ \A x : x \in ThroughsOf(g) <=>
                     \E s \in Session : \E i \in DeliveredAt(s, g) : x = Place(s, terminal[s], i)
BY DEF RecordsOf, ThroughsOf

\* Nothing is made, told, recorded or let through at first.
LEMMA InitGrants == Init => Grants!Init
<1> SUFFICES ASSUME Init PROVE Grants!Init
  OBVIOUS
<1>1. \A g \in Grant : RecordsOf(g) = {} /\ ThroughsOf(g) = {}
  BY InPlaces DEF Init, ApprovedAt, DeliveredAt
<1> QED BY <1>1 DEF Init, NoApprovals, Grants!Init

\* Where the logs keep their places and gain no approval, the records stay.
LEMMA RecordsStay ==
  ASSUME \A s \in Session : \A i \in DOMAIN evidence'[s] :
           \/ i \in DOMAIN evidence[s] /\ evidence'[s][i] = evidence[s][i]
           \/ i \notin DOMAIN evidence[s] /\ evidence'[s][i].kind # "approved",
         \A s \in Session : \A i \in DOMAIN evidence[s] :
           i \in DOMAIN evidence'[s] /\ evidence'[s][i] = evidence[s][i]
  PROVE  [g \in Grant |-> RecordsOf(g)]' = [g \in Grant |-> RecordsOf(g)]
<1>1. ASSUME NEW g \in Grant PROVE RecordsOf(g)' = RecordsOf(g)
  <2>1. ASSUME NEW s \in Session
        PROVE  {Place(s, evidence[s], i) : i \in ApprovedAt(s, g)}'
                 = {Place(s, evidence[s], i) : i \in ApprovedAt(s, g)}
    <3>1. ApprovedAt(s, g)' = ApprovedAt(s, g)
      BY DEF ApprovedAt
    <3>2. \A i \in ApprovedAt(s, g) : Place(s, evidence[s], i)' = Place(s, evidence[s], i)
      BY DEF ApprovedAt, Place
    <3> QED BY <3>1, <3>2
  <2> QED BY <2>1 DEF RecordsOf
<1> QED BY <1>1

\* The write of the file makes the grant of an approval or spends that of a send,
\* the answer to an approval tells of it, the two steps of a send that was let in
\* record it and let its command through; every other step is a stutter.
LEMMA NextGrants == OInv /\ [Next]_vars => [Grants!Next]_(Grants!grantVars)
<1> SUFFICES ASSUME OInv, [Next]_vars
             PROVE  Grants!Next \/ UNCHANGED Grants!grantVars
  OBVIOUS
<1> DEFINE records == [g \in Grant |-> RecordsOf(g)]
           throughs == [g \in Grant |-> ThroughsOf(g)]
<1>0. /\ TypeOK /\ RequestHeld /\ DeliverApproved /\ CopyIsFresh /\ CreatedOnce
      /\ ApprovedOnce /\ DeliveredOnce /\ Presented
  BY DEF OInv, IInv
<1>a. evidence' = evidence => records' = records
  BY DEF RecordsOf, ApprovedAt, Place
<1>b. terminal' = terminal => throughs' = throughs
  BY DEF ThroughsOf, DeliveredAt, Place
<1> HIDE DEF records, throughs
<1>1. ASSUME NEW t \in Thread,
             \/ \E s \in Session, c \in Command, g \in Grant \cup {NoGrant} : SendCall(t, s, c, g)
             \/ \E s \in Session, c \in Command : AttachInput(t, s, c)
             \/ \E s \in Session, c \in Command, g \in Grant, ttl \in Ttl :
                  ApproveCall(t, s, c, g, ttl)
             \/ LockApprovals(t) \/ ReadToConsume(t) \/ ReadToCreate(t) \/ ReadFails(t)
             \/ Truncate(t) \/ WriteFails(t) \/ StepFails(t)
      PROVE  UNCHANGED Grants!grantVars
  <2>1. UNCHANGED <<approvals, issued, evidence, terminal>>
    BY <1>1 DEF SendCall, AttachInput, ApproveCall, LockApprovals, ReadToConsume, ReadToCreate, ReadFails,
                Truncate, WriteFails, StepFails, fileVars, outVars
  <2> QED BY <1>a, <1>b, <2>1 DEF Grants!grantVars, records, throughs
<1>2. ASSUME (\E p \in Process : Crash(p)) \/ Tick \/ UNCHANGED vars
      PROVE  UNCHANGED Grants!grantVars
  <2>1. UNCHANGED <<approvals, issued, evidence, terminal>>
    BY <1>2 DEF Crash, Tick, vars, fileVars, outVars
  <2> QED BY <1>a, <1>b, <2>1 DEF Grants!grantVars, records, throughs
<1>3. ASSUME NEW t \in Thread, WriteApprovals(t)
      PROVE  Grants!Next
  <2> DEFINE g == request[t].grant
  <2>1. /\ pc[t] = "write" /\ approvals' = copy[t] /\ g \in Grant
        /\ issued' = issued /\ records' = records /\ throughs' = throughs
    BY <1>0, <1>3, <1>a, <1>b DEF WriteApprovals, RequestHeld, outVars
  <2>2. CASE request[t].op = "send"
    <3>1. approvals' = [approvals EXCEPT ![g] = "used"] /\ approvals[g] = "unused"
      BY <1>0, <2>1, <2>2 DEF CopyIsFresh
    <3>2. g \in issued
      BY <1>0, <2>1, <2>2, GateAssumption DEF Presented
    <3>3. Grants!Spend(g)
      BY <2>1, <3>1, <3>2 DEF Grants!Spend, records, throughs
    <3> QED BY <2>1, <3>3 DEF Grants!Next
  <2>3. CASE request[t].op # "send"
    <3>1. request[t].op = "approve"
      BY <1>0, <2>1, <2>3 DEF RequestHeld, Request
    <3>2. approvals' = [approvals EXCEPT ![g] = "unused"]
      BY <1>0, <2>1, <2>3 DEF CopyIsFresh
    <3>3. approvals[g] = "none"
      BY <1>0, <2>1, <3>1 DEF CreatedOnce, Creating
    <3>4. Grants!Make(g)
      BY <2>1, <3>2, <3>3 DEF Grants!Make, records, throughs
    <3> QED BY <2>1, <3>4 DEF Grants!Next
  <2> QED BY <2>2, <2>3
<1>4. ASSUME NEW t \in Thread, RecordDenied(t) \/ RecordSend(t) \/ RecordCreated(t)
      PROVE  records' = records
  <2> DEFINE s == request[t].session
             n == Len(evidence[s]) + 1
  <2>1. request[t] \in Request /\ s \in Session
    BY <1>0, <1>4 DEF RecordDenied, RecordSend, RecordCreated, RequestHeld, Request
  <2>2. PICK kind \in {"created", "denied", "send"} : Log(t, kind)
    BY <1>4 DEF RecordDenied, RecordSend, RecordCreated
  <2>3. /\ \A u \in Session \ {s} : evidence'[u] = evidence[u]
        /\ DOMAIN evidence'[s] = DOMAIN evidence[s] \cup {n} /\ n \notin DOMAIN evidence[s]
        /\ \A i \in DOMAIN evidence[s] : evidence'[s][i] = evidence[s][i]
        /\ evidence'[s][n].kind # "approved"
    <3> DEFINE named == IF kind \in {"created", "approved"} THEN request[t].grant ELSE NoGrant
    <3>1. evidence'[s][n] = [kind |-> kind, command |-> request[t].command, grant |-> named]
      BY <1>0, <2>1, <2>2, LogAppends
    <3>2. evidence'[s][n].kind # "approved"
      BY <3>1
    <3> HIDE DEF named
    <3> QED BY <1>0, <2>1, <2>2, <3>2, LogAppends
  <2> HIDE DEF s, n
  <2> QED BY <2>3, RecordsStay DEF records
<1>5. ASSUME NEW t \in Thread, RecordDenied(t) \/ RecordSend(t)
      PROVE  UNCHANGED Grants!grantVars
  <2>1. UNCHANGED <<approvals, issued, terminal>>
    BY <1>5 DEF RecordDenied, RecordSend, fileVars
  <2> QED BY <1>4, <1>5, <1>b, <2>1 DEF Grants!grantVars, records, throughs
<1>6. ASSUME NEW t \in Thread, RecordCreated(t)
      PROVE  Grants!Next
  <2> DEFINE g == request[t].grant
  <2>1. /\ approvals' = approvals /\ terminal' = terminal /\ issued' = issued \cup {g}
        /\ g \in Grant /\ approvals[g] # "none"
    BY <1>0, <1>6 DEF RecordCreated, RequestHeld, CreatedOnce, fileVars
  <2>2. Grants!Tell(g)
    BY <1>4, <1>6, <1>b, <2>1 DEF Grants!Tell, records, throughs
  <2> QED BY <2>1, <2>2 DEF Grants!Next
<1>7. ASSUME NEW t \in Thread, RecordApproved(t)
      PROVE  Grants!Next
  <2> DEFINE r == request[t]
             s == r.session
             n == Len(evidence[s]) + 1
  <2> PICK g : g = r.grant
    OBVIOUS
  <2>1. /\ pc[t] = "approve" /\ r \in Request /\ s \in Session /\ g \in Grant
        /\ UNCHANGED <<approvals, issued>> /\ throughs' = throughs
    BY <1>0, <1>7, <1>b DEF RecordApproved, RequestHeld, Request, fileVars
  <2>2. approvals[g] = "used" /\ \A u \in Session : ApprovedAt(u, g) = {}
    BY <1>0, <2>1 DEF ApprovedOnce, IsApproval, ApprovedAt
  <2>3. /\ \A u \in Session \ {s} : evidence'[u] = evidence[u]
        /\ DOMAIN evidence'[s] = DOMAIN evidence[s] \cup {n} /\ n \notin DOMAIN evidence[s]
        /\ \A i \in DOMAIN evidence[s] : evidence'[s][i] = evidence[s][i]
        /\ evidence'[s][n] = [kind |-> "approved", command |-> r.command, grant |-> g]
    <3>1. Log(t, "approved")
      BY <1>7 DEF RecordApproved
    <3> QED BY <1>0, <2>1, <3>1, LogAppends
  <2>4. evidence'[s][n].kind = "approved" /\ evidence'[s][n].grant = g
    BY <2>3
  <2> HIDE DEF n, s, r
  <2>5. \A u \in Session : ApprovedAt(u, g)' = IF u = s THEN {n} ELSE {}
    BY <2>2, <2>3, <2>4 DEF ApprovedAt
  <2>6. \A h \in Grant \ {g}, u \in Session :
          /\ ApprovedAt(u, h)' = ApprovedAt(u, h)
          /\ \A i \in ApprovedAt(u, h) : evidence'[u][i] = evidence[u][i]
    BY <2>3, <2>4 DEF ApprovedAt
  <2>7. RecordsOf(g) = {} /\ RecordsOf(g)' = {Place(s, evidence'[s], n)}
    <3>1. RecordsOf(g) = {}
      BY <2>1, <2>2, InPlaces
    <3>2. RecordsOf(g)' = UNION {{Place(u, evidence'[u], i) : i \in ApprovedAt(u, g)'} : u \in Session}
      BY DEF RecordsOf, Place
    <3>3. RecordsOf(g)' = {Place(s, evidence'[s], n)}
      BY <2>1, <2>5, <3>2
    <3> QED BY <3>1, <3>3
  <2>8. \A h \in Grant \ {g} : RecordsOf(h)' = RecordsOf(h)
    <3>1. ASSUME NEW h \in Grant \ {g}, NEW u \in Session
          PROVE  {Place(u, evidence'[u], i) : i \in ApprovedAt(u, h)'}
                   = {Place(u, evidence[u], i) : i \in ApprovedAt(u, h)}
      BY <2>6 DEF Place
    <3> QED BY <3>1 DEF RecordsOf, Place
  <2>9. records' = [records EXCEPT ![g] = {Place(s, evidence'[s], n)}]
    BY <2>1, <2>7, <2>8 DEF records
  <2>10. records[g] = {} /\ records'[g] = {Place(s, evidence'[s], n)}
    BY <2>1, <2>7 DEF records
  <2>11. \E p \in records'[g] : records' = [records EXCEPT ![g] = {p}]
    BY <2>9, <2>10
  <2>12. Grants!Record(g)
    BY <2>1, <2>2, <2>10, <2>11 DEF Grants!Record, records, throughs
  <2> QED BY <2>1, <2>12 DEF Grants!Next
<1>8. ASSUME NEW t \in Thread, Deliver(t)
      PROVE  Grants!Next \/ UNCHANGED Grants!grantVars
  <2> PICK g : g = request[t].grant
    OBVIOUS
  <2> DEFINE r == request[t]
             s == r.session
             d == InputOf(t)
             n == Len(terminal[s]) + 1
  <2>1. /\ pc[t] = "deliver" /\ r \in Request /\ s \in Session
        /\ UNCHANGED <<approvals, issued>> /\ records' = records
    BY <1>0, <1>8, <1>a DEF Deliver, RequestHeld, Request, fileVars
  <2>2. terminal' = [terminal EXCEPT ![s] = Append(terminal[s], d)]
    BY <1>8 DEF Deliver
  <2>3. /\ \A u \in Session \ {s} : terminal'[u] = terminal[u]
        /\ DOMAIN terminal'[s] = DOMAIN terminal[s] \cup {n} /\ n \notin DOMAIN terminal[s]
        /\ \A i \in DOMAIN terminal[s] : terminal'[s][i] = terminal[s][i]
        /\ terminal'[s][n] = d
    <3>1. terminal[s] \in Seq(Input)
      BY <1>0, <2>1 DEF TypeOK
    <3>2. terminal'[s] = Append(terminal[s], d) /\ \A u \in Session \ {s} : terminal'[u] = terminal[u]
      BY <1>0, <2>1, <2>2 DEF TypeOK
    <3> HIDE DEF d, s
    <3> QED BY <3>1, <3>2
  <2>4. d.command = r.command /\ d.grant = g
    BY DEF InputOf
  <2> HIDE DEF d, n, s
  <2>5. \A h \in Grant, u \in Session : ~(Gated(r.command) /\ h = g) =>
          /\ DeliveredAt(u, h)' = DeliveredAt(u, h)
          /\ \A i \in DeliveredAt(u, h) : terminal'[u][i] = terminal[u][i]
    <3>1. ASSUME NEW h \in Grant, NEW u \in Session, ~(Gated(r.command) /\ h = g)
          PROVE  /\ DeliveredAt(u, h)' = DeliveredAt(u, h)
                 /\ \A i \in DeliveredAt(u, h) : terminal'[u][i] = terminal[u][i]
      <4> HIDE DEF r
      <4>1. CASE u = s
        BY <2>3, <2>4, <3>1, <4>1 DEF DeliveredAt
      <4>2. CASE u # s
        BY <2>3, <4>2 DEF DeliveredAt
      <4> QED BY <4>1, <4>2
    <3> QED BY <3>1
  <2>6. \A h \in Grant : ~(Gated(r.command) /\ h = g) => ThroughsOf(h)' = ThroughsOf(h)
    <3>1. ASSUME NEW h \in Grant, NEW u \in Session, ~(Gated(r.command) /\ h = g)
          PROVE  {Place(u, terminal'[u], i) : i \in DeliveredAt(u, h)'}
                   = {Place(u, terminal[u], i) : i \in DeliveredAt(u, h)}
      <4>1. /\ DeliveredAt(u, h)' = DeliveredAt(u, h)
            /\ \A i \in DeliveredAt(u, h) : terminal'[u][i] = terminal[u][i]
        BY <2>5, <3>1
      <4> QED BY <4>1 DEF Place
    <3> QED BY <3>1 DEF ThroughsOf, Place
  <2>7. CASE ~(Gated(r.command) /\ g \in Grant)
    <3>1. throughs' = throughs
      BY <2>6, <2>7 DEF throughs
    <3> QED BY <2>1, <3>1 DEF Grants!grantVars, records, throughs
  <2>8. CASE Gated(r.command) /\ g \in Grant
    <3>1. Recorded(s, r.command, g)
      BY <1>0, <2>1, <2>8, GateAssumption DEF DeliverApproved, MayGet, InputOf, s
    <3>2. PICK i \in DOMAIN evidence[s] :
            evidence[s][i] = [kind |-> "approved", command |-> r.command, grant |-> g]
      BY <3>1 DEF Recorded
    <3>3. evidence[s][i].kind = "approved" /\ evidence[s][i].grant = g
          /\ evidence[s][i].command = r.command
      BY <3>2
    <3>4. g \in Grant
      BY <2>8
    <3>5. Place(s, evidence[s], i) \in records[g]
      BY <2>1, <3>3, <3>4, InPlaces DEF ApprovedAt, records
    <3>6. \A u \in Session : DeliveredAt(u, g) = {}
      BY <1>0, <2>1, <2>8 DEF DeliveredOnce, Delivering, IsDelivery, DeliveredAt
    <3>7. \A u \in Session : DeliveredAt(u, g)' = IF u = s THEN {n} ELSE {}
      <4> HIDE DEF r
      <4> QED BY <2>3, <2>4, <2>8, <3>6 DEF DeliveredAt
    <3>8. ThroughsOf(g) = {} /\ ThroughsOf(g)' = {Place(s, terminal'[s], n)}
      <4>1. ThroughsOf(g) = {}
        BY <3>4, <3>6, InPlaces
      <4>2. ThroughsOf(g)' = UNION {{Place(u, terminal'[u], j) : j \in DeliveredAt(u, g)'} : u \in Session}
        BY DEF ThroughsOf, Place
      <4>3. ThroughsOf(g)' = {Place(s, terminal'[s], n)}
        BY <2>1, <3>7, <4>2
      <4> QED BY <4>1, <4>3
    <3>9. throughs' = [throughs EXCEPT ![g] = {Place(s, terminal'[s], n)}]
      BY <2>6, <3>4, <3>8 DEF throughs
    <3>10. throughs[g] = {} /\ throughs'[g] = {Place(s, terminal'[s], n)}
      BY <3>4, <3>8 DEF throughs
    <3>11. /\ Place(s, terminal'[s], n).session = Place(s, evidence[s], i).session
           /\ Place(s, terminal'[s], n).command = Place(s, evidence[s], i).command
      BY <2>3, <2>4, <3>3 DEF Place
    <3>12. \E p \in throughs'[g], q \in records[g] :
             /\ p.session = q.session /\ p.command = q.command
             /\ throughs' = [throughs EXCEPT ![g] = {p}]
      BY <3>5, <3>9, <3>10, <3>11
    <3>13. Grants!LetThrough(g)
      BY <2>1, <3>10, <3>12 DEF Grants!LetThrough, records, throughs
    <3> QED BY <3>4, <3>13 DEF Grants!Next
  <2> QED BY <2>7, <2>8
<1> QED BY <1>1, <1>2, <1>3, <1>5, <1>6, <1>7, <1>8 DEF Next, HandlerStep

\* With one process the file, its mutex, the logs and the terminals behave as one
\* set of one-time grants, through every interleaving, failed step and crash.
THEOREM GateImplementsGrants == ASSUME OneProcess PROVE Spec => ImplementsGrants
<1>1. Init => Grants!Init
  BY InitGrants
<1>2. OInv /\ [Next]_vars => [Grants!Next]_(Grants!grantVars)
  BY NextGrants
<1> QED BY <1>1, <1>2, OneInvariant, PTL DEF Spec, ImplementsGrants, Grants!Spec
=============================================================================
