------------------------ MODULE SessionIndex_proofs ------------------------
(***************************************************************************)
(* Proofs about SessionIndex, for any threads, ids, shells, requests,      *)
(* restarts and failed steps.                                              *)
(***************************************************************************)
EXTENDS SessionIndex, FiniteSetTheorems, TLAPS

----------------------------------------------------------------------------
(* The inductive invariant.                                                *)

\* The backends an id may be opened with.
Allowed(s, b) == \/ <<s, b>> \in Opens
                 \/ b = "pty" /\ \E f \in Forks : f[2] = s

\* What a request is when its thread is at a label.
RequestHeld ==
  \A t \in Thread : pc[t] # "idle" =>
    LET r == request[t] IN
    /\ r \in Request
    /\ Allowed(r.session, r.backend)
    /\ pc[t] \in {"spawn", "insert"} => r.op # "kill" /\ r.backend = "pty"
    /\ pc[t] \in {"newsession", "pipe"} => r.op = "open" /\ r.backend = "tmux"
    /\ pc[t] = "exec" => r.op # "kill"
    /\ pc[t] \in {"index", "truncate", "write"} /\ r.op = "kill" => r.backend = "tmux"
    /\ pc[t] = "killtmux" => r.op = "kill" /\ r.backend = "tmux"
    /\ pc[t] = "killchild" => r.op = "kill" /\ r.backend = "pty"
    /\ pc[t] = "killed" => r.op = "kill"
    /\ pc[t] \in {"checktree", "maketree"} => r.fresh
    /\ pc[t] \in {"checktree", "maketree", "forkopen"} => r.op = "fork"
    /\ r.op = "fork" => r.backend = "pty"
    /\ r.fresh => r.op = "fork" /\ Name(r.workspace) = r.session

\* What is known of an id comes from an open or a fork a client may ask for.
Backends ==
  \A s \in Session :
    /\ registry[s] # NoChild => Allowed(s, "pty")
    /\ index[s] # NoEntry => Allowed(s, index[s].backend)
    /\ \A t \in Thread : copy[t][s] # NoEntry => Allowed(s, copy[t][s].backend)
    /\ \A x \in opened[s] : Allowed(s, IF x = Tmux THEN "tmux" ELSE "pty")

\* As long as no two handlers overlapped, one request at a time is about an id
\* and one rewrites the index.
OneAtATime ==
  ~raced => \A t, u \in Thread :
    \/ t = u
    \/ /\ ~(pc[t] \in Rewriting /\ pc[u] \in Rewriting)
       /\ pc[t] # "idle" /\ pc[u] # "idle" => request[t].session # request[u].session

\* What is about to be written is the index, and only a failed step leaves it
\* without text.
FileHeld ==
  ~raced =>
    /\ \A t \in Thread : pc[t] = "write" => file = "empty"
    /\ \A t \in Thread : pc[t] \in Rewriting => copy[t] = index
    /\ faults = 0 /\ ~Readable => \E t \in Thread : pc[t] = "write"

\* A shell is reachable from the insertion into the registry on.
PtyHeld ==
  ~raced =>
    /\ \A t \in Thread :
         LET r == request[t] IN
         pc[t] # "idle" /\ r.backend = "pty" /\ r.op # "kill" =>
           /\ pc[t] \in {"spawn", "exec", "insert"} => registry[r.session] = NoChild
           /\ pc[t] \in {"index", "truncate", "write"} => registry[r.session] = r.child
    /\ \A s \in Session : \A x \in opened[s] : x # Tmux => registry[s] = x

\* An open that has made the tmux session of s and not yet written its entry.
OpeningTmux(t, s) == /\ pc[t] \in {"pipe", "exec", "index", "truncate", "write"}
                     /\ request[t].op = "open" /\ request[t].backend = "tmux"
                     /\ request[t].session = s

Inactive(s) == index[s] # NoEntry /\ index[s].backend = "tmux" /\ ~index[s].active

\* A tmux session is reachable from the first write of its entry on, and has
\* ended when a write makes the entry inactive.
TmuxHeld ==
  ~raced =>
    /\ \A t \in Thread :
         /\ pc[t] \in {"killed", "index", "truncate", "write"}
         /\ request[t].op = "kill" /\ request[t].backend = "tmux"
         => request[t].session \notin tmux
    /\ \A s \in Session : Tmux \in opened[s] => index[s] # NoEntry
    /\ faults = 0 => \A s \in tmux : Inactive(s) => \E t \in Thread : OpeningTmux(t, s)

\* A fork that has its workspace and not yet its shell.
Placing(t) == pc[t] \in {"forkopen", "spawn"} /\ request[t].fresh

HomeOf(w) == [workspace |-> w, fresh |-> TRUE]

\* A workspace that was made waits for its shell, or has it.
ForkHeld ==
  /\ \A c \in children : home[c].fresh => home[c].workspace \in trees
  /\ \A t \in Thread : Placing(t) => request[t].workspace \in trees
  /\ ~raced =>
       /\ \A t \in Thread : pc[t] = "maketree" => request[t].workspace \notin trees
       /\ \A t \in Thread : Placing(t) =>
            \A c \in children : home[c] # HomeOf(request[t].workspace)
       /\ \A c, d \in children : home[c].fresh /\ home[c] = home[d] => c = d
       /\ faults = 0 => \A w \in trees :
            \/ w \in taken
            \/ \E c \in children : home[c] = HomeOf(w)
            \/ \E t \in Thread : Placing(t) /\ request[t].workspace = w

IInv == /\ TypeOK
        /\ RequestHeld
        /\ Backends
        /\ OneAtATime
        /\ FileHeld
        /\ PtyHeld
        /\ TmuxHeld
        /\ ForkHeld

----------------------------------------------------------------------------
(* Types.                                                                  *)

\* A request that starts is of its type, and the other threads go on.
LEMMA Started ==
  ASSUME TypeOK, NEW t \in Thread, NEW op \in {"open", "kill", "fork"}, NEW s \in Session,
         NEW b \in Backend, NEW c \in Child \cup {NoChild}, NEW w \in Workspace,
         NEW fresh \in BOOLEAN, StartAt(t, op, s, b, c, w, fresh)
  PROVE  LET r == [op |-> op, session |-> s, backend |-> b, child |-> c, workspace |-> w,
                   fresh |-> fresh]
         IN
         /\ r \in Request /\ request' = [request EXCEPT ![t] = r]
         /\ request' \in [Thread -> Request \cup {Idle}]
         /\ request'[t] = r /\ \A u \in Thread \ {t} : request'[u] = request[u]
         /\ requests' \in 0..MaxRequests /\ raced' \in BOOLEAN
         /\ pc[t] = "idle"
         /\ ~raced' => ~raced /\ \A u \in Thread : pc[u] # "idle" => request[u].session # s
<1> DEFINE r == [op |-> op, session |-> s, backend |-> b, child |-> c, workspace |-> w,
                 fresh |-> fresh]
<1>1. r \in Request
  BY DEF Request
<1>2. request' = [request EXCEPT ![t] = r]
  BY DEF StartAt
<1>3. requests' \in 0..MaxRequests
  BY IndexAssumption DEF StartAt, TypeOK
<1>4. pc[t] = "idle" /\ raced' \in BOOLEAN
  BY DEF StartAt
<1>5. ~raced' => ~raced /\ \A u \in Thread : pc[u] # "idle" => request[u].session # s
  BY DEF StartAt
<1> HIDE DEF r
<1>6. request \in [Thread -> Request \cup {Idle}]
  BY DEF TypeOK
<1>7. /\ request' \in [Thread -> Request \cup {Idle}]
      /\ request'[t] = r /\ \A u \in Thread \ {t} : request'[u] = request[u]
  BY <1>1, <1>2, <1>6
<1> QED BY <1>1, <1>2, <1>3, <1>4, <1>5, <1>7 DEF r

\* So do the parts of a thread when its request goes on or returns.
LEMMA GoesOn ==
  ASSUME TypeOK, NEW t \in Thread,
         \/ \E label \in Labels : Goto(t, label) /\ UNCHANGED <<request, copy>>
         \/ Return(t)
  PROVE  /\ pc' \in [Thread -> Labels \cup {"idle"}]
         /\ request' \in [Thread -> Request \cup {Idle}]
         /\ copy' \in [Thread -> [Session -> Entry \cup {NoEntry}]]
<1>1. NoIndex \in [Session -> Entry \cup {NoEntry}]
  BY DEF NoIndex
<1>2. CASE \E label \in Labels : Goto(t, label) /\ UNCHANGED <<request, copy>>
  BY <1>2 DEF Goto, TypeOK
<1>3. CASE Return(t)
  BY <1>1, <1>3 DEF Return, Goto, TypeOK
<1> QED BY <1>2, <1>3

\* Every step keeps the types.
LEMMA NextTypes ==
  ASSUME TypeOK, RequestHeld, [Next]_vars
  PROVE  TypeOK'
<1> USE IndexAssumption DEF Labels, forkVars, procVars, indexVars, bounds, Goto, Return, Start
<1>0. /\ NoIndex \in [Session -> Entry \cup {NoEntry}] /\ Main \in Workspace
      /\ \A s \in Session : s \in Session /\ Main \in Seq(Session)
  BY DEF NoIndex, Main, Workspace
<1>1. ASSUME NEW t \in Thread, NEW s \in Session, OpenPty(t, s)
      PROVE  TypeOK'
  <2>1. StartAt(t, "open", s, "pty", NoChild, Main, FALSE)
    BY <1>1 DEF OpenPty
  <2>2. /\ request' \in [Thread -> Request \cup {Idle}]
        /\ requests' \in 0..MaxRequests /\ raced' \in BOOLEAN
    BY <1>0, <2>1, Started DEF Backend
  <2> QED BY <1>1, <2>2 DEF OpenPty, TypeOK
<1>2. ASSUME NEW t \in Thread, NEW s \in Session, OpenTmux(t, s)
      PROVE  TypeOK'
  <2>1. StartAt(t, "open", s, "tmux", NoChild, Main, FALSE)
    BY <1>2 DEF OpenTmux
  <2>2. /\ request' \in [Thread -> Request \cup {Idle}]
        /\ requests' \in 0..MaxRequests /\ raced' \in BOOLEAN
    BY <1>0, <2>1, Started DEF Backend
  <2> QED BY <1>2, <2>2 DEF OpenTmux, TypeOK
<1>3. ASSUME NEW t \in Thread, NEW s \in Session, KillPty(t, s)
      PROVE  TypeOK'
  <2>1. StartAt(t, "kill", s, "pty", registry[s], Main, FALSE)
    BY <1>3 DEF KillPty
  <2>2. /\ request' \in [Thread -> Request \cup {Idle}]
        /\ requests' \in 0..MaxRequests /\ raced' \in BOOLEAN
    BY <1>0, <2>1, Started DEF Backend, TypeOK
  <2> QED BY <1>3, <2>2 DEF KillPty, TypeOK
<1>4. ASSUME NEW t \in Thread, NEW s \in Session, KillTmux(t, s)
      PROVE  TypeOK'
  <2>1. StartAt(t, "kill", s, "tmux", NoChild, Main, FALSE)
    BY <1>4 DEF KillTmux
  <2>2. /\ request' \in [Thread -> Request \cup {Idle}]
        /\ requests' \in 0..MaxRequests /\ raced' \in BOOLEAN
    BY <1>0, <2>1, Started DEF Backend
  <2> QED BY <1>4, <2>2 DEF KillTmux, TypeOK
<1>5. ASSUME NEW t \in Thread, NEW f \in Forks, Fork(t, f[1], f[2], f[3])
      PROVE  TypeOK'
  <2> DEFINE there == home[registry[f[1]]].workspace
  <2>1. f[1] \in Session /\ f[2] \in Session /\ f[3] \in BOOLEAN /\ registry[f[1]] \in Child
    BY <1>5 DEF Fork, TypeOK
  <2>2. there \in Workspace /\ Append(there, f[2]) \in Workspace
    BY <2>1 DEF Workspace, TypeOK
  <2>3. \/ StartAt(t, "fork", f[2], "pty", NoChild, Append(there, f[2]), TRUE)
        \/ StartAt(t, "fork", f[2], "pty", NoChild, there, FALSE)
    BY <1>5 DEF Fork
  <2> HIDE DEF there
  <2>4. /\ request' \in [Thread -> Request \cup {Idle}]
        /\ requests' \in 0..MaxRequests /\ raced' \in BOOLEAN
    BY <2>1, <2>2, <2>3, Started DEF Backend
  <2>5. pc' \in [Thread -> Labels \cup {"idle"}]
    BY <1>5 DEF Fork, TypeOK
  <2>6. UNCHANGED <<forkVars, procVars, indexVars, copy, opened, restarts, faults>>
    BY <1>5 DEF Fork
  <2> QED BY <2>4, <2>5, <2>6 DEF TypeOK
<1>6. ASSUME NEW t \in Thread, NEW c \in Child, Spawn(t, c)
      PROVE  TypeOK'
  <2> DEFINE r == request[t]
             at == [workspace |-> r.workspace, fresh |-> r.fresh]
  <2>1. r \in Request
    BY <1>6 DEF Spawn, RequestHeld
  <2>2. [r EXCEPT !.child = c] \in Request /\ at \in [workspace : Workspace, fresh : BOOLEAN]
    BY <2>1 DEF Request
  <2>3. request' = [request EXCEPT ![t] = [r EXCEPT !.child = c]] /\ home' = [home EXCEPT ![c] = at]
    BY <1>6 DEF Spawn
  <2> HIDE DEF r, at
  <2>4. /\ request' \in [Thread -> Request \cup {Idle}]
        /\ home' \in [Child -> [workspace : Workspace, fresh : BOOLEAN]]
    BY <2>2, <2>3 DEF TypeOK
  <2> QED BY <1>6, <2>4 DEF Spawn, TypeOK
<1>7. ASSUME NEW t \in Thread, LogExec(t)
      PROVE  TypeOK'
  BY <1>0, <1>7 DEF LogExec, TypeOK
<1>8. ASSUME NEW t \in Thread, Insert(t)
      PROVE  TypeOK'
  BY <1>0, <1>8 DEF Insert, RequestHeld, Request, TypeOK
<1>9. ASSUME NEW t \in Thread, NewSession(t)
      PROVE  TypeOK'
  <2>1. /\ pc' \in [Thread -> Labels \cup {"idle"}]
        /\ request' \in [Thread -> Request \cup {Idle}]
        /\ copy' \in [Thread -> [Session -> Entry \cup {NoEntry}]]
    <3> HIDE DEF Return, Goto
    <3>1. "pipe" \in Labels
      OBVIOUS
    <3>2. Return(t) \/ (Goto(t, "pipe") /\ UNCHANGED <<request, copy>>)
      BY <1>9 DEF NewSession
    <3> QED BY <3>1, <3>2, GoesOn
  <2>2. tmux' \in SUBSET Session
    BY <1>9 DEF NewSession, RequestHeld, Request, TypeOK
  <2>3. UNCHANGED <<registry, children, alive, index, file, trees, home, taken,
                 opened, raced, requests, restarts, faults>>
    BY <1>9 DEF NewSession
  <2> QED BY <2>1, <2>2, <2>3 DEF TypeOK
<1>10. ASSUME NEW t \in Thread, StartPipe(t)
      PROVE  TypeOK'
  <2>1. /\ pc' \in [Thread -> Labels \cup {"idle"}]
        /\ request' \in [Thread -> Request \cup {Idle}]
        /\ copy' \in [Thread -> [Session -> Entry \cup {NoEntry}]]
    <3> HIDE DEF Return, Goto
    <3>1. "exec" \in Labels
      OBVIOUS
    <3>2. Return(t) \/ (Goto(t, "exec") /\ UNCHANGED <<request, copy>>)
      BY <1>10 DEF StartPipe
    <3> QED BY <3>1, <3>2, GoesOn
  <2>2. tmux' \in SUBSET Session /\ faults' \in 0..MaxFaults
    BY <1>10 DEF StartPipe, Fault, TypeOK
  <2>3. UNCHANGED <<registry, children, alive, index, file, trees, home, taken,
                 opened, raced, requests, restarts>>
    BY <1>10 DEF StartPipe
  <2> QED BY <2>1, <2>2, <2>3 DEF TypeOK
<1>11. ASSUME NEW t \in Thread, ReadIndex(t)
      PROVE  TypeOK'
  BY <1>0, <1>11 DEF ReadIndex, TypeOK
<1>12. ASSUME NEW t \in Thread, ReadIndexFails(t)
      PROVE  TypeOK'
  BY <1>0, <1>12 DEF ReadIndexFails, TypeOK
<1>13. ASSUME NEW t \in Thread, TruncateIndex(t)
      PROVE  TypeOK'
  BY <1>0, <1>13 DEF TruncateIndex, TypeOK
<1>14. ASSUME NEW t \in Thread, WriteIndex(t)
      PROVE  TypeOK'
  <2> DEFINE r == request[t]
             entry == [backend |-> r.backend, active |-> r.op # "kill"]
  <2>1. r \in Request /\ r.session \in Session /\ entry \in Entry
    BY <1>14 DEF WriteIndex, RequestHeld, Request, Entry
  <2>2. index' = [copy[t] EXCEPT ![r.session] = entry]
    BY <1>14 DEF WriteIndex
  <2>3. Promise(r) \in SUBSET (Child \cup {Tmux})
    BY DEF Promise, TypeOK
  <2>4. opened' = opened \/ opened' = [opened EXCEPT ![r.session] = @ \cup Promise(r)]
    BY <1>14 DEF WriteIndex, Persisted
  <2>5. file' \in {"whole", "torn"}
    BY <1>14 DEF WriteIndex, Overwritten
  <2>6. /\ pc' \in [Thread -> Labels \cup {"idle"}]
        /\ request' \in [Thread -> Request \cup {Idle}]
        /\ copy' \in [Thread -> [Session -> Entry \cup {NoEntry}]]
    <3> HIDE DEF r, entry, Return, Goto
    <3>1. "forked" \in Labels
      OBVIOUS
    <3>2. Return(t) \/ (Goto(t, "forked") /\ UNCHANGED <<request, copy>>)
      BY <1>14 DEF WriteIndex, Persisted
    <3> QED BY <3>1, <3>2, GoesOn
  <2>7. UNCHANGED <<forkVars, procVars, raced, bounds>>
    BY <1>14 DEF WriteIndex
  <2> HIDE DEF r, entry
  <2>8. /\ index' \in [Session -> Entry \cup {NoEntry}]
        /\ opened' \in [Session -> SUBSET (Child \cup {Tmux})]
    <3>1. copy[t] \in [Session -> Entry \cup {NoEntry}]
      BY DEF TypeOK
    <3>2. index' \in [Session -> Entry \cup {NoEntry}]
      BY <2>1, <2>2, <3>1
    <3>3. opened \in [Session -> SUBSET (Child \cup {Tmux})]
      BY DEF TypeOK
    <3>4. opened' \in [Session -> SUBSET (Child \cup {Tmux})]
      BY <2>3, <2>4, <3>3
    <3> QED BY <3>2, <3>4
  <2>9. /\ UNCHANGED <<registry, children, alive, tmux, trees, home, taken>>
        /\ UNCHANGED <<raced, requests, restarts, faults>>
    BY <2>7
  <2> QED BY <2>5, <2>6, <2>8, <2>9 DEF TypeOK
<1>15. ASSUME NEW t \in Thread, CheckTree(t)
      PROVE  TypeOK'
  <2>1. /\ pc' \in [Thread -> Labels \cup {"idle"}]
        /\ request' \in [Thread -> Request \cup {Idle}]
        /\ copy' \in [Thread -> [Session -> Entry \cup {NoEntry}]]
    <3> HIDE DEF Return, Goto
    <3>1. "maketree" \in Labels
      OBVIOUS
    <3>2. Return(t) \/ (Goto(t, "maketree") /\ UNCHANGED <<request, copy>>)
      BY <1>15 DEF CheckTree
    <3> QED BY <3>1, <3>2, GoesOn
  <2>2. UNCHANGED <<registry, children, alive, tmux, index, file, trees, home, taken,
                 opened, raced, requests, restarts, faults>>
    BY <1>15 DEF CheckTree
  <2> QED BY <2>1, <2>2 DEF TypeOK
<1>16. ASSUME NEW t \in Thread, MakeTree(t)
      PROVE  TypeOK'
  <2>1. /\ pc' \in [Thread -> Labels \cup {"idle"}]
        /\ request' \in [Thread -> Request \cup {Idle}]
        /\ copy' \in [Thread -> [Session -> Entry \cup {NoEntry}]]
    <3> HIDE DEF Return, Goto
    <3>1. "forkopen" \in Labels
      OBVIOUS
    <3>2. Return(t) \/ (Goto(t, "forkopen") /\ UNCHANGED <<request, copy>>)
      BY <1>16 DEF MakeTree
    <3> QED BY <3>1, <3>2, GoesOn
  <2>2. trees' \in SUBSET Workspace
    BY <1>16 DEF MakeTree, RequestHeld, Request, TypeOK
  <2>3. UNCHANGED <<registry, children, alive, tmux, index, file, home, taken,
                 opened, raced, requests, restarts, faults>>
    BY <1>16 DEF MakeTree
  <2> QED BY <2>1, <2>2, <2>3 DEF TypeOK
<1>17. ASSUME NEW t \in Thread, ForkOpen(t)
      PROVE  TypeOK'
  <2>1. /\ pc' \in [Thread -> Labels \cup {"idle"}]
        /\ request' \in [Thread -> Request \cup {Idle}]
        /\ copy' \in [Thread -> [Session -> Entry \cup {NoEntry}]]
    <3> HIDE DEF Return, Goto
    <3>1. "spawn" \in Labels
      OBVIOUS
    <3>2. Return(t) \/ (Goto(t, "spawn") /\ UNCHANGED <<request, copy>>)
      BY <1>17 DEF ForkOpen
    <3> QED BY <3>1, <3>2, GoesOn
  <2>2. taken' \in SUBSET Workspace
    BY <1>17 DEF ForkOpen, RequestHeld, Request, TypeOK
  <2>3. UNCHANGED <<registry, children, alive, tmux, index, file, trees, home,
                 opened, raced, requests, restarts, faults>>
    BY <1>17 DEF ForkOpen
  <2> QED BY <2>1, <2>2, <2>3 DEF TypeOK
<1>18. ASSUME NEW t \in Thread, LogFork(t)
      PROVE  TypeOK'
  BY <1>0, <1>18 DEF LogFork, TypeOK
<1>19. ASSUME NEW t \in Thread, StepFails(t)
      PROVE  TypeOK'
  <2>1. faults' \in 0..MaxFaults
    BY <1>19 DEF StepFails, Fault, TypeOK
  <2>2. trees' \in SUBSET Workspace
    BY <1>19 DEF StepFails, RequestHeld, Request, TypeOK
  <2> QED BY <1>0, <1>19, <2>1, <2>2 DEF StepFails, TypeOK
<1>20. ASSUME NEW t \in Thread, KillChild(t)
      PROVE  TypeOK'
  BY <1>0, <1>20 DEF KillChild, TypeOK
<1>21. ASSUME NEW t \in Thread, KillSession(t)
      PROVE  TypeOK'
  <2>1. /\ pc' \in [Thread -> Labels \cup {"idle"}]
        /\ request' \in [Thread -> Request \cup {Idle}]
        /\ copy' \in [Thread -> [Session -> Entry \cup {NoEntry}]]
    <3> HIDE DEF Return, Goto
    <3>1. "killed" \in Labels
      OBVIOUS
    <3>2. Return(t) \/ (Goto(t, "killed") /\ UNCHANGED <<request, copy>>)
      BY <1>21 DEF KillSession
    <3> QED BY <3>1, <3>2, GoesOn
  <2>2. tmux' \in SUBSET Session /\ opened' \in [Session -> SUBSET (Child \cup {Tmux})]
    BY <1>21 DEF KillSession, TypeOK
  <2>3. UNCHANGED <<registry, children, alive, index, file, trees, home, taken,
                 raced, requests, restarts, faults>>
    BY <1>21 DEF KillSession
  <2> QED BY <2>1, <2>2, <2>3 DEF TypeOK
<1>22. ASSUME NEW t \in Thread, LogKill(t)
      PROVE  TypeOK'
  <2>1. /\ pc' \in [Thread -> Labels \cup {"idle"}]
        /\ request' \in [Thread -> Request \cup {Idle}]
        /\ copy' \in [Thread -> [Session -> Entry \cup {NoEntry}]]
    <3> HIDE DEF Return, Goto
    <3>1. "index" \in Labels
      OBVIOUS
    <3>2. Return(t) \/ (Goto(t, "index") /\ UNCHANGED <<request, copy>>)
      BY <1>22 DEF LogKill
    <3> QED BY <3>1, <3>2, GoesOn
  <2>2. UNCHANGED <<forkVars, procVars, indexVars, opened, raced, bounds>>
    BY <1>22 DEF LogKill
  <2> QED BY <2>1, <2>2 DEF TypeOK
<1>23. ASSUME ShellExits
      PROVE  TypeOK'
  BY <1>23 DEF ShellExits, TypeOK
<1>24. ASSUME Restart
      PROVE  TypeOK'
  <2>1. faults' \in 0..MaxFaults /\ restarts' \in 0..MaxRestarts
    BY <1>24 DEF Restart, Fault, TypeOK
  <2> QED BY <1>0, <1>24, <2>1 DEF Restart, TypeOK
<1>25. ASSUME UNCHANGED vars
      PROVE  TypeOK'
  BY <1>25 DEF vars, TypeOK
<1> QED BY <1>1, <1>2, <1>3, <1>4, <1>5, <1>6, <1>7, <1>8, <1>9, <1>10, <1>11, <1>12, <1>13,
           <1>14, <1>15, <1>16, <1>17, <1>18, <1>19, <1>20, <1>21, <1>22, <1>23, <1>24, <1>25 DEF Next, HandlerStep

----------------------------------------------------------------------------
(* Requests.                                                               *)

Calls(t) == \/ \E s \in Session : OpenPty(t, s) \/ OpenTmux(t, s) \/ KillPty(t, s) \/ KillTmux(t, s)
            \/ \E f \in Forks : Fork(t, f[1], f[2], f[3])

\* A step of a thread is its own.
LEMMA OthersWait ==
  ASSUME TypeOK, NEW t \in Thread, Calls(t) \/ HandlerStep(t), NEW u \in Thread \ {t}
  PROVE  pc'[u] = pc[u] /\ request'[u] = request[u] /\ copy'[u] = copy[u]
<1> USE DEF TypeOK, Goto, Return
<1>1. CASE Calls(t)
  <2>1. CASE \E s \in Session : OpenPty(t, s) \/ OpenTmux(t, s)
    BY <2>1 DEF OpenPty, OpenTmux, Start, StartAt
  <2>2. CASE \E s \in Session : KillPty(t, s) \/ KillTmux(t, s)
    BY <2>2 DEF KillPty, KillTmux, Start, StartAt
  <2>3. CASE \E f \in Forks : Fork(t, f[1], f[2], f[3])
    BY <2>3 DEF Fork, Start, StartAt
  <2> QED BY <1>1, <2>1, <2>2, <2>3 DEF Calls
<1>2. CASE \/ \E c \in Child : Spawn(t, c)
           \/ LogExec(t) \/ Insert(t) \/ NewSession(t) \/ StartPipe(t)
           \/ ReadIndex(t) \/ ReadIndexFails(t) \/ TruncateIndex(t)
  BY <1>2 DEF Spawn, LogExec, Insert, NewSession, StartPipe, ReadIndex, ReadIndexFails,
              TruncateIndex
<1>3. CASE \/ WriteIndex(t) \/ CheckTree(t) \/ MakeTree(t) \/ ForkOpen(t) \/ LogFork(t)
           \/ StepFails(t) \/ KillChild(t) \/ KillSession(t) \/ LogKill(t)
  BY <1>3 DEF WriteIndex, Persisted, CheckTree, MakeTree, ForkOpen, LogFork, StepFails,
              KillChild, KillSession, LogKill
<1> QED BY <1>1, <1>2, <1>3 DEF HandlerStep

\* A call is about an id with a backend that a client may ask for, and none of
\* its parts has happened.
LEMMA CallIs ==
  ASSUME TypeOK, Backends, NEW t \in Thread, Calls(t)
  PROVE  LET r == request'[t] IN
         /\ pc[t] = "idle" /\ r \in Request
         /\ Allowed(r.session, r.backend)
         /\ ~raced' => ~raced /\ \A u \in Thread : pc[u] # "idle" => request[u].session # r.session
         /\ \/ /\ pc'[t] = "spawn" /\ r.op = "open" /\ r.backend = "pty" /\ ~r.fresh
               /\ registry[r.session] = NoChild
            \/ pc'[t] = "newsession" /\ r.op = "open" /\ r.backend = "tmux" /\ ~r.fresh
            \/ pc'[t] = "killchild" /\ r.op = "kill" /\ r.backend = "pty" /\ ~r.fresh
            \/ pc'[t] = "killtmux" /\ r.op = "kill" /\ r.backend = "tmux" /\ ~r.fresh
            \/ /\ pc'[t] = "checktree" /\ r.op = "fork" /\ r.backend = "pty" /\ r.fresh
               /\ Name(r.workspace) = r.session
            \/ pc'[t] = "forkopen" /\ r.op = "fork" /\ r.backend = "pty" /\ ~r.fresh
<1> USE IndexAssumption DEF Start, Goto
<1>0. Main \in Workspace /\ Backend = {"pty", "tmux"}
  BY DEF Main, Workspace, Backend
<1>1. ASSUME NEW s \in Session, OpenPty(t, s)
      PROVE  /\ StartAt(t, "open", s, "pty", NoChild, Main, FALSE)
             /\ Allowed(s, "pty") /\ pc'[t] = "spawn" /\ registry[s] = NoChild
  BY <1>1 DEF OpenPty, Allowed, TypeOK
<1>2. ASSUME NEW s \in Session, OpenTmux(t, s)
      PROVE  /\ StartAt(t, "open", s, "tmux", NoChild, Main, FALSE)
             /\ Allowed(s, "tmux") /\ pc'[t] = "newsession"
  BY <1>2 DEF OpenTmux, Allowed, TypeOK
<1>3. ASSUME NEW s \in Session, KillPty(t, s)
      PROVE  /\ StartAt(t, "kill", s, "pty", registry[s], Main, FALSE)
             /\ Allowed(s, "pty") /\ pc'[t] = "killchild"
             /\ registry[s] \in Child \cup {NoChild}
  BY <1>3 DEF KillPty, Backends, TypeOK
<1>4. ASSUME NEW s \in Session, KillTmux(t, s)
      PROVE  /\ StartAt(t, "kill", s, "tmux", NoChild, Main, FALSE)
             /\ Allowed(s, "tmux") /\ pc'[t] = "killtmux"
  <2>1. index[s] # NoEntry /\ index[s].backend = "tmux"
    BY <1>4 DEF KillTmux
  <2>2. Allowed(s, "tmux")
    BY <2>1 DEF Backends
  <2> QED BY <1>4, <2>2 DEF KillTmux, TypeOK
<1>5. ASSUME NEW f \in Forks, Fork(t, f[1], f[2], f[3])
      PROVE  \E w \in Workspace :
               /\ f[2] \in Session /\ Allowed(f[2], "pty")
               /\ \/ /\ StartAt(t, "fork", f[2], "pty", NoChild, w, TRUE)
                     /\ Name(w) = f[2] /\ pc'[t] = "checktree"
                  \/ /\ StartAt(t, "fork", f[2], "pty", NoChild, w, FALSE)
                     /\ pc'[t] = "forkopen"
  <2> DEFINE there == home[registry[f[1]]].workspace
  <2>1. f[1] \in Session /\ f[2] \in Session /\ registry[f[1]] \in Child /\ Allowed(f[2], "pty")
    BY <1>5 DEF Fork, TypeOK, Allowed
  <2>2. there \in Seq(Session)
    BY <2>1 DEF Workspace, TypeOK
  <2>3. \/ StartAt(t, "fork", f[2], "pty", NoChild, Append(there, f[2]), TRUE) /\ pc'[t] = "checktree"
        \/ StartAt(t, "fork", f[2], "pty", NoChild, there, FALSE) /\ pc'[t] = "forkopen"
    BY <1>5 DEF Fork, TypeOK
  <2> HIDE DEF there
  <2>4. Append(there, f[2]) \in Seq(Session) /\ Name(Append(there, f[2])) = f[2]
    BY <2>1, <2>2 DEF Name
  <2> QED BY <2>1, <2>2, <2>3, <2>4 DEF Workspace
<1>6. CASE \E s \in Session : OpenPty(t, s)
  <2>1. PICK s \in Session : OpenPty(t, s)
    BY <1>6
  <2>2. PICK fresh \in BOOLEAN : ~fresh /\ StartAt(t, "open", s, "pty", NoChild, Main, fresh)
    BY <1>1, <2>1
  <2>3. /\ request'[t] = [op |-> "open", session |-> s, backend |-> "pty", child |-> NoChild,
                          workspace |-> Main, fresh |-> fresh]
        /\ request'[t] \in Request /\ pc[t] = "idle"
        /\ ~raced' => ~raced /\ \A u \in Thread : pc[u] # "idle" => request[u].session # s
    BY <1>0, <1>1, <2>1, <2>2, Started
  <2>4. /\ request'[t].op = "open" /\ request'[t].session = s /\ request'[t].backend = "pty"
        /\ request'[t].fresh = fresh
    BY <2>3
  <2> QED BY <1>1, <2>1, <2>2, <2>3, <2>4
<1>7. CASE \E s \in Session : OpenTmux(t, s)
  <2>1. PICK s \in Session : OpenTmux(t, s)
    BY <1>7
  <2>2. PICK fresh \in BOOLEAN : ~fresh /\ StartAt(t, "open", s, "tmux", NoChild, Main, fresh)
    BY <1>2, <2>1
  <2>3. /\ request'[t] = [op |-> "open", session |-> s, backend |-> "tmux", child |-> NoChild,
                          workspace |-> Main, fresh |-> fresh]
        /\ request'[t] \in Request /\ pc[t] = "idle"
        /\ ~raced' => ~raced /\ \A u \in Thread : pc[u] # "idle" => request[u].session # s
    BY <1>0, <1>2, <2>1, <2>2, Started
  <2>4. /\ request'[t].op = "open" /\ request'[t].session = s /\ request'[t].backend = "tmux"
        /\ request'[t].fresh = fresh
    BY <2>3
  <2> QED BY <1>2, <2>1, <2>2, <2>3, <2>4
<1>8. CASE \E s \in Session : KillPty(t, s)
  <2>1. PICK s \in Session : KillPty(t, s)
    BY <1>8
  <2>2. PICK fresh \in BOOLEAN, c \in Child \cup {NoChild} :
          ~fresh /\ StartAt(t, "kill", s, "pty", c, Main, fresh)
    BY <1>3, <2>1
  <2>3. /\ request'[t] = [op |-> "kill", session |-> s, backend |-> "pty", child |-> c,
                          workspace |-> Main, fresh |-> fresh]
        /\ request'[t] \in Request /\ pc[t] = "idle"
        /\ ~raced' => ~raced /\ \A u \in Thread : pc[u] # "idle" => request[u].session # s
    BY <1>0, <1>3, <2>1, <2>2, Started
  <2>4. /\ request'[t].op = "kill" /\ request'[t].session = s /\ request'[t].backend = "pty"
        /\ request'[t].fresh = fresh
    BY <2>3
  <2> QED BY <1>3, <2>1, <2>2, <2>3, <2>4
<1>9. CASE \E s \in Session : KillTmux(t, s)
  <2>1. PICK s \in Session : KillTmux(t, s)
    BY <1>9
  <2>2. PICK fresh \in BOOLEAN : ~fresh /\ StartAt(t, "kill", s, "tmux", NoChild, Main, fresh)
    BY <1>4, <2>1
  <2>3. /\ request'[t] = [op |-> "kill", session |-> s, backend |-> "tmux", child |-> NoChild,
                          workspace |-> Main, fresh |-> fresh]
        /\ request'[t] \in Request /\ pc[t] = "idle"
        /\ ~raced' => ~raced /\ \A u \in Thread : pc[u] # "idle" => request[u].session # s
    BY <1>0, <1>4, <2>1, <2>2, Started
  <2>4. /\ request'[t].op = "kill" /\ request'[t].session = s /\ request'[t].backend = "tmux"
        /\ request'[t].fresh = fresh
    BY <2>3
  <2> QED BY <1>4, <2>1, <2>2, <2>3, <2>4
<1>10. CASE \E f \in Forks : Fork(t, f[1], f[2], f[3])
  <2>1. PICK f \in Forks : Fork(t, f[1], f[2], f[3])
    BY <1>10
  <2>2. PICK w \in Workspace :
          /\ f[2] \in Session /\ Allowed(f[2], "pty")
          /\ \/ /\ StartAt(t, "fork", f[2], "pty", NoChild, w, TRUE)
                /\ Name(w) = f[2] /\ pc'[t] = "checktree"
             \/ /\ StartAt(t, "fork", f[2], "pty", NoChild, w, FALSE)
                /\ pc'[t] = "forkopen"
    BY <1>5, <2>1
  <2>3. PICK fresh \in BOOLEAN :
          /\ StartAt(t, "fork", f[2], "pty", NoChild, w, fresh)
          /\ IF fresh THEN Name(w) = f[2] /\ pc'[t] = "checktree" ELSE pc'[t] = "forkopen"
    BY <2>2
  <2>4. /\ request'[t] = [op |-> "fork", session |-> f[2], backend |-> "pty", child |-> NoChild,
                          workspace |-> w, fresh |-> fresh]
        /\ request'[t] \in Request /\ pc[t] = "idle"
        /\ ~raced' => ~raced /\ \A u \in Thread : pc[u] # "idle" => request[u].session # f[2]
    BY <1>0, <2>2, <2>3, Started
  <2>5. /\ request'[t].op = "fork" /\ request'[t].session = f[2] /\ request'[t].backend = "pty"
        /\ request'[t].workspace = w /\ request'[t].fresh = fresh
    BY <2>4
  <2>6. CASE fresh
    BY <2>2, <2>3, <2>4, <2>5, <2>6
  <2>7. CASE ~fresh
    BY <2>2, <2>3, <2>4, <2>5, <2>7
  <2> QED BY <2>6, <2>7
<1> QED BY <1>6, <1>7, <1>8, <1>9, <1>10 DEF Calls

\* A request that goes on keeps what was asked for, and what its next label
\* says of it.
LEMMA StepIs ==
  ASSUME TypeOK, RequestHeld, NEW t \in Thread, HandlerStep(t), pc'[t] # "idle"
  PROVE  LET r == request[t]
             n == request'[t]
         IN
         /\ pc[t] # "idle"
         /\ n = r \/ \E c \in Child : pc[t] = "spawn" /\ n = [r EXCEPT !.child = c]
         /\ <<pc[t], pc'[t]>> \in
              {<<"spawn", "exec">>, <<"exec", "insert">>, <<"exec", "index">>,
               <<"insert", "index">>, <<"newsession", "pipe">>, <<"pipe", "exec">>,
               <<"index", "truncate">>, <<"truncate", "write">>, <<"write", "forked">>,
               <<"checktree", "maketree">>, <<"maketree", "forkopen">>,
               <<"forkopen", "spawn">>, <<"killchild", "killed">>,
               <<"killtmux", "killed">>, <<"killed", "index">>}
         /\ pc'[t] = "insert" => r.backend = "pty"
         /\ pc[t] = "exec" /\ pc'[t] = "index" => r.backend # "pty"
         /\ pc[t] = "killed" => r.backend = "tmux"
         /\ pc[t] = "write" => r.op = "fork"
<1> USE DEF TypeOK, Goto, Return
<1>1. CASE \E c \in Child : Spawn(t, c)
  BY <1>1 DEF Spawn
<1>2. CASE LogExec(t) \/ Insert(t) \/ NewSession(t) \/ StartPipe(t)
  BY <1>2 DEF LogExec, Insert, NewSession, StartPipe
<1>3. CASE ReadIndex(t) \/ ReadIndexFails(t) \/ TruncateIndex(t)
  BY <1>3 DEF ReadIndex, ReadIndexFails, TruncateIndex
<1>4. CASE WriteIndex(t)
  BY <1>4 DEF WriteIndex, Persisted
<1>5. CASE CheckTree(t) \/ MakeTree(t) \/ ForkOpen(t) \/ LogFork(t) \/ StepFails(t)
  BY <1>5 DEF CheckTree, MakeTree, ForkOpen, LogFork, StepFails
<1>6. CASE KillChild(t) \/ KillSession(t) \/ LogKill(t)
  BY <1>6 DEF KillChild, KillSession, LogKill
<1> QED BY <1>1, <1>2, <1>3, <1>4, <1>5, <1>6 DEF HandlerStep

\* A step of the world outside leaves requests alone, or ends them all.
LEMMA WorldIs ==
  ASSUME TypeOK, ShellExits \/ Restart \/ UNCHANGED vars
  PROVE  \/ UNCHANGED <<pc, request, copy>>
         \/ \A t \in Thread : pc'[t] = "idle" /\ copy'[t] = NoIndex
BY DEF ShellExits, Restart, vars

\* Every step is one of a handler thread or one of the world outside.
LEMMA NextIs ==
  ASSUME [Next]_vars
  PROVE  \/ \E t \in Thread : Calls(t) \/ HandlerStep(t)
         \/ ShellExits \/ Restart \/ UNCHANGED vars
BY DEF Next, Calls

\* What is known of the request of a thread at a label holds after every step.
LEMMA NextRequestHeld ==
  ASSUME TypeOK, RequestHeld, Backends, [Next]_vars
  PROVE  RequestHeld'
<1> DEFINE Held(t) == pc[t] # "idle" =>
      LET r == request[t] IN
      /\ r \in Request
      /\ Allowed(r.session, r.backend)
      /\ pc[t] \in {"spawn", "insert"} => r.op # "kill" /\ r.backend = "pty"
      /\ pc[t] \in {"newsession", "pipe"} => r.op = "open" /\ r.backend = "tmux"
      /\ pc[t] = "exec" => r.op # "kill"
      /\ pc[t] \in {"index", "truncate", "write"} /\ r.op = "kill" => r.backend = "tmux"
      /\ pc[t] = "killtmux" => r.op = "kill" /\ r.backend = "tmux"
      /\ pc[t] = "killchild" => r.op = "kill" /\ r.backend = "pty"
      /\ pc[t] = "killed" => r.op = "kill"
      /\ pc[t] \in {"checktree", "maketree"} => r.fresh
      /\ pc[t] \in {"checktree", "maketree", "forkopen"} => r.op = "fork"
      /\ r.op = "fork" => r.backend = "pty"
      /\ r.fresh => r.op = "fork" /\ Name(r.workspace) = r.session
<1>1. \A t \in Thread : Held(t)
  BY DEF RequestHeld
<1> SUFFICES ASSUME NEW t \in Thread PROVE Held(t)'
  BY DEF RequestHeld
<1>2. ASSUME pc'[t] = "idle" \/ (pc'[t] = pc[t] /\ request'[t] = request[t])
      PROVE  Held(t)'
  BY <1>1, <1>2
<1>3. CASE Calls(t)
  BY <1>3, CallIs
<1>4. CASE HandlerStep(t) /\ pc'[t] # "idle"
  <2> DEFINE r == request[t]
             n == request'[t]
  <2>1. /\ n = r \/ \E c \in Child : n = [r EXCEPT !.child = c]
        /\ r \in Request
    BY <1>1, <1>4, StepIs
  <2>2. /\ n \in Request /\ n.op = r.op /\ n.backend = r.backend /\ n.session = r.session
        /\ n.fresh = r.fresh /\ n.workspace = r.workspace
    <3> HIDE DEF n, r
    <3> QED BY <2>1 DEF Request
  <2>3. /\ pc[t] # "idle"
        /\ <<pc[t], pc'[t]>> \in
              {<<"spawn", "exec">>, <<"exec", "insert">>, <<"exec", "index">>,
               <<"insert", "index">>, <<"newsession", "pipe">>, <<"pipe", "exec">>,
               <<"index", "truncate">>, <<"truncate", "write">>, <<"write", "forked">>,
               <<"checktree", "maketree">>, <<"maketree", "forkopen">>,
               <<"forkopen", "spawn">>, <<"killchild", "killed">>,
               <<"killtmux", "killed">>, <<"killed", "index">>}
        /\ pc'[t] = "insert" => r.backend = "pty"
        /\ pc[t] = "killed" => r.backend = "tmux"
    BY <1>4, StepIs
  <2> HIDE DEF n, r
  <2>4. /\ r \in Request /\ Allowed(r.session, r.backend)
        /\ r.op = "fork" => r.backend = "pty"
        /\ r.fresh => r.op = "fork" /\ Name(r.workspace) = r.session
        /\ pc[t] \in {"spawn", "insert"} => r.op # "kill" /\ r.backend = "pty"
        /\ pc[t] \in {"newsession", "pipe"} => r.op = "open" /\ r.backend = "tmux"
        /\ pc[t] = "exec" => r.op # "kill"
        /\ pc[t] \in {"index", "truncate", "write"} /\ r.op = "kill" => r.backend = "tmux"
        /\ pc[t] = "killtmux" => r.op = "kill" /\ r.backend = "tmux"
        /\ pc[t] = "killchild" => r.op = "kill" /\ r.backend = "pty"
        /\ pc[t] = "killed" => r.op = "kill"
        /\ pc[t] \in {"checktree", "maketree"} => r.fresh
        /\ pc[t] \in {"checktree", "maketree", "forkopen"} => r.op = "fork"
    BY <1>1, <2>3 DEF r
  <2>5. LET q == pc'[t] IN
        /\ q \in {"spawn", "insert"} => r.op # "kill" /\ r.backend = "pty"
        /\ q \in {"newsession", "pipe"} => r.op = "open" /\ r.backend = "tmux"
        /\ q = "exec" => r.op # "kill"
        /\ q \in {"index", "truncate", "write"} /\ r.op = "kill" => r.backend = "tmux"
        /\ q = "killtmux" => r.op = "kill" /\ r.backend = "tmux"
        /\ q = "killchild" => r.op = "kill" /\ r.backend = "pty"
        /\ q = "killed" => r.op = "kill"
        /\ q \in {"checktree", "maketree"} => r.fresh
        /\ q \in {"checktree", "maketree", "forkopen"} => r.op = "fork"
    BY <2>3, <2>4
  <2> QED BY <2>2, <2>4, <2>5 DEF n
<1>5. CASE \E u \in Thread \ {t} : Calls(u) \/ HandlerStep(u)
  BY <1>2, <1>5, OthersWait
<1>6. CASE ShellExits \/ Restart \/ UNCHANGED vars
  BY <1>2, <1>6, WorldIs
<1> QED BY <1>2, <1>3, <1>4, <1>5, <1>6, NextIs

\* What changes the registry, the index, the copies and the promises.
LEMMA WhatChanges ==
  ASSUME TypeOK, [Next]_vars
  PROVE  /\ \/ registry' = registry \/ Restart
            \/ \E t \in Thread : Insert(t)
         /\ index' = index \/ \E t \in Thread : WriteIndex(t)
         /\ \/ \A s \in Session : opened'[s] \subseteq opened[s]
            \/ \E t \in Thread : WriteIndex(t)
         /\ \A t \in Thread : copy'[t] = copy[t] \/ copy'[t] = NoIndex \/ ReadIndex(t)
<1> USE DEF TypeOK, Goto, Return, procVars, indexVars, forkVars, bounds
<1> DEFINE Goal ==
      /\ registry' = registry \/ Restart \/ \E t \in Thread : Insert(t)
      /\ index' = index \/ \E t \in Thread : WriteIndex(t)
      /\ (\A s \in Session : opened'[s] \subseteq opened[s]) \/ \E t \in Thread : WriteIndex(t)
      /\ \A t \in Thread : copy'[t] = copy[t] \/ copy'[t] = NoIndex \/ ReadIndex(t)
<1>1. ASSUME NEW t \in Thread, Calls(t)
      PROVE  Goal
  <2>1. registry' = registry /\ index' = index /\ copy' = copy
    BY <1>1 DEF Calls, OpenPty, OpenTmux, KillPty, KillTmux, Fork, Start, StartAt
  <2>2. \/ opened' = opened
        \/ \E s \in Session : \E x : opened' = [opened EXCEPT ![s] = @ \ {x}]
    BY <1>1 DEF Calls, OpenPty, OpenTmux, KillPty, KillTmux, Fork
  <2>3. \A s \in Session : opened'[s] \subseteq opened[s]
    BY <2>2
  <2> QED BY <2>1, <2>3
<1>2. ASSUME NEW t \in Thread,
             \/ \E c \in Child : Spawn(t, c)
             \/ LogExec(t) \/ Insert(t) \/ NewSession(t) \/ StartPipe(t)
             \/ ReadIndex(t) \/ ReadIndexFails(t) \/ TruncateIndex(t)
      PROVE  Goal
  BY <1>2 DEF Spawn, LogExec, Insert, NewSession, StartPipe, ReadIndex, ReadIndexFails,
              TruncateIndex
<1>3. ASSUME NEW t \in Thread, WriteIndex(t)
      PROVE  Goal
  BY <1>3 DEF WriteIndex, Persisted
<1>4. ASSUME NEW t \in Thread,
             \/ CheckTree(t) \/ MakeTree(t) \/ ForkOpen(t) \/ LogFork(t) \/ StepFails(t)
             \/ KillChild(t) \/ KillSession(t) \/ LogKill(t)
      PROVE  Goal
  BY <1>4 DEF CheckTree, MakeTree, ForkOpen, LogFork, StepFails, KillChild, KillSession, LogKill
<1>5. ASSUME ShellExits \/ Restart \/ UNCHANGED vars
      PROVE  Goal
  BY <1>5 DEF ShellExits, Restart, vars
<1> HIDE DEF Goal
<1>6. Goal
  BY <1>1, <1>2, <1>3, <1>4, <1>5, NextIs DEF HandlerStep
<1> QED BY <1>6 DEF Goal

\* No id comes to have a backend that no client may ask for.
LEMMA NextBackends ==
  ASSUME TypeOK, RequestHeld, Backends, [Next]_vars
  PROVE  Backends'
<1> USE DEF Backends
<1>1. ASSUME NEW s \in Session, registry'[s] # NoChild
      PROVE  Allowed(s, "pty")
  <2>1. CASE registry' = registry
    BY <1>1, <2>1
  <2>2. CASE Restart
    BY <1>1, <2>2 DEF Restart
  <2>3. CASE \E t \in Thread : Insert(t)
    <3>1. PICK t \in Thread : Insert(t)
      BY <2>3
    <3>2. Allowed(request[t].session, "pty")
      BY <3>1 DEF Insert, RequestHeld
    <3> QED BY <1>1, <3>1, <3>2 DEF Insert, TypeOK
  <2> QED BY <2>1, <2>2, <2>3, WhatChanges
<1>2. ASSUME NEW t \in Thread, WriteIndex(t), NEW s \in Session
      PROVE  /\ index'[s] # NoEntry => Allowed(s, index'[s].backend)
             /\ \A x \in opened'[s] : Allowed(s, IF x = Tmux THEN "tmux" ELSE "pty")
  <2> DEFINE r == request[t]
             entry == [backend |-> r.backend, active |-> r.op # "kill"]
  <2>1. /\ r.session \in Session /\ Allowed(r.session, r.backend) /\ r.backend \in {"pty", "tmux"}
        /\ entry.backend = r.backend
    BY <1>2 DEF WriteIndex, RequestHeld, Request, Backend
  <2>2. index' = [copy[t] EXCEPT ![r.session] = entry]
    BY <1>2 DEF WriteIndex
  <2>3. opened' = opened \/ opened' = [opened EXCEPT ![r.session] = @ \cup Promise(r)]
    BY <1>2 DEF WriteIndex, Persisted
  <2>4. \A x \in Promise(r) : x = Tmux <=> r.backend = "tmux"
    BY IndexAssumption DEF Promise, TypeOK
  <2> HIDE DEF r, entry
  <2>5. copy[t] \in [Session -> Entry \cup {NoEntry}] /\ opened \in [Session -> SUBSET (Child \cup {Tmux})]
    BY DEF TypeOK
  <2>6. index'[s] # NoEntry => Allowed(s, index'[s].backend)
    BY <2>1, <2>2, <2>5
  <2>7. ASSUME NEW x \in opened'[s]
        PROVE  Allowed(s, IF x = Tmux THEN "tmux" ELSE "pty")
    <3>1. x \in opened[s] \/ (s = r.session /\ x \in Promise(r))
      BY <2>1, <2>3, <2>5, <2>7
    <3> QED BY <2>1, <2>4, <3>1
  <2> QED BY <2>6, <2>7
<1>3. ASSUME NEW t \in Thread, NEW s \in Session, copy'[t][s] # NoEntry
      PROVE  Allowed(s, copy'[t][s].backend)
  <2>1. CASE copy'[t] = copy[t]
    BY <1>3, <2>1
  <2>2. CASE copy'[t] = NoIndex
    BY <1>3, <2>2 DEF NoIndex
  <2>3. CASE ReadIndex(t)
    BY <1>3, <2>3 DEF ReadIndex, TypeOK
  <2> QED BY <2>1, <2>2, <2>3, WhatChanges
<1>4. ASSUME NEW s \in Session
      PROVE  /\ index'[s] # NoEntry => Allowed(s, index'[s].backend)
             /\ \A x \in opened'[s] : Allowed(s, IF x = Tmux THEN "tmux" ELSE "pty")
  BY <1>2, WhatChanges
<1> QED BY <1>1, <1>3, <1>4

----------------------------------------------------------------------------
(* As long as no two handlers overlap.                                     *)

\* Overlapping is never forgotten.
LEMMA RacedStays ==
  ASSUME TypeOK, [Next]_vars, ~raced'
  PROVE  ~raced
<1> USE DEF TypeOK, forkVars, procVars, indexVars, bounds
<1>1. ASSUME NEW t \in Thread, Calls(t)
      PROVE  ~raced
  BY <1>1 DEF Calls, OpenPty, OpenTmux, KillPty, KillTmux, Fork, Start, StartAt
<1>2. ASSUME NEW t \in Thread, HandlerStep(t)
      PROVE  ~raced
  BY <1>2 DEF HandlerStep, Spawn, LogExec, Insert, NewSession, StartPipe, ReadIndex,
              ReadIndexFails, TruncateIndex, WriteIndex, CheckTree, MakeTree, ForkOpen, LogFork,
              StepFails, KillChild, KillSession, LogKill
<1>3. CASE ShellExits \/ Restart \/ UNCHANGED vars
  BY <1>3 DEF ShellExits, Restart, vars
<1> QED BY <1>1, <1>2, <1>3, NextIs

\* Without faults so far no step of a handler has failed.
LEMMA FaultsStay ==
  ASSUME TypeOK, [Next]_vars, faults' = 0
  PROVE  /\ faults = 0
         /\ \A t \in Thread : ~StepFails(t)
         /\ \A t \in Thread : StartPipe(t) => pc'[t] = "exec"
         /\ Restart => \A t \in Thread : pc[t] = "idle"
<1>1. ~Fault
  BY IndexAssumption DEF Fault, TypeOK
<1>2. /\ \A t \in Thread : ~StepFails(t)
      /\ \A t \in Thread : StartPipe(t) => pc'[t] = "exec" /\ faults' = faults
      /\ Restart => faults' = faults /\ \A t \in Thread : pc[t] = "idle"
  BY <1>1 DEF StepFails, StartPipe, Restart, Goto, TypeOK
<1>3. faults' = faults
  <2> USE DEF bounds
  <2>1. ASSUME NEW t \in Thread, Calls(t)
        PROVE  faults' = faults
    BY <2>1 DEF Calls, OpenPty, OpenTmux, KillPty, KillTmux, Fork
  <2>2. ASSUME NEW t \in Thread, HandlerStep(t)
        PROVE  faults' = faults
    BY <1>2, <2>2
       DEF HandlerStep, Spawn, LogExec, Insert, NewSession, ReadIndex, ReadIndexFails,
           TruncateIndex, WriteIndex, CheckTree, MakeTree, ForkOpen, LogFork, KillChild,
           KillSession, LogKill
  <2>3. CASE ShellExits \/ UNCHANGED vars
    BY <2>3 DEF ShellExits, vars
  <2> QED BY <1>2, <2>1, <2>2, <2>3, NextIs
<1> QED BY <1>2, <1>3

\* A thread that comes to rewrite the index alone has read it alone.
LEMMA NextOneAtATime ==
  ASSUME TypeOK, RequestHeld, Backends, OneAtATime, [Next]_vars
  PROVE  OneAtATime'
<1> SUFFICES ASSUME ~raced', NEW t \in Thread, NEW u \in Thread, t # u
             PROVE  /\ ~(pc'[t] \in Rewriting /\ pc'[u] \in Rewriting)
                    /\ pc'[t] # "idle" /\ pc'[u] # "idle" =>
                         request'[t].session # request'[u].session
  BY DEF OneAtATime
<1>1. ~raced
  BY RacedStays
<1> DEFINE Apart(v, w) == /\ ~(pc[v] \in Rewriting /\ pc[w] \in Rewriting)
                          /\ pc[v] # "idle" /\ pc[w] # "idle" =>
                               request[v].session # request[w].session
<1>2. Apart(t, u)
  BY <1>1 DEF OneAtATime
<1>3. ASSUME NEW v \in Thread, NEW w \in Thread, v # w, Apart(v, w), Calls(v) \/ HandlerStep(v)
      PROVE  Apart(v, w)'
  <2>1. pc'[w] = pc[w] /\ request'[w] = request[w]
    BY <1>3, OthersWait
  <2>2. CASE Calls(v)
    <3>1. /\ pc'[v] \notin Rewriting
          /\ pc[w] # "idle" => request[w].session # request'[v].session
      BY <1>3, <2>2, CallIs DEF Rewriting
    <3> QED BY <2>1, <3>1
  <2>3. CASE HandlerStep(v) /\ pc'[v] # "idle"
    <3>1. pc[v] # "idle" /\ request'[v].session = request[v].session
      <4>1. request[v] \in Request
        BY <2>3, StepIs DEF RequestHeld
      <4>2. /\ pc[v] # "idle"
            /\ \/ request'[v] = request[v]
               \/ \E c \in Child : request'[v] = [request[v] EXCEPT !.child = c]
        BY <2>3, StepIs
      <4> QED BY <4>1, <4>2 DEF Request
    <3>2. pc'[v] \in Rewriting => pc[v] \in {"index", "truncate"}
      BY <2>3, StepIs DEF Rewriting
    <3>3. pc[v] = "index" => pc[w] \notin Rewriting
      <4>1. pc[v] = "index" => ReadIndex(v)
        BY <2>3 DEF HandlerStep, Spawn, LogExec, Insert, NewSession, StartPipe,
                    ReadIndexFails, TruncateIndex, WriteIndex, CheckTree, MakeTree, ForkOpen,
                    LogFork, StepFails, KillChild, KillSession, LogKill, Return, Goto, TypeOK
      <4>2. ReadIndex(v) => ~Overlaps(v)
        BY DEF ReadIndex
      <4> QED BY <1>3, <4>1, <4>2 DEF Overlaps
    <3> QED BY <1>3, <2>1, <3>1, <3>2, <3>3 DEF Rewriting
  <2>4. CASE pc'[v] = "idle"
    BY <2>4 DEF Rewriting
  <2> QED BY <1>3, <2>2, <2>3, <2>4
<1>4. CASE Calls(t) \/ HandlerStep(t)
  BY <1>2, <1>3, <1>4
<1>5. CASE Calls(u) \/ HandlerStep(u)
  <2>1. Apart(u, t)
    BY <1>2
  <2>2. Apart(u, t)'
    <3> HIDE DEF Apart
    <3> QED BY <1>3, <1>5, <2>1
  <2> QED BY <2>2
<1>6. CASE \E v \in Thread \ {t, u} : Calls(v) \/ HandlerStep(v)
  <2>1. UNCHANGED <<pc[t], request[t], pc[u], request[u]>>
    BY <1>6, OthersWait
  <2> QED BY <1>2, <2>1
<1>7. CASE ShellExits \/ Restart \/ UNCHANGED vars
  BY <1>2, <1>7, WorldIs DEF Rewriting
<1> QED BY <1>4, <1>5, <1>6, <1>7, NextIs

\* The label of a thread says which step of a handler it takes.
LEMMA ActionAt ==
  ASSUME TypeOK, NEW t \in Thread, HandlerStep(t), ~StepFails(t)
  PROVE  /\ pc[t] = "index" => ReadIndex(t) \/ ReadIndexFails(t)
         /\ pc[t] = "truncate" => TruncateIndex(t)
         /\ pc[t] = "write" => WriteIndex(t)
         /\ pc[t] = "insert" => Insert(t)
         /\ pc[t] = "spawn" => \E c \in Child : Spawn(t, c)
         /\ pc[t] = "exec" => LogExec(t)
         /\ pc[t] = "pipe" => StartPipe(t)
         /\ pc[t] = "checktree" => CheckTree(t)
         /\ pc[t] = "maketree" => MakeTree(t)
         /\ pc[t] = "forkopen" => ForkOpen(t)
         /\ pc[t] = "killtmux" => KillSession(t)
BY DEF HandlerStep, Spawn, LogExec, Insert, NewSession, StartPipe, ReadIndex, ReadIndexFails,
       TruncateIndex, WriteIndex, CheckTree, MakeTree, ForkOpen, LogFork, KillChild,
       KillSession, LogKill

\* What changes the text of the index, the tmux server and the workspaces.
LEMMA WhatElseChanges ==
  ASSUME TypeOK, [Next]_vars
  PROVE  /\ file' = file \/ \E t \in Thread : TruncateIndex(t) \/ WriteIndex(t)
         /\ tmux' \subseteq tmux \/ \E t \in Thread : NewSession(t)
         /\ trees' = trees \/ \E t \in Thread : pc[t] = "maketree" /\ (MakeTree(t) \/ StepFails(t))
         /\ taken \subseteq taken'
         /\ \/ children' = children /\ home' = home
            \/ \E t \in Thread, c \in Child : Spawn(t, c)
<1> USE DEF TypeOK, procVars, indexVars, forkVars
<1> DEFINE Goal ==
      /\ file' = file \/ \E t \in Thread : TruncateIndex(t) \/ WriteIndex(t)
      /\ tmux' \subseteq tmux \/ \E t \in Thread : NewSession(t)
      /\ trees' = trees \/ \E t \in Thread : pc[t] = "maketree" /\ (MakeTree(t) \/ StepFails(t))
      /\ taken \subseteq taken'
      /\ \/ children' = children /\ home' = home
         \/ \E t \in Thread, c \in Child : Spawn(t, c)
<1>1. ASSUME NEW t \in Thread, Calls(t)
      PROVE  Goal
  <2>1. UNCHANGED <<forkVars, procVars, indexVars>>
    BY <1>1 DEF Calls, OpenPty, OpenTmux, KillPty, KillTmux, Fork
  <2> QED BY <2>1
<1>2. ASSUME NEW t \in Thread,
             \/ \E c \in Child : Spawn(t, c)
             \/ LogExec(t) \/ Insert(t) \/ NewSession(t) \/ StartPipe(t)
             \/ ReadIndex(t) \/ ReadIndexFails(t) \/ TruncateIndex(t)
      PROVE  Goal
  BY <1>2 DEF Spawn, LogExec, Insert, NewSession, StartPipe, ReadIndex, ReadIndexFails,
              TruncateIndex
<1>3. ASSUME NEW t \in Thread,
             \/ WriteIndex(t) \/ CheckTree(t) \/ MakeTree(t) \/ ForkOpen(t) \/ LogFork(t)
             \/ StepFails(t) \/ KillChild(t) \/ KillSession(t) \/ LogKill(t)
      PROVE  Goal
  BY <1>3 DEF WriteIndex, CheckTree, MakeTree, ForkOpen, LogFork, StepFails, KillChild,
              KillSession, LogKill
<1>4. ASSUME ShellExits \/ Restart \/ UNCHANGED vars
      PROVE  Goal
  BY <1>4 DEF ShellExits, Restart, vars
<1> HIDE DEF Goal
<1>5. Goal
  BY <1>1, <1>2, <1>3, <1>4, NextIs DEF HandlerStep
<1> QED BY <1>5 DEF Goal

\* Of two threads, only one comes into, or stays in, the rewriting of the index.
LEMMA Rewrites ==
  ASSUME TypeOK, [Next]_vars, NEW t \in Thread
  PROVE  /\ pc'[t] = "write" => pc[t] = "write" \/ TruncateIndex(t)
         /\ pc'[t] = "truncate" => pc[t] = "truncate" \/ ReadIndex(t)
<1>1. CASE Calls(t) \/ HandlerStep(t)
  BY <1>1 DEF Calls, OpenPty, OpenTmux, KillPty, KillTmux, Fork, HandlerStep, Spawn, LogExec,
              Insert, NewSession, StartPipe, ReadIndex, ReadIndexFails, TruncateIndex, WriteIndex,
              Persisted, CheckTree, MakeTree, ForkOpen, LogFork, StepFails, KillChild,
              KillSession, LogKill, Goto, Return, TypeOK
<1>2. CASE \E u \in Thread \ {t} : Calls(u) \/ HandlerStep(u)
  BY <1>2, OthersWait
<1>3. CASE ShellExits \/ Restart \/ UNCHANGED vars
  BY <1>3, WorldIs
<1> QED BY <1>1, <1>2, <1>3, NextIs

\* One handler at a time reads and writes the index, and leaves it whole.
LEMMA NextFileHeld ==
  ASSUME TypeOK, RequestHeld, OneAtATime, FileHeld, [Next]_vars
  PROVE  FileHeld'
<1> SUFFICES ASSUME ~raced'
             PROVE  /\ \A t \in Thread : pc'[t] = "write" => file' = "empty"
                    /\ \A t \in Thread : pc'[t] \in Rewriting => copy'[t] = index'
                    /\ faults' = 0 /\ ~Readable' => \E t \in Thread : pc'[t] = "write"
  BY DEF FileHeld
<1>1. /\ ~raced
      /\ \A t \in Thread : pc[t] = "write" => file = "empty"
      /\ \A t \in Thread : pc[t] \in Rewriting => copy[t] = index
      /\ faults = 0 /\ ~Readable => \E t \in Thread : pc[t] = "write"
  BY RacedStays DEF FileHeld
<1>2. \A t, u \in Thread : pc[t] \in Rewriting /\ pc[u] \in Rewriting => t = u
  BY <1>1 DEF OneAtATime
<1>3. ASSUME NEW t \in Thread, TruncateIndex(t)
      PROVE  file' = "empty" /\ pc'[t] = "write" /\ index' = index
  BY <1>3 DEF TruncateIndex, Goto, TypeOK
<1>4. ASSUME NEW t \in Thread, WriteIndex(t)
      PROVE  pc[t] = "write" /\ file' = "whole" /\ pc'[t] \notin Rewriting
  <2>1. pc[t] = "write" /\ pc'[t] \in {"forked", "idle"}
    BY <1>4 DEF WriteIndex, Persisted, Goto, Return, TypeOK
  <2>2. file = "empty"
    BY <1>1, <2>1
  <2> QED BY <1>4, <2>1, <2>2 DEF WriteIndex, Overwritten, Rewriting
<1>5. ASSUME NEW t \in Thread, pc'[t] = "write"
      PROVE  file' = "empty"
  <2>1. pc[t] = "write" \/ TruncateIndex(t)
    BY <1>5, Rewrites
  <2>2. ASSUME NEW u \in Thread, WriteIndex(u) PROVE FALSE
    <3>1. u # t
      BY <1>4, <1>5, <2>2 DEF Rewriting
    <3>2. pc[t] \in Rewriting /\ pc[u] \in Rewriting
      BY <1>4, <2>1, <2>2 DEF TruncateIndex, Rewriting
    <3> QED BY <1>2, <3>1, <3>2
  <2> QED BY <1>1, <1>3, <2>1, <2>2, WhatElseChanges
<1>6. ASSUME NEW t \in Thread, pc'[t] \in Rewriting
      PROVE  copy'[t] = index'
  <2>1. CASE ReadIndex(t)
    BY <2>1 DEF ReadIndex, TypeOK, indexVars
  <2>2. CASE ~ReadIndex(t)
    <3>1. pc[t] \in Rewriting
      BY <1>6, <2>2, Rewrites DEF Rewriting, TruncateIndex
    <3>2. copy'[t] = copy[t]
      <4>1. CASE Calls(t) \/ HandlerStep(t)
        BY <1>6, <3>1, <4>1
           DEF Calls, OpenPty, OpenTmux, KillPty, KillTmux, Fork, HandlerStep, Spawn, LogExec,
               Insert, NewSession, StartPipe, ReadIndex, ReadIndexFails, TruncateIndex, WriteIndex,
               Persisted, CheckTree, MakeTree, ForkOpen, LogFork, StepFails, KillChild,
               KillSession, LogKill, Goto, Return, Rewriting, TypeOK
      <4>2. CASE \E u \in Thread \ {t} : Calls(u) \/ HandlerStep(u)
        BY <4>2, OthersWait
      <4>3. CASE ShellExits \/ Restart \/ UNCHANGED vars
        BY <1>6, <4>3, WorldIs DEF Rewriting
      <4> QED BY <4>1, <4>2, <4>3, NextIs
    <3>3. ASSUME NEW u \in Thread, WriteIndex(u) PROVE FALSE
      <4>1. u # t /\ pc[u] \in Rewriting
        BY <1>4, <1>6, <3>3 DEF Rewriting
      <4> QED BY <1>2, <3>1, <4>1
    <3>4. index' = index
      BY <3>3, WhatChanges
    <3> QED BY <1>1, <3>1, <3>2, <3>4
  <2> QED BY <2>1, <2>2
<1>7. ASSUME faults' = 0, ~Readable'
      PROVE  \E t \in Thread : pc'[t] = "write"
  <2>1. CASE \E t \in Thread : TruncateIndex(t)
    BY <1>3, <2>1
  <2>2. CASE \E t \in Thread : WriteIndex(t)
    BY <1>4, <1>7, <2>2 DEF Readable
  <2>3. CASE /\ ~ \E t \in Thread : TruncateIndex(t) \/ WriteIndex(t)
             /\ file' = file
    <3>1. PICK t \in Thread : pc[t] = "write"
      BY <1>1, <1>7, <2>3, FaultsStay DEF Readable
    <3>2. pc'[t] = "write"
      <4>1. CASE HandlerStep(t)
        BY <1>7, <2>3, <3>1, <4>1, ActionAt, FaultsStay
      <4>2. CASE Calls(t)
        BY <3>1, <4>2 DEF Calls, OpenPty, OpenTmux, KillPty, KillTmux, Fork, Start, StartAt
      <4>3. CASE \E u \in Thread \ {t} : Calls(u) \/ HandlerStep(u)
        BY <3>1, <4>3, OthersWait
      <4>4. CASE ShellExits \/ UNCHANGED vars
        BY <3>1, <4>4 DEF ShellExits, vars
      <4>5. CASE Restart
        BY <1>7, <3>1, <4>5, FaultsStay
      <4> QED BY <4>1, <4>2, <4>3, <4>4, <4>5, NextIs
    <3> QED BY <3>2
  <2> QED BY <2>1, <2>2, <2>3, WhatElseChanges
<1> QED BY <1>5, <1>6, <1>7

\* The handle of an id is where it was while a thread that serves the id waits.
LEMMA RegistryWaits ==
  ASSUME TypeOK, OneAtATime, [Next]_vars, ~raced, ~Restart,
         NEW t \in Thread, pc[t] # "idle", ~Insert(t)
  PROVE  registry'[request[t].session] = registry[request[t].session]
<1>1. CASE \E u \in Thread : Insert(u)
  <2>1. PICK u \in Thread : Insert(u)
    BY <1>1
  <2>2. u # t /\ pc[u] # "idle"
    BY <2>1 DEF Insert
  <2>3. request[t].session # request[u].session
    BY <2>2 DEF OneAtATime
  <2> QED BY <2>1, <2>3 DEF Insert, TypeOK
<1> QED BY <1>1, WhatChanges

\* The handle of a shell is in the registry from its insertion to a restart.
LEMMA NextPtyHeld ==
  ASSUME TypeOK, RequestHeld, Backends, OneAtATime, PtyHeld, [Next]_vars
  PROVE  PtyHeld'
<1> DEFINE Held(t) == LET r == request[t] IN
      pc[t] # "idle" /\ r.backend = "pty" /\ r.op # "kill" =>
        /\ pc[t] \in {"spawn", "exec", "insert"} => registry[r.session] = NoChild
        /\ pc[t] \in {"index", "truncate", "write"} => registry[r.session] = r.child
<1> SUFFICES ASSUME ~raced'
             PROVE  /\ \A t \in Thread : Held(t)'
                    /\ \A s \in Session : \A x \in opened'[s] : x # Tmux => registry'[s] = x
  BY DEF PtyHeld
<1>1. /\ ~raced
      /\ \A t \in Thread : Held(t)
      /\ \A s \in Session : \A x \in opened[s] : x # Tmux => registry[s] = x
  BY RacedStays DEF PtyHeld
<1>2. ASSUME NEW t \in Thread, pc'[t] = pc[t], request'[t] = request[t], ~Restart
      PROVE  Held(t)'
  <2>1. pc[t] # "idle" => registry'[request[t].session] = registry[request[t].session]
    <3>1. ~Insert(t)
      BY <1>2 DEF Insert, Goto, TypeOK
    <3> QED BY <1>1, <1>2, <3>1, RegistryWaits
  <2> QED BY <1>1, <1>2, <2>1
<1>3. ASSUME NEW t \in Thread, Calls(t)
      PROVE  Held(t)'
  <2>1. registry' = registry
    BY <1>3 DEF Calls, OpenPty, OpenTmux, KillPty, KillTmux, Fork, procVars
  <2> QED BY <1>3, <2>1, CallIs
<1>4. ASSUME NEW t \in Thread, HandlerStep(t), pc'[t] # "idle"
      PROVE  Held(t)'
  <2> DEFINE r == request[t]
             n == request'[t]
  <2>1. /\ r \in Request /\ pc[t] # "idle"
        /\ n = r \/ \E c \in Child : pc[t] = "spawn" /\ n = [r EXCEPT !.child = c]
        /\ <<pc[t], pc'[t]>> \in
              {<<"spawn", "exec">>, <<"exec", "insert">>, <<"exec", "index">>,
               <<"insert", "index">>, <<"newsession", "pipe">>, <<"pipe", "exec">>,
               <<"index", "truncate">>, <<"truncate", "write">>, <<"write", "forked">>,
               <<"checktree", "maketree">>, <<"maketree", "forkopen">>,
               <<"forkopen", "spawn">>, <<"killchild", "killed">>,
               <<"killtmux", "killed">>, <<"killed", "index">>}
        /\ pc[t] = "exec" /\ pc'[t] = "index" => r.backend # "pty"
        /\ pc[t] \in {"newsession", "pipe"} => r.backend = "tmux"
        /\ pc[t] = "killed" => r.op = "kill"
    BY <1>4, StepIs DEF RequestHeld
  <2>2. n.session = r.session /\ n.backend = r.backend /\ n.op = r.op
        /\ (pc[t] # "spawn" => n.child = r.child)
    <3> HIDE DEF n, r
    <3> QED BY <2>1 DEF Request
  <2>3. ~Restart
    BY <1>4 DEF Restart
  <2>4. CASE Insert(t)
    <3>1. /\ pc[t] = "insert" /\ pc'[t] = "index"
          /\ registry' = [registry EXCEPT ![r.session] = r.child]
      BY <2>4 DEF Insert, Goto, TypeOK
    <3>2. r.session \in Session
      BY <2>1 DEF Request
    <3> HIDE DEF n, r
    <3>3. registry'[n.session] = n.child
      BY <2>2, <3>1, <3>2 DEF TypeOK
    <3> QED BY <3>1, <3>3 DEF n
  <2>5. CASE ForkOpen(t)
    <3>1. pc'[t] = "spawn" /\ registry[r.session] = NoChild /\ registry' = registry
      BY <1>4, <2>5 DEF ForkOpen, procVars, Goto, Return, TypeOK
    <3> QED BY <2>2, <3>1
  <2>6. CASE ~Insert(t) /\ ~ForkOpen(t)
    <3>1. registry'[r.session] = registry[r.session]
      BY <1>1, <2>1, <2>3, <2>6, RegistryWaits
    <3>2. pc[t] \notin {"insert", "forkopen"}
      BY <1>4, <2>6 DEF HandlerStep, Spawn, LogExec, NewSession, StartPipe, ReadIndex,
              ReadIndexFails, TruncateIndex, WriteIndex, CheckTree, MakeTree, LogFork,
              StepFails, KillChild, KillSession, LogKill
    <3>3. pc[t] \in {"spawn", "exec", "insert"} /\ r.backend = "pty" /\ r.op # "kill"
          => registry[r.session] = NoChild
      BY <1>1
    <3>4. pc[t] \in {"index", "truncate", "write"} /\ r.backend = "pty" /\ r.op # "kill"
          => registry[r.session] = r.child
      BY <1>1
    <3> HIDE DEF n, r
    <3>5. pc'[t] \in {"spawn", "exec", "insert"} /\ r.backend = "pty" /\ r.op # "kill"
          => registry'[r.session] = NoChild
      BY <2>1, <3>1, <3>2, <3>3
    <3>6. pc'[t] \in {"index", "truncate", "write"} /\ r.backend = "pty" /\ r.op # "kill"
          => registry'[r.session] = r.child /\ pc[t] # "spawn"
      BY <2>1, <3>1, <3>2, <3>4
    <3> QED BY <2>2, <3>5, <3>6 DEF n
  <2> QED BY <2>4, <2>5, <2>6
<1>5. ASSUME NEW t \in Thread
      PROVE  Held(t)'
  <2>1. CASE pc'[t] = "idle"
    BY <2>1
  <2>2. CASE Calls(t) \/ (HandlerStep(t) /\ pc'[t] # "idle")
    BY <1>3, <1>4, <2>2
  <2>3. CASE \E u \in Thread \ {t} : Calls(u) \/ HandlerStep(u)
    <3>1. PICK u \in Thread \ {t} : Calls(u) \/ HandlerStep(u)
      BY <2>3
    <3>2. CASE Restart
      BY <2>1, <3>2 DEF Restart
    <3> QED BY <1>2, <3>1, <3>2, OthersWait
  <2>4. CASE Restart
    BY <2>1, <2>4 DEF Restart
  <2>5. CASE (ShellExits \/ UNCHANGED vars) /\ ~Restart
    <3>1. pc'[t] = pc[t] /\ request'[t] = request[t]
      BY <2>5 DEF ShellExits, vars
    <3> QED BY <1>2, <2>5, <3>1
  <2> HIDE DEF Held
  <2> QED BY <2>1, <2>2, <2>3, <2>4, <2>5, NextIs
<1>6. ASSUME NEW s \in Session, NEW x \in opened'[s], x # Tmux
      PROVE  registry'[s] = x
  <2>1. CASE opened'[s] \subseteq opened[s]
    <3>1. registry[s] = x /\ x \in Child
      BY <1>1, <1>6, <2>1 DEF TypeOK
    <3>2. CASE Restart
      BY <1>6, <3>2 DEF Restart
    <3>3. ASSUME NEW t \in Thread, Insert(t)
          PROVE  registry'[s] = x
      <4>1. pc[t] = "insert" /\ request[t].op # "kill" /\ request[t].backend = "pty"
        BY <3>3 DEF Insert, RequestHeld
      <4>2. registry[request[t].session] = NoChild
        BY <1>1, <4>1
      <4>3. s # request[t].session
        BY <3>1, <4>2, IndexAssumption
      <4> QED BY <3>1, <3>3, <4>3 DEF Insert, TypeOK
    <3> QED BY <3>1, <3>2, <3>3, WhatChanges
  <2>2. ASSUME NEW t \in Thread, WriteIndex(t)
        PROVE  registry'[s] = x
    <3> DEFINE r == request[t]
    <3>1. registry' = registry /\ pc[t] = "write"
      BY <2>2 DEF WriteIndex, procVars
    <3>2. \/ opened' = opened
          \/ r.op # "kill" /\ opened' = [opened EXCEPT ![r.session] = @ \cup Promise(r)]
      BY <2>2 DEF WriteIndex, Persisted
    <3>3. x \in opened[s] \/ (r.op # "kill" /\ s = r.session /\ x \in Promise(r))
      <4> HIDE DEF r
      <4> QED BY <1>6, <3>2 DEF TypeOK
    <3>4. CASE x \in opened[s]
      BY <1>1, <1>6, <3>1, <3>4
    <3>5. CASE r.op # "kill" /\ s = r.session /\ x \in Promise(r)
      <4>1. r.backend = "pty" /\ x = r.child
        BY <1>6, <3>1, <3>5 DEF Promise, RequestHeld, Request, Backend
      <4> QED BY <1>1, <3>1, <3>5, <4>1
    <3> QED BY <3>3, <3>4, <3>5
  <2> QED BY <2>1, <2>2, WhatChanges
<1> HIDE DEF Held
<1> QED BY <1>5, <1>6

\* A write changes the entry of one id, to one that is there, while no two
\* handlers overlapped.
LEMMA WriteIs ==
  ASSUME TypeOK, RequestHeld, FileHeld, ~raced, NEW t \in Thread, WriteIndex(t)
  PROVE  LET r == request[t] IN
         /\ pc[t] = "write" /\ r \in Request /\ tmux' = tmux
         /\ \A s \in Session \ {r.session} : index'[s] = index[s] /\ opened'[s] = opened[s]
         /\ index'[r.session] # NoEntry
         /\ index'[r.session].backend = r.backend
         /\ ~index'[r.session].active => r.op = "kill"
<1> DEFINE r == request[t]
           entry == [backend |-> r.backend, active |-> r.op # "kill"]
<1>1. pc[t] = "write" /\ copy[t] = index /\ r \in Request /\ tmux' = tmux
  BY DEF WriteIndex, FileHeld, Rewriting, RequestHeld, procVars
<1>2. /\ entry \in Entry /\ entry.backend = r.backend /\ (~entry.active => r.op = "kill")
      /\ r.session \in Session
  BY <1>1 DEF Entry, Request
<1>3. index' = [index EXCEPT ![r.session] = entry]
  BY <1>1 DEF WriteIndex
<1>4. opened' = opened \/ opened' = [opened EXCEPT ![r.session] = @ \cup Promise(r)]
  BY DEF WriteIndex, Persisted
<1> HIDE DEF entry, r
<1>5. index'[r.session] = entry /\ \A s \in Session \ {r.session} : index'[s] = index[s]
  BY <1>2, <1>3 DEF TypeOK
<1>6. \A s \in Session \ {r.session} : opened'[s] = opened[s]
  BY <1>4 DEF TypeOK
<1> QED BY <1>1, <1>2, <1>5, <1>6, IndexAssumption DEF r

\* A session of the tmux server comes from an open of its id.
LEMMA TmuxGrows ==
  ASSUME TypeOK, RequestHeld, [Next]_vars, NEW s \in tmux', s \notin tmux
  PROVE  \E t \in Thread : /\ NewSession(t) /\ pc[t] = "newsession" /\ request[t].session = s
                           /\ request'[t] = request[t] /\ pc'[t] = "pipe"
<1>1. PICK t \in Thread : NewSession(t)
  BY WhatElseChanges
<1>2. pc[t] = "newsession" /\ request[t].session = s /\ request' = request /\ Goto(t, "pipe")
  BY <1>1 DEF NewSession
<1> QED BY <1>1, <1>2 DEF Goto, TypeOK

\* The entry of a tmux session follows the session.
LEMMA NextTmuxHeld ==
  ASSUME TypeOK, RequestHeld, Backends, OneAtATime, FileHeld, TmuxHeld, [Next]_vars
  PROVE  TmuxHeld'
<1> DEFINE Killing(t) == /\ pc[t] \in {"killed", "index", "truncate", "write"}
                         /\ request[t].op = "kill" /\ request[t].backend = "tmux"
<1> SUFFICES ASSUME ~raced'
             PROVE  /\ \A t \in Thread : Killing(t)' => request'[t].session \notin tmux'
                    /\ \A s \in Session : Tmux \in opened'[s] => index'[s] # NoEntry
                    /\ faults' = 0 => \A s \in tmux' :
                         Inactive(s)' => \E t \in Thread : OpeningTmux(t, s)'
  BY DEF TmuxHeld
<1>1. /\ ~raced
      /\ \A t \in Thread : Killing(t) => request[t].session \notin tmux
      /\ \A s \in Session : Tmux \in opened[s] => index[s] # NoEntry
      /\ faults = 0 => \A s \in tmux : Inactive(s) => \E t \in Thread : OpeningTmux(t, s)
  BY RacedStays DEF TmuxHeld
<1>2. ASSUME NEW t \in Thread, Killing(t)
      PROVE  request[t].session \notin tmux'
  <2>1. SUFFICES ASSUME request[t].session \in tmux' PROVE FALSE
    OBVIOUS
  <2>2. PICK u \in Thread : pc[u] = "newsession" /\ request[u].session = request[t].session
    BY <1>1, <1>2, <2>1, TmuxGrows
  <2>3. u # t /\ pc[t] # "idle" /\ pc[u] # "idle"
    BY <1>2, <2>2
  <2> QED BY <1>1, <2>2, <2>3 DEF OneAtATime
<1>3. ASSUME NEW t \in Thread, Killing(t)'
      PROVE  request'[t].session \notin tmux'
  <2>1. CASE Killing(t) /\ request'[t] = request[t]
    BY <1>2, <2>1
  <2>2. CASE Calls(t)
    BY <1>3, <2>2, CallIs
  <2>3. CASE HandlerStep(t)
    <3> DEFINE r == request[t]
    <3>1. pc'[t] \in {"killed", "index", "truncate", "write"} /\ pc'[t] # "idle"
      BY <1>3
    <3>2. /\ pc[t] # "idle" /\ pc[t] # "spawn" /\ request'[t] = r
          /\ pc[t] \in {"exec", "insert", "index", "truncate", "killchild", "killtmux", "killed"}
      BY <2>3, <3>1, StepIs
    <3>3. pc[t] \notin {"exec", "insert", "killchild"}
      BY <1>3, <3>2 DEF RequestHeld
    <3>4. CASE pc[t] = "killtmux"
      <4>1. ~StepFails(t)
        BY <3>1 DEF StepFails, Return, Goto, TypeOK
      <4>2. KillSession(t)
        BY <2>3, <3>4, <4>1, ActionAt
      <4> QED BY <3>2, <4>2 DEF KillSession
    <3> QED BY <1>3, <2>1, <3>2, <3>3, <3>4
  <2>4. CASE \E u \in Thread \ {t} : Calls(u) \/ HandlerStep(u)
    BY <1>3, <2>1, <2>4, OthersWait
  <2>5. CASE ShellExits \/ Restart \/ UNCHANGED vars
    BY <1>3, <2>1, <2>5, WorldIs
  <2> QED BY <2>2, <2>3, <2>4, <2>5, NextIs
<1>4. ASSUME NEW s \in Session, Tmux \in opened'[s]
      PROVE  index'[s] # NoEntry
  <2>1. CASE \E t \in Thread : WriteIndex(t)
    BY <1>1, <1>4, <2>1, WriteIs
  <2>2. CASE ~ \E t \in Thread : WriteIndex(t)
    BY <1>1, <1>4, <2>2, WhatChanges
  <2> QED BY <2>1, <2>2
<1>5. ASSUME faults' = 0, NEW s \in tmux', Inactive(s)'
      PROVE  \E t \in Thread : OpeningTmux(t, s)'
  <2>1. CASE s \notin tmux
    <3>1. PICK t \in Thread : /\ pc[t] = "newsession" /\ request[t].session = s
                              /\ request'[t] = request[t] /\ pc'[t] = "pipe"
      BY <2>1, TmuxGrows
    <3> QED BY <3>1 DEF RequestHeld, OpeningTmux
  <2>2. CASE s \in tmux
    <3>1. s \in Session
      BY <2>2 DEF TypeOK
    <3>2. Inactive(s)
      <4>1. CASE \E u \in Thread : WriteIndex(u)
        <5>1. PICK u \in Thread : WriteIndex(u)
          BY <4>1
        <5>2. CASE s = request[u].session
          <6>1. /\ pc[u] = "write" /\ request[u].backend = "tmux" /\ request[u].op = "kill"
            BY <1>1, <1>5, <5>1, <5>2, WriteIs DEF Inactive
          <6> QED BY <1>1, <2>2, <5>2, <6>1
        <5>3. CASE s # request[u].session
          BY <1>1, <1>5, <3>1, <5>1, <5>3, WriteIs DEF Inactive
        <5> QED BY <5>2, <5>3
      <4>2. CASE index' = index
        BY <1>5, <4>2 DEF Inactive
      <4> QED BY <4>1, <4>2, WhatChanges
    <3>3. PICK t \in Thread : OpeningTmux(t, s)
      BY <1>1, <1>5, <2>2, <3>2, FaultsStay
    <3>4. CASE pc'[t] = pc[t] /\ request'[t] = request[t]
      BY <3>3, <3>4 DEF OpeningTmux
    <3>5. CASE HandlerStep(t)
      <4>1. ~StepFails(t) /\ (StartPipe(t) => pc'[t] = "exec")
        BY <1>5, FaultsStay
      <4>2. ~WriteIndex(t)
        BY <1>1, <1>5, <3>3, WriteIs DEF Inactive, OpeningTmux
      <4>3. ~ReadIndexFails(t)
        <5>1. SUFFICES ASSUME ReadIndexFails(t) PROVE FALSE
          OBVIOUS
        <5>2. PICK u \in Thread : pc[u] = "write"
          BY <1>1, <1>5, <5>1, FaultsStay DEF ReadIndexFails, FileHeld
        <5>3. u # t
          BY <5>1, <5>2 DEF ReadIndexFails
        <5> QED BY <5>1, <5>2, <5>3 DEF ReadIndexFails, Overlaps, Rewriting
      <4>4. CASE pc[t] = "pipe"
        <5>1. StartPipe(t) /\ pc'[t] = "exec"
          BY <3>5, <4>1, <4>4, ActionAt
        <5> QED BY <3>3, <3>5, <5>1, StepIs, <4>4 DEF OpeningTmux
      <4>5. CASE pc[t] = "exec"
        <5>1. LogExec(t)
          BY <3>5, <4>1, <4>5, ActionAt
        <5> QED BY <3>3, <5>1 DEF OpeningTmux, LogExec, Goto, TypeOK
      <4>6. CASE pc[t] = "index"
        <5>1. ReadIndex(t)
          BY <3>5, <4>1, <4>3, <4>6, ActionAt
        <5> QED BY <3>3, <5>1 DEF OpeningTmux, ReadIndex, Goto, TypeOK
      <4>7. CASE pc[t] = "truncate"
        <5>1. TruncateIndex(t)
          BY <3>5, <4>1, <4>7, ActionAt
        <5> QED BY <3>3, <5>1 DEF OpeningTmux, TruncateIndex, Goto, TypeOK
      <4>8. pc[t] # "write"
        BY <3>5, <4>1, <4>2, ActionAt
      <4> QED BY <3>3, <4>4, <4>5, <4>6, <4>7, <4>8 DEF OpeningTmux
    <3>6. CASE Calls(t)
      BY <3>3, <3>6, CallIs DEF OpeningTmux
    <3>7. CASE \E u \in Thread \ {t} : Calls(u) \/ HandlerStep(u)
      BY <3>4, <3>7, OthersWait
    <3>8. CASE ShellExits \/ UNCHANGED vars
      <4>1. pc' = pc /\ request' = request
        BY <3>8 DEF ShellExits, vars
      <4> QED BY <3>4, <4>1
    <3>9. CASE Restart
      BY <1>5, <3>3, <3>9, FaultsStay DEF OpeningTmux
    <3> QED BY <3>5, <3>6, <3>7, <3>8, <3>9, NextIs
  <2> QED BY <2>1, <2>2
<1> HIDE DEF Killing
<1> QED BY <1>3, <1>4, <1>5

----------------------------------------------------------------------------
(* Forks.                                                                  *)

\* A fork that has its workspace made it in this step, or had it before.
LEMMA Places ==
  ASSUME TypeOK, RequestHeld, Backends, [Next]_vars, NEW t \in Thread, Placing(t)'
  PROVE  /\ request'[t] = request[t] /\ request[t].fresh /\ pc[t] # "idle"
         /\ \/ Placing(t)
            \/ MakeTree(t) /\ pc[t] = "maketree" /\ request[t].workspace \in trees'
<1>1. pc'[t] \in {"forkopen", "spawn"} /\ pc'[t] # "idle" /\ request'[t].fresh
  BY DEF Placing
<1>2. CASE pc'[t] = pc[t] /\ request'[t] = request[t]
  BY <1>1, <1>2 DEF Placing
<1>3. CASE Calls(t)
  BY <1>1, <1>3, CallIs
<1>4. CASE HandlerStep(t)
  <2>1. pc[t] \in {"maketree", "forkopen"} /\ request'[t] = request[t]
    BY <1>1, <1>4, StepIs
  <2>2. CASE pc[t] = "forkopen"
    BY <1>1, <2>1, <2>2 DEF Placing
  <2>3. CASE pc[t] = "maketree"
    <3>1. ~StepFails(t)
      BY <1>1 DEF StepFails, Return, Goto, TypeOK
    <3>2. MakeTree(t)
      BY <1>4, <2>3, <3>1, ActionAt
    <3>3. request[t].workspace \in trees'
      BY <1>1, <3>2 DEF MakeTree, Return, Goto, TypeOK
    <3> QED BY <1>1, <2>1, <2>3, <3>2, <3>3
  <2> QED BY <2>1, <2>2, <2>3
<1>5. CASE \E u \in Thread \ {t} : Calls(u) \/ HandlerStep(u)
  BY <1>2, <1>5, OthersWait
<1>6. CASE ShellExits \/ Restart \/ UNCHANGED vars
  BY <1>1, <1>2, <1>6, WorldIs
<1> QED BY <1>3, <1>4, <1>5, <1>6, NextIs

\* Workspaces stay; a new one is that of a fork that makes it.
LEMMA TreesGrow ==
  ASSUME TypeOK, [Next]_vars
  PROVE  /\ trees \subseteq trees'
         /\ \A w \in trees' \ trees : \E t \in Thread :
              /\ pc[t] = "maketree" /\ request[t].workspace = w /\ pc'[t] # "maketree"
              /\ StepFails(t) \/ (pc'[t] = "forkopen" /\ request'[t] = request[t])
<1>1. CASE trees' = trees
  BY <1>1
<1>2. ASSUME NEW t \in Thread, pc[t] = "maketree", MakeTree(t)
      PROVE  /\ trees \subseteq trees'
             /\ \A w \in trees' \ trees : request[t].workspace = w /\ pc'[t] = "forkopen"
                                          /\ request'[t] = request[t]
  BY <1>2 DEF MakeTree, Goto, TypeOK
<1>3. ASSUME NEW t \in Thread, pc[t] = "maketree", StepFails(t)
      PROVE  /\ trees \subseteq trees' /\ pc'[t] = "idle"
             /\ \A w \in trees' \ trees : request[t].workspace = w
  BY <1>3 DEF StepFails, Return, Goto, TypeOK
<1> QED BY <1>1, <1>2, <1>3, WhatElseChanges

\* A new shell is given the workspace of its request.
LEMMA ChildrenGrow ==
  ASSUME TypeOK, [Next]_vars
  PROVE  \/ children' = children /\ home' = home
         \/ \E t \in Thread, c \in Child \ children :
              /\ Spawn(t, c)
              /\ pc[t] = "spawn" /\ pc'[t] = "exec"
              /\ children' = children \cup {c}
              /\ home'[c] = [workspace |-> request[t].workspace, fresh |-> request[t].fresh]
              /\ \A d \in children : home'[d] = home[d]
<1>1. ASSUME NEW t \in Thread, NEW c \in Child, Spawn(t, c)
      PROVE  /\ pc[t] = "spawn" /\ pc'[t] = "exec" /\ c \notin children
             /\ children' = children \cup {c}
             /\ home'[c] = [workspace |-> request[t].workspace, fresh |-> request[t].fresh]
             /\ \A d \in children : home'[d] = home[d]
  BY <1>1 DEF Spawn, Goto, TypeOK
<1> QED BY <1>1, WhatElseChanges

\* The home of a shell that a fork placed.
LEMMA HomeIs ==
  ASSUME NEW w, NEW h \in [workspace : Workspace, fresh : BOOLEAN]
  PROVE  h = HomeOf(w) <=> h.workspace = w /\ h.fresh
<1>1. PICK fresh \in BOOLEAN : HomeOf(w) = [workspace |-> w, fresh |-> fresh] /\ fresh
  BY DEF HomeOf
<1>2. h = [workspace |-> h.workspace, fresh |-> h.fresh] /\ h.fresh \in BOOLEAN
  OBVIOUS
<1> QED BY <1>1, <1>2

\* Two forks with one workspace are about one id.
LEMMA OneFork ==
  ASSUME TypeOK, RequestHeld, OneAtATime, ~raced, NEW t \in Thread, NEW u \in Thread,
         pc[t] # "idle", pc[u] # "idle", request[t].fresh, request[u].fresh,
         request[t].workspace = request[u].workspace
  PROVE  t = u
<1>1. request[t].session = request[u].session
  BY DEF RequestHeld
<1> QED BY <1>1 DEF OneAtATime

\* A workspace is made once and given to one shell.
LEMMA NextForkHeld ==
  ASSUME TypeOK, RequestHeld, Backends, OneAtATime, ForkHeld, [Next]_vars
  PROVE  ForkHeld'
<1>0. TypeOK'
  BY NextTypes
<1>a. /\ \A w : \A c \in Child : home[c] = HomeOf(w) <=> home[c].workspace = w /\ home[c].fresh
      /\ \A w : \A c \in Child : home'[c] = HomeOf(w) <=> home'[c].workspace = w /\ home'[c].fresh
  BY <1>0, HomeIs DEF TypeOK
<1>1. ASSUME NEW c \in children', home'[c].fresh
      PROVE  home'[c].workspace \in trees'
  <2>1. CASE c \in children /\ home'[c] = home[c]
    BY <1>1, <2>1, TreesGrow DEF ForkHeld
  <2>2. ASSUME NEW t \in Thread, pc[t] = "spawn",
               home'[c] = [workspace |-> request[t].workspace, fresh |-> request[t].fresh]
        PROVE  home'[c].workspace \in trees'
    <3>1. Placing(t) /\ home'[c].workspace = request[t].workspace
      BY <1>1, <2>2 DEF Placing
    <3> QED BY <3>1, TreesGrow DEF ForkHeld
  <2> QED BY <2>1, <2>2, ChildrenGrow
<1>2. ASSUME NEW t \in Thread, Placing(t)'
      PROVE  request'[t].workspace \in trees'
  BY <1>2, Places, TreesGrow DEF ForkHeld
<1> DEFINE Fresh == \A t \in Thread : pc[t] = "maketree" => request[t].workspace \notin trees
           Free == \A t \in Thread : Placing(t) =>
                     \A c \in children : home[c] # HomeOf(request[t].workspace)
           Apart == \A c, d \in children : home[c].fresh /\ home[c] = home[d] => c = d
           Covered == \A w \in trees :
                        \/ w \in taken
                        \/ \E c \in children : home[c] = HomeOf(w)
                        \/ \E t \in Thread : Placing(t) /\ request[t].workspace = w
<1>3. SUFFICES ASSUME ~raced'
               PROVE  Fresh' /\ Free' /\ Apart' /\ (faults' = 0 => Covered')
  <2> HIDE DEF HomeOf
  <2> QED BY <1>1, <1>2 DEF ForkHeld
<1>4. /\ ~raced
      /\ Fresh /\ Free /\ Apart /\ (faults = 0 => Covered)
  <2>1. ~raced
    BY <1>3, RacedStays
  <2> QED BY <2>1 DEF ForkHeld
<1>5. Fresh'
  <2> SUFFICES ASSUME NEW t \in Thread, pc'[t] = "maketree"
               PROVE  request'[t].workspace \notin trees'
    OBVIOUS
  <2>1. CASE pc[t] = "maketree" /\ request'[t] = request[t]
    <3>1. SUFFICES ASSUME request[t].workspace \in trees' PROVE FALSE
      BY <2>1
    <3>2. PICK u \in Thread : /\ pc[u] = "maketree" /\ pc'[u] # "maketree"
                              /\ request[u].workspace = request[t].workspace
      BY <1>4, <2>1, <3>1, TreesGrow
    <3>3. t = u
      BY <1>4, <2>1, <3>2, OneFork DEF RequestHeld
    <3> QED BY <3>2, <3>3
  <2>2. CASE Calls(t)
    BY <2>2, CallIs
  <2>3. CASE HandlerStep(t)
    <3>1. pc[t] = "checktree"
      BY <2>3, StepIs
    <3>2. ~StepFails(t)
      BY DEF StepFails, Return, Goto, TypeOK
    <3>3. CheckTree(t)
      BY <2>3, <3>1, <3>2, ActionAt
    <3> QED BY <3>3 DEF CheckTree, forkVars, Return, Goto, TypeOK
  <2>4. CASE \E u \in Thread \ {t} : Calls(u) \/ HandlerStep(u)
    BY <2>1, <2>4, OthersWait
  <2>5. CASE ShellExits \/ Restart \/ UNCHANGED vars
    BY <2>1, <2>5, WorldIs
  <2> QED BY <2>2, <2>3, <2>4, <2>5, NextIs
<1>6. Free'
  <2> SUFFICES ASSUME NEW t \in Thread, Placing(t)', NEW c \in children',
                      home'[c] = HomeOf(request'[t].workspace)
               PROVE  FALSE
    OBVIOUS
  <2>1. /\ request'[t] = request[t] /\ request[t].fresh /\ pc[t] # "idle"
        /\ Placing(t) \/ (pc[t] = "maketree" /\ MakeTree(t))
    BY Places
  <2>2. CASE c \in children /\ home'[c] = home[c]
    <3>1. CASE Placing(t)
      BY <1>4, <2>1, <2>2, <3>1
    <3>2. CASE pc[t] = "maketree"
      <4>1. request[t].workspace \notin trees
        BY <1>4, <3>2
      <4>2. home[c].fresh /\ home[c].workspace = request[t].workspace
        BY <1>a, <2>1, <2>2 DEF TypeOK
      <4> QED BY <2>2, <4>1, <4>2 DEF ForkHeld
    <3> QED BY <2>1, <3>1, <3>2
  <2>3. CASE ~(c \in children /\ home'[c] = home[c])
    <3>1. PICK u \in Thread :
            /\ pc[u] = "spawn" /\ pc'[u] = "exec"
            /\ home'[c] = [workspace |-> request[u].workspace, fresh |-> request[u].fresh]
      BY <2>3, ChildrenGrow
    <3>2. request[u].workspace = request[t].workspace /\ request[u].fresh
      <4>1. home'[c].workspace = request[t].workspace /\ home'[c].fresh
        BY <1>0, <1>a, <2>1 DEF TypeOK
      <4> QED BY <3>1, <4>1
    <3>3. t = u
      BY <1>4, <2>1, <3>1, <3>2, OneFork
    <3> QED BY <3>1, <3>3 DEF Placing
  <2> QED BY <2>2, <2>3
<1>7. Apart'
  <2>1. CASE children' = children /\ home' = home
    BY <1>4, <2>1
  <2>2. ASSUME NEW t \in Thread, NEW c \in Child \ children,
               pc[t] = "spawn", children' = children \cup {c},
               home'[c] = [workspace |-> request[t].workspace, fresh |-> request[t].fresh],
               \A d \in children : home'[d] = home[d]
        PROVE  Apart'
    <3>1. ASSUME NEW d \in children, home[d].fresh \/ request[t].fresh, home[d] = home'[c]
          PROVE  FALSE
      <4>1. home'[c].workspace = request[t].workspace /\ home'[c].fresh = request[t].fresh
        BY <2>2
      <4>2. request[t].fresh /\ home[d] = HomeOf(request[t].workspace)
        BY <1>a, <3>1, <4>1 DEF TypeOK
      <4> QED BY <1>4, <2>2, <4>2 DEF Placing
    <3>2. \A d \in children : home'[d].fresh /\ home'[d] = home'[c] => FALSE
      BY <2>2, <3>1
    <3>3. \A d \in children : home'[c].fresh /\ home'[d] = home'[c] => FALSE
      BY <2>2, <3>1
    <3> QED BY <1>4, <2>2, <3>2, <3>3
  <2> QED BY <2>1, <2>2, ChildrenGrow
<1>8. ASSUME faults' = 0
      PROVE  Covered'
  <2> SUFFICES ASSUME NEW w \in trees'
               PROVE  \/ w \in taken'
                      \/ \E c \in children' : home'[c] = HomeOf(w)
                      \/ \E t \in Thread : Placing(t)' /\ request'[t].workspace = w
    OBVIOUS
  <2>1. faults = 0 /\ \A t \in Thread : ~StepFails(t)
    BY <1>8, FaultsStay
  <2>2. CASE w \notin trees
    BY <2>1, <2>2, TreesGrow DEF RequestHeld, Placing
  <2>3. CASE w \in taken
    BY <2>3, WhatElseChanges
  <2>4. CASE \E c \in children : home[c] = HomeOf(w)
    BY <2>4, ChildrenGrow
  <2>5. ASSUME NEW t \in Thread, Placing(t), request[t].workspace = w
        PROVE  \/ w \in taken'
               \/ \E c \in children' : home'[c] = HomeOf(w)
               \/ Placing(t)' /\ request'[t].workspace = w
    <3>1. CASE pc'[t] = pc[t] /\ request'[t] = request[t]
      BY <2>5, <3>1 DEF Placing
    <3>2. CASE HandlerStep(t)
      <4>1. CASE pc[t] = "forkopen"
        <5>1. ForkOpen(t)
          BY <2>1, <3>2, <4>1, ActionAt
        <5> QED BY <2>5, <5>1 DEF ForkOpen, Placing, Goto, TypeOK
      <4>2. CASE pc[t] = "spawn"
        <5>1. PICK c \in Child : Spawn(t, c)
          BY <2>1, <3>2, <4>2, ActionAt
        <5>2. c \in children' /\ home'[c] = [workspace |-> w, fresh |-> request[t].fresh]
          BY <2>5, <5>1 DEF Spawn, TypeOK
        <5>3. home'[c].workspace = w /\ home'[c].fresh
          BY <2>5, <5>2 DEF Placing
        <5> QED BY <1>a, <5>2, <5>3
      <4> QED BY <2>5, <4>1, <4>2 DEF Placing
    <3>3. CASE Calls(t)
      BY <2>5, <3>3, CallIs DEF Placing
    <3>4. CASE \E u \in Thread \ {t} : Calls(u) \/ HandlerStep(u)
      BY <3>1, <3>4, OthersWait
    <3>5. CASE ShellExits \/ UNCHANGED vars
      <4>1. pc' = pc /\ request' = request
        BY <3>5 DEF ShellExits, vars
      <4> QED BY <3>1, <4>1
    <3>6. CASE Restart
      BY <1>8, <2>5, <3>6, FaultsStay DEF Placing
    <3> QED BY <3>2, <3>3, <3>4, <3>5, <3>6, NextIs
  <2> QED BY <1>4, <2>1, <2>2, <2>3, <2>4, <2>5
<1> HIDE DEF Fresh, Free, Apart, Covered
<1> QED BY <1>5, <1>6, <1>7, <1>8

----------------------------------------------------------------------------
(* The invariant and what follows from it.                                 *)

\* The invariant holds before the first request.
LEMMA InitIInv ==
  ASSUME Init
  PROVE  IInv
<1>1. TypeOK
  <2>1. NoIndex \in [Session -> Entry \cup {NoEntry}]
    BY DEF NoIndex
  <2>2. PICK fresh \in BOOLEAN : home = [c \in Child |-> [workspace |-> Main, fresh |-> fresh]]
    BY DEF Init
  <2>3. Main \in Workspace
    BY DEF Main, Workspace
  <2>4. home \in [Child -> [workspace : Workspace, fresh : BOOLEAN]]
    BY <2>2, <2>3
  <2>5. /\ registry \in [Session -> Child \cup {NoChild}]
        /\ pc \in [Thread -> Labels \cup {"idle"}]
        /\ request \in [Thread -> Request \cup {Idle}]
        /\ opened \in [Session -> SUBSET (Child \cup {Tmux})]
        /\ copy \in [Thread -> [Session -> Entry \cup {NoEntry}]]
    BY <2>1 DEF Init
  <2>6. /\ requests \in 0..MaxRequests /\ restarts \in 0..MaxRestarts
        /\ faults \in 0..MaxFaults
    BY IndexAssumption DEF Init
  <2>7. /\ children \in SUBSET Child /\ alive \in SUBSET children /\ tmux \in SUBSET Session
        /\ index \in [Session -> Entry \cup {NoEntry}]
        /\ file \in {"whole", "empty", "torn"} /\ raced \in BOOLEAN
        /\ trees \in SUBSET Workspace /\ taken \in SUBSET Workspace
    BY <2>1 DEF Init
  <2> QED BY <2>4, <2>5, <2>6, <2>7 DEF TypeOK
<1>2. RequestHeld /\ Backends /\ OneAtATime /\ PtyHeld
  <2>1. /\ \A t \in Thread : pc[t] = "idle" /\ copy[t] = NoIndex
        /\ \A s \in Session : registry[s] = NoChild /\ opened[s] = {} /\ index[s] = NoEntry
    BY DEF Init, NoIndex
  <2>2. RequestHeld
    BY <2>1 DEF RequestHeld
  <2>3. Backends
    BY <2>1 DEF Backends, NoIndex
  <2>4. OneAtATime
    BY <2>1 DEF OneAtATime, Rewriting
  <2>5. PtyHeld
    BY <2>1 DEF PtyHeld
  <2> QED BY <2>2, <2>3, <2>4, <2>5
<1>3. FileHeld /\ TmuxHeld /\ ForkHeld
  BY DEF Init, FileHeld, TmuxHeld, ForkHeld, Placing, Rewriting, Readable
<1> QED BY <1>1, <1>2, <1>3 DEF IInv

\* Every step keeps the invariant.
LEMMA NextIInv ==
  ASSUME IInv, [Next]_vars
  PROVE  IInv'
<1> USE DEF IInv
<1>1. TypeOK'
  BY NextTypes
<1>2. RequestHeld' /\ Backends' /\ OneAtATime'
  BY NextRequestHeld, NextBackends, NextOneAtATime
<1>3. FileHeld' /\ PtyHeld' /\ TmuxHeld' /\ ForkHeld'
  BY NextFileHeld, NextPtyHeld, NextTmuxHeld, NextForkHeld
<1> QED BY <1>1, <1>2, <1>3

\* The invariant of registry, index, tmux server and workspaces holds in every
\* state of every daemon.
THEOREM InvariantHolds == Spec => []IInv
<1>1. Init => IInv
  BY InitIInv
<1>2. IInv /\ [Next]_vars => IInv'
  BY NextIInv
<1> QED BY <1>1, <1>2, PTL DEF Spec

\* Every variable stays in its type.
THEOREM TypeCorrect == Spec => []TypeOK
<1>1. IInv => TypeOK
  BY DEF IInv
<1> QED BY <1>1, InvariantHolds, PTL

\* Whatever is forked, killed, fails or restarts, the workspace a fork made is
\* that of one session, as long as no two handlers of an id overlapped; one of
\* no session is left by a failed step or by a fork whose target was in use.
THEOREM WorkspacesApart == Spec => []ForksApart
<1>1. IInv => ForksApart
  <2> SUFFICES ASSUME IInv, ~raced
               PROVE  /\ \A c, d \in children : home[c].fresh /\ home[c] = home[d] => c = d
                      /\ Quiet /\ faults = 0 =>
                           \A w \in trees :
                             \/ w \in taken
                             \/ \E c \in children : home[c] = HomeOf(w)
    BY DEF ForksApart, HomeOf
  <2>1. \A c, d \in children : home[c].fresh /\ home[c] = home[d] => c = d
    BY DEF IInv, ForkHeld
  <2>2. Quiet => \A t \in Thread : ~Placing(t)
    BY DEF Quiet, Placing
  <2> QED BY <2>1, <2>2 DEF IInv, ForkHeld
<1> QED BY <1>1, InvariantHolds, PTL

\* Every running session whose open returned is found by its id, after any
\* restarts and failures, unless two handlers overlapped or the id is opened
\* with both backends.
THEOREM Reachable == Spec => []ReachableUnlessRaced
<1>1. IInv => ReachableUnlessRaced
  <2> SUFFICES ASSUME IInv, ~raced, Quiet, Readable, NEW s \in Session, Lost(s)
               PROVE  Mixed(s)
    BY DEF ReachableUnlessRaced
  <2>1. PICK x \in opened[s] : ~Finds(s, x)
    BY DEF Lost
  <2>2. x = Tmux
    BY <2>1, IndexAssumption DEF IInv, PtyHeld, Finds, TypeOK
  <2>3. index[s] # NoEntry /\ Allowed(s, index[s].backend) /\ index[s].backend \in Backend
    BY <2>1, <2>2 DEF IInv, TmuxHeld, Backends, TypeOK, Entry
  <2>4. <<s, "tmux">> \in Opens
    BY <2>1, <2>2 DEF IInv, Backends, Allowed
  <2>5. Allowed(s, "pty")
    BY <2>1, <2>2, <2>3 DEF IInv, Backends, Finds, Backend
  <2> QED BY <2>4, <2>5 DEF Mixed, Allowed
<1> QED BY <1>1, InvariantHolds, PTL

\* An id never names two running sessions, unless two opens of it overlapped or
\* it is opened with both backends.
THEOREM OneSession == Spec => []OneSessionPerId
<1>1. IInv => OneSessionPerId
  <2> SUFFICES ASSUME IInv, ~raced, NEW s \in Session, ~Mixed(s)
               PROVE  Cardinality(opened[s]) <= 1
    BY DEF OneSessionPerId
  <2>1. \A x \in opened[s] : x # Tmux => registry[s] = x /\ Allowed(s, "pty")
    BY DEF IInv, PtyHeld, Backends
  <2>2. Tmux \in opened[s] => <<s, "tmux">> \in Opens
    BY DEF IInv, Backends, Allowed
  <2>3. \A x, y \in opened[s] : x = y
    BY <2>1, <2>2 DEF Mixed, Allowed
  <2>4. CASE opened[s] = {}
    BY <2>4, FS_EmptySet
  <2>5. CASE opened[s] # {}
    <3>1. PICK x : opened[s] = {x}
      BY <2>3, <2>5
    <3> QED BY <3>1, FS_Singleton
  <2> QED BY <2>4, <2>5
<1> QED BY <1>1, InvariantHolds, PTL

\* Only a failed step, a stop within a request, or two handlers that overlapped
\* leave an index that does not parse, or one that calls inactive an entry whose
\* session is still in the tmux server.
THEOREM IndexTrue == Spec => []IndexIsTrue
<1>1. IInv => IndexIsTrue
  <2> SUFFICES ASSUME IInv, Quiet, faults = 0, ~raced
               PROVE  Readable /\ \A s \in tmux : ~Inactive(s)
    BY DEF IndexIsTrue, Inactive
  <2>1. Readable
    BY DEF IInv, FileHeld, Quiet
  <2>2. ASSUME NEW s \in tmux, Inactive(s) PROVE FALSE
    BY <2>2 DEF IInv, TmuxHeld, OpeningTmux, Quiet
  <2> QED BY <2>1, <2>2
<1> QED BY <1>1, InvariantHolds, PTL
=============================================================================
