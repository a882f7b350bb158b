--------------------------- MODULE SessionIndex ---------------------------
(***************************************************************************)
(* Which terminals a daemon can reach: the registry of SessionManager, the *)
(* durable index sessions.json and the tmux server; and the workspaces of  *)
(* forks (src/session.rs: open, kill, fork, persist_metadata).             *)
(*                                                                         *)
(* A pty session lives in the registry of the daemon that opened it and    *)
(* dies with it.  A tmux session lives in the tmux server; a daemon knows  *)
(* it only through the index.  The registry is behind a mutex, the index   *)
(* is read, changed and rewritten without one, and fs::write truncates     *)
(* before it writes.  One daemon at a time, with several handler threads.  *)
(*                                                                         *)
(* safe_filename is taken to be injective on the ids in use and no id in   *)
(* use to be the beginning of another, so that an id is also the name of   *)
(* its tmux session (TmuxSession has ids of which one begins another).     *)
(*                                                                         *)
(* The workspace of a fork is a directory named for its target, beside the *)
(* workspace of its source: here the path of targets from the workspace    *)
(* that clients open, which is the empty one.                              *)
(***************************************************************************)
EXTENDS Integers, Sequences, FiniteSets

CONSTANTS
  Thread,        \* handler threads
  Session,       \* session ids
  Child,         \* shells a pty session may be given, a new one per open
  Opens,         \* the pairs of id and backend clients ask to open
  Forks,         \* the source, target and copy_worktree clients ask to fork
  NoChild,       \* no shell
  NoEntry,       \* no entry in the index
  Idle,          \* no request
  MaxRequests,   \* bound: requests of a behaviour
  MaxRestarts,   \* bound: restarts between requests
  MaxFaults      \* bound: failed steps and restarts within a request

Backend == {"pty", "tmux"}
Tmux == "tmux session"   \* what is behind a tmux id, beside the children
Entry == [backend : Backend, active : BOOLEAN]

ASSUME IndexAssumption ==
  /\ Opens \subseteq Session \X Backend
  /\ Forks \subseteq Session \X Session \X BOOLEAN
  /\ NoChild \notin Child /\ Tmux \notin Child /\ NoEntry \notin Entry
  /\ MaxRequests \in Nat /\ MaxRestarts \in Nat /\ MaxFaults \in Nat

VARIABLES
  registry,      \* sessions: per id, the shell of its handle
  children,      \* shells started so far
  alive,         \* shells that run
  tmux,          \* sessions the tmux server runs
  index,         \* sessions.json: per id, its entry
  file,          \* sessions.json: whole, empty or torn (the last two do not parse)
  pc,            \* per thread: where it is in its request
  request,       \* per thread: the request it serves
  copy,          \* per thread: the index it read
  trees,         \* the workspaces that forks made
  home,          \* per shell: its workspace, and whether its fork made that
  taken,         \* forks whose target was in the registry (history)
  opened,        \* per id: what an open returned Ok for, still running and not
                 \* asked to be killed (history)
  raced,         \* two handlers have overlapped on the index or on one id
                 \* (history)
  requests, restarts, faults

indexVars == <<index, file>>
procVars == <<registry, children, alive, tmux>>
forkVars == <<trees, home, taken>>
bounds == <<requests, restarts, faults>>
vars == <<registry, children, alive, tmux, index, file, pc, request, copy,
          trees, home, taken, opened, raced, requests, restarts, faults>>

NoIndex == [s \in Session |-> NoEntry]
Readable == file = "whole"   \* a missing file reads as an index without entries

Labels == {"spawn", "newsession", "pipe", "exec", "insert", "index",
           "truncate", "write", "killchild", "killtmux", "killed",
           "checktree", "maketree", "forkopen", "forked"}
Rewriting == {"truncate", "write"}

Workspace == Seq(Session)
Main == << >>

Request == [op : {"open", "kill", "fork"}, session : Session, backend : Backend,
            child : Child \cup {NoChild}, workspace : Workspace, fresh : BOOLEAN]

Init ==
  /\ registry = [s \in Session |-> NoChild]
  /\ children = {}
  /\ alive = {}
  /\ tmux = {}
  /\ index = NoIndex
  /\ file = "whole"
  /\ pc = [t \in Thread |-> "idle"]
  /\ request = [t \in Thread |-> Idle]
  /\ copy = [t \in Thread |-> NoIndex]
  /\ trees = {} /\ taken = {}
  /\ home = [c \in Child |-> [workspace |-> Main, fresh |-> FALSE]]
  /\ opened = [s \in Session |-> {}]
  /\ raced = FALSE
  /\ requests = 0
  /\ restarts = 0
  /\ faults = 0

Goto(t, label) == pc' = [pc EXCEPT ![t] = label]

Return(t) == /\ Goto(t, "idle")
             /\ request' = [request EXCEPT ![t] = Idle]
             /\ copy' = [copy EXCEPT ![t] = NoIndex]

StartAt(t, op, s, b, c, w, fresh) ==
  /\ pc[t] = "idle"
  /\ requests < MaxRequests
  /\ requests' = requests + 1
  /\ request' = [request EXCEPT ![t] = [op |-> op, session |-> s, backend |-> b,
                                        child |-> c, workspace |-> w,
                                        fresh |-> fresh]]
  /\ raced' = (raced \/ \E u \in Thread : /\ pc[u] # "idle"
                                         /\ request[u].session = s)

Start(t, op, s, b, c) == StartAt(t, op, s, b, c, Main, FALSE)

ActiveEntry(s) == index[s] # NoEntry /\ index[s].active

Fault == faults < MaxFaults /\ faults' = faults + 1

----------------------------------------------------------------------------
(* open with the pty backend                                               *)

\* Mutant: open does not look into the registry.
OpenPty_NoCheck(t, s) ==
  /\ <<s, "pty">> \in Opens
  /\ Start(t, "open", s, "pty", NoChild)
  /\ Goto(t, "spawn")
  /\ UNCHANGED <<forkVars, procVars, indexVars, copy, opened, restarts, faults>>

\* The registry is asked under its mutex, which is released at once.
OpenPty(t, s) ==
  /\ <<s, "pty">> \in Opens
  /\ registry[s] = NoChild
  /\ Start(t, "open", s, "pty", NoChild)
  /\ Goto(t, "spawn")
  /\ UNCHANGED <<forkVars, procVars, indexVars, copy, opened, restarts, faults>>

Spawn(t, c) ==
  /\ pc[t] = "spawn"
  /\ c \notin children
  /\ children' = children \cup {c}
  /\ alive' = alive \cup {c}
  /\ request' = [request EXCEPT ![t].child = c]
  /\ home' = [home EXCEPT ![c] = [workspace |-> request[t].workspace,
                                  fresh |-> request[t].fresh]]
  /\ Goto(t, "exec")
  /\ UNCHANGED <<trees, taken, registry, tmux, indexVars, copy, opened, raced, bounds>>

\* Append the Exec event.
LogExec(t) ==
  /\ pc[t] = "exec"
  /\ Goto(t, IF request[t].backend = "pty" THEN "insert" ELSE "index")
  /\ UNCHANGED <<forkVars, procVars, indexVars, request, copy, opened, raced, bounds>>

\* HashMap::insert replaces the handle of another open of the same id.
Insert(t) ==
  LET r == request[t] IN
  /\ pc[t] = "insert"
  /\ registry' = [registry EXCEPT ![r.session] = r.child]
  /\ Goto(t, "index")
  /\ UNCHANGED <<forkVars, children, alive, tmux, indexVars, request, copy, opened, raced, bounds>>

----------------------------------------------------------------------------
(* open with the tmux backend                                              *)

\* Any active entry with the id, whatever its backend, refuses the open.
OpenTmux(t, s) ==
  /\ <<s, "tmux">> \in Opens
  /\ Readable
  /\ ~ActiveEntry(s)
  /\ Start(t, "open", s, "tmux", NoChild)
  /\ Goto(t, "newsession")
  /\ UNCHANGED <<forkVars, procVars, indexVars, copy, opened, restarts, faults>>

\* has-session, then new-session, which refuses a name in use as well.
NewSession(t) ==
  LET s == request[t].session IN
  /\ pc[t] = "newsession"
  /\ \/ /\ s \notin tmux
        /\ tmux' = tmux \cup {s}
        /\ Goto(t, "pipe")
        /\ UNCHANGED <<request, copy>>
     \/ /\ s \in tmux
        /\ Return(t)
        /\ UNCHANGED tmux
  /\ UNCHANGED <<forkVars, registry, children, alive, indexVars, opened, raced, bounds>>

\* start_tmux_pipe; an error kills the session again.
StartPipe(t) ==
  /\ pc[t] = "pipe"
  /\ \/ /\ Goto(t, "exec")
        /\ UNCHANGED <<tmux, request, copy, faults>>
     \/ /\ Fault
        /\ tmux' = tmux \ {request[t].session}
        /\ Return(t)
  /\ UNCHANGED <<forkVars, registry, children, alive, indexVars, opened, raced, requests,
                 restarts>>

----------------------------------------------------------------------------
(* persist_metadata: read_index, change one entry, write_index             *)

Overlaps(t) == \E u \in Thread \ {t} : pc[u] \in Rewriting

ReadIndex(t) ==
  /\ pc[t] = "index"
  /\ Readable
  /\ copy' = [copy EXCEPT ![t] = index]
  /\ raced' = (raced \/ Overlaps(t))
  /\ Goto(t, "truncate")
  /\ UNCHANGED <<forkVars, procVars, indexVars, request, opened, bounds>>

\* The index does not parse: the request fails, what it started goes on.
ReadIndexFails(t) ==
  /\ pc[t] = "index"
  /\ ~Readable
  /\ raced' = (raced \/ Overlaps(t))
  /\ Return(t)
  /\ UNCHANGED <<forkVars, procVars, indexVars, opened, bounds>>

TruncateIndex(t) ==
  /\ pc[t] = "truncate"
  /\ file' = "empty"
  /\ Goto(t, "write")
  /\ UNCHANGED <<forkVars, procVars, index, request, copy, opened, raced, bounds>>

\* What an open that returns Ok now promises to the client.
Promise(r) == IF r.backend = "tmux"
              THEN IF r.session \in tmux THEN {Tmux} ELSE {}
              ELSE {r.child} \cap alive

\* What a write makes of the file: when another handler wrote since this one
\* truncated, the end of a longer text stays behind this one's.
Overwritten == IF file = "empty" THEN {"whole"} ELSE {"whole", "torn"}

\* What follows the write; the open within a fork returns to the fork.
Persisted(t) ==
  LET r == request[t] IN
  /\ opened' = IF r.op = "kill" THEN opened
               ELSE [opened EXCEPT ![r.session] = @ \cup Promise(r)]
  /\ \/ r.op = "fork" /\ Goto(t, "forked") /\ UNCHANGED <<request, copy>>
     \/ r.op # "fork" /\ Return(t)

\* Mutant: the index is rewritten with the one entry only.
WriteIndex_Replaces(t) ==
  LET r == request[t] IN
  /\ pc[t] = "write"
  /\ index' = [NoIndex EXCEPT ![r.session] = [backend |-> r.backend,
                                              active |-> r.op # "kill"]]
  /\ file' \in Overwritten
  /\ Persisted(t)
  /\ UNCHANGED <<forkVars, procVars, raced, bounds>>

\* An open persists an active entry, the kill of a tmux session the entry it
\* read at its start with active cleared.
WriteIndex(t) ==
  LET r == request[t] IN
  /\ pc[t] = "write"
  /\ index' = [copy[t] EXCEPT ![r.session] = [backend |-> r.backend,
                                              active |-> r.op # "kill"]]
  /\ file' \in Overwritten
  /\ Persisted(t)
  /\ UNCHANGED <<forkVars, procVars, raced, bounds>>

\* An error of the operating system at any other step ends the request there;
\* what it has done stays done, the truncation of the index and a part of a copy
\* included.
StepFails(t) ==
  /\ pc[t] \in Labels \ {"insert", "pipe", "forkopen"}
  /\ Fault
  /\ \/ UNCHANGED trees
     \/ pc[t] = "maketree" /\ trees' = trees \cup {request[t].workspace}
  /\ Return(t)
  /\ UNCHANGED <<home, taken, procVars, indexVars, opened, raced, requests, restarts>>

----------------------------------------------------------------------------
(* fork                                                                    *)

\* Only the registry is asked for the source, whose shell may have ended.
Fork(t, from, s, copyWorktree) ==
  LET there == home[registry[from]].workspace IN
  /\ <<from, s, copyWorktree>> \in Forks
  /\ registry[from] # NoChild
  /\ IF copyWorktree
     THEN /\ StartAt(t, "fork", s, "pty", NoChild, Append(there, s), TRUE)
          /\ Goto(t, "checktree")
     ELSE /\ StartAt(t, "fork", s, "pty", NoChild, there, FALSE)
          /\ Goto(t, "forkopen")
  /\ UNCHANGED <<forkVars, procVars, indexVars, copy, opened, restarts, faults>>

\* Mutant: a workspace that is there is taken for the fork.
CheckTree_Reuses(t) ==
  /\ pc[t] = "checktree"
  /\ Goto(t, IF request[t].workspace \in trees THEN "forkopen" ELSE "maketree")
  /\ UNCHANGED <<forkVars, procVars, indexVars, request, copy, opened, raced, bounds>>

\* "fork workspace already exists".
CheckTree(t) ==
  /\ pc[t] = "checktree"
  /\ \/ /\ request[t].workspace \notin trees
        /\ Goto(t, "maketree")
        /\ UNCHANGED <<request, copy>>
     \/ /\ request[t].workspace \in trees
        /\ Return(t)
  /\ UNCHANGED <<forkVars, procVars, indexVars, opened, raced, bounds>>

Name(w) == w[Len(w)]

\* git worktree add refuses a path or a branch that is there, and branches are
\* named for the target alone; copy_dir, for a workspace without git, does not
\* look again.
MakeTree(t) ==
  LET w == request[t].workspace IN
  /\ pc[t] = "maketree"
  /\ \/ /\ trees' = trees \cup {w}
        /\ Goto(t, "forkopen")
        /\ UNCHANGED <<request, copy>>
     \/ /\ \E v \in trees : Name(v) = Name(w)
        /\ Return(t)
        /\ UNCHANGED trees
  /\ UNCHANGED <<home, taken, procVars, indexVars, opened, raced, bounds>>

\* The check of open comes after the worktree, which stays when it fails.
ForkOpen(t) ==
  LET r == request[t] IN
  /\ pc[t] = "forkopen"
  /\ \/ /\ registry[r.session] = NoChild
        /\ Goto(t, "spawn")
        /\ UNCHANGED <<taken, request, copy>>
     \/ /\ registry[r.session] # NoChild
        /\ taken' = taken \cup {r.workspace}
        /\ Return(t)
  /\ UNCHANGED <<trees, home, procVars, indexVars, opened, raced, bounds>>

\* Append the Fork event to the log of the source.
LogFork(t) ==
  /\ pc[t] = "forked"
  /\ Return(t)
  /\ UNCHANGED <<forkVars, procVars, indexVars, opened, raced, bounds>>

----------------------------------------------------------------------------
(* kill                                                                    *)

\* The registry is asked first, the index only for an id it does not have.
KillPty(t, s) ==
  /\ registry[s] # NoChild
  /\ Start(t, "kill", s, "pty", registry[s])
  /\ opened' = [opened EXCEPT ![s] = @ \ {registry[s]}]
  /\ Goto(t, "killchild")
  /\ UNCHANGED <<forkVars, procVars, indexVars, copy, restarts, faults>>

KillTmux(t, s) ==
  /\ registry[s] = NoChild
  /\ Readable
  /\ index[s] # NoEntry
  /\ index[s].backend = "tmux"
  /\ Start(t, "kill", s, "tmux", NoChild)
  /\ opened' = [opened EXCEPT ![s] = @ \ {Tmux}]
  /\ Goto(t, "killtmux")
  /\ UNCHANGED <<forkVars, procVars, indexVars, copy, restarts, faults>>

\* The handle stays in the registry.
KillChild(t) ==
  /\ pc[t] = "killchild"
  /\ alive' = alive \ {request[t].child}
  /\ Goto(t, "killed")
  /\ UNCHANGED <<forkVars, registry, children, tmux, indexVars, request, copy, opened, raced,
                 bounds>>

\* Mutant: the event of a kill is appended and the session left running.
KillSession_NoKill(t) ==
  /\ pc[t] = "killtmux"
  /\ Goto(t, "killed")
  /\ UNCHANGED <<forkVars, procVars, indexVars, request, copy, opened, raced, bounds>>

\* kill-session, if has-session finds it; a session that ends between the two
\* is an error.  Whatever ran under the id is gone.
KillSession(t) ==
  LET s == request[t].session IN
  /\ pc[t] = "killtmux"
  /\ tmux' = tmux \ {s}
  /\ opened' = [opened EXCEPT ![s] = @ \ {Tmux}]
  /\ \/ Goto(t, "killed") /\ UNCHANGED <<request, copy>>
     \/ s \notin tmux /\ Return(t)
  /\ UNCHANGED <<forkVars, registry, children, alive, indexVars, raced, bounds>>

\* Append the Kill event; only the kill of a tmux session persists anything.
LogKill(t) ==
  /\ pc[t] = "killed"
  /\ \/ request[t].backend = "tmux" /\ Goto(t, "index") /\ UNCHANGED <<request, copy>>
     \/ request[t].backend = "pty" /\ Return(t)
  /\ UNCHANGED <<forkVars, procVars, indexVars, opened, raced, bounds>>

----------------------------------------------------------------------------
(* The world outside: a shell exits, the daemon stops and a new one starts.*)

ShellExits ==
  \/ \E c \in alive :
       /\ alive' = alive \ {c}
       /\ opened' = [s \in Session |-> opened[s] \ {c}]
       /\ UNCHANGED <<forkVars, registry, children, tmux, indexVars, pc, request, copy, raced,
                      bounds>>
  \/ \E s \in tmux :
       /\ tmux' = tmux \ {s}
       /\ opened' = [opened EXCEPT ![s] = @ \ {Tmux}]
       /\ UNCHANGED <<forkVars, registry, children, alive, indexVars, pc, request, copy, raced,
                      bounds>>

\* The registry and the shells of its handles go with the daemon; requests in
\* progress end where they are.
Restart ==
  /\ \/ /\ \A t \in Thread : pc[t] = "idle"
        /\ restarts < MaxRestarts
        /\ restarts' = restarts + 1
        /\ UNCHANGED faults
     \/ /\ \E t \in Thread : pc[t] # "idle"
        /\ Fault
        /\ UNCHANGED restarts
  /\ registry' = [s \in Session |-> NoChild]
  /\ alive' = {}
  /\ opened' = [s \in Session |-> opened[s] \cap {Tmux}]
  /\ pc' = [t \in Thread |-> "idle"]
  /\ request' = [t \in Thread |-> Idle]
  /\ copy' = [t \in Thread |-> NoIndex]
  /\ UNCHANGED <<forkVars, children, tmux, indexVars, raced, requests>>

----------------------------------------------------------------------------

HandlerStep(t) ==
  \/ \E c \in Child : Spawn(t, c)
  \/ LogExec(t) \/ Insert(t) \/ NewSession(t) \/ StartPipe(t)
  \/ ReadIndex(t) \/ ReadIndexFails(t) \/ TruncateIndex(t) \/ WriteIndex(t)
  \/ CheckTree(t) \/ MakeTree(t) \/ ForkOpen(t) \/ LogFork(t)
  \/ StepFails(t) \/ KillChild(t) \/ KillSession(t) \/ LogKill(t)

Next ==
  \/ \E t \in Thread :
       \/ \E s \in Session : OpenPty(t, s) \/ OpenTmux(t, s)
                             \/ KillPty(t, s) \/ KillTmux(t, s)
       \/ \E f \in Forks : Fork(t, f[1], f[2], f[3])
       \/ HandlerStep(t)
  \/ ShellExits
  \/ Restart

Spec == Init /\ [][Next]_vars

----------------------------------------------------------------------------
(* Properties                                                              *)

\* Every variable stays in its type.
TypeOK ==
  /\ registry \in [Session -> Child \cup {NoChild}]
  /\ children \in SUBSET Child
  /\ alive \in SUBSET children
  /\ tmux \in SUBSET Session
  /\ index \in [Session -> Entry \cup {NoEntry}]
  /\ file \in {"whole", "empty", "torn"}
  /\ pc \in [Thread -> Labels \cup {"idle"}]
  /\ request \in [Thread -> Request \cup {Idle}]
  /\ copy \in [Thread -> [Session -> Entry \cup {NoEntry}]]
  /\ trees \in SUBSET Workspace /\ taken \in SUBSET Workspace
  /\ home \in [Child -> [workspace : Workspace, fresh : BOOLEAN]]
  /\ opened \in [Session -> SUBSET (Child \cup {Tmux})]
  /\ raced \in BOOLEAN
  /\ requests \in 0..MaxRequests
  /\ restarts \in 0..MaxRestarts
  /\ faults \in 0..MaxFaults

\* The lookup every request makes (handle, then metadata) finds x behind s.
Finds(s, x) ==
  \/ registry[s] # NoChild /\ registry[s] = x
  \/ /\ registry[s] = NoChild
     /\ x = Tmux
     /\ Readable
     /\ index[s] # NoEntry
     /\ index[s].backend = "tmux"

Quiet == \A t \in Thread : pc[t] = "idle"

Lost(s) == \E x \in opened[s] : ~Finds(s, x)
Mixed(s) == /\ <<s, "tmux">> \in Opens
            /\ <<s, "pty">> \in Opens \/ \E f \in Forks : f[2] = s

\* Every session whose open returned Ok, and that neither ended nor was killed,
\* is found by its id, after a restart too (README: tmux-backed sessions "are
\* persisted in sessions.json"; a fresh daemon "can reconnect").
OpenedIsReachable == Quiet /\ Readable => \A s \in Session : ~Lost(s)

\* ... unless two handlers overlapped on the index or on one id, or the id is
\* opened with both backends: requests, restarts, failures and exits of shells,
\* in any order, lose no other session.
ReachableUnlessRaced ==
  ~raced /\ Quiet /\ Readable => \A s \in Session : Lost(s) => Mixed(s)

\* One id never names two running sessions (the check behind "session already
\* exists"), unless two opens of it overlapped or it is opened with both
\* backends.
OneSessionPerId ==
  ~raced => \A s \in Session : Cardinality(opened[s]) <= 1 \/ Mixed(s)

\* Between the requests the index parses, and an id whose kill it records has no
\* tmux session left that a new open would collide with, unless a step failed or
\* two handlers overlapped.
IndexIsTrue ==
  Quiet /\ faults = 0 /\ ~raced =>
    /\ Readable
    /\ \A s \in tmux : ~(index[s] # NoEntry /\ index[s].backend = "tmux" /\ ~index[s].active)

\* A workspace that a fork made is that of one session, whatever is forked again
\* under a name after errors and restarts; and one that belongs to none is left
\* by a failed step or by a fork whose target was in use, unless two handlers of
\* an id overlapped.
ForksApart ==
  ~raced =>
    /\ \A c, d \in children : home[c].fresh /\ home[c] = home[d] => c = d
    /\ Quiet /\ faults = 0 =>
         \A w \in trees : \/ w \in taken
                          \/ \E c \in children : home[c] = [workspace |-> w, fresh |-> TRUE]
=============================================================================
