----------------------------- MODULE Entrypoint -----------------------------
(***************************************************************************)
(* `litterbox entrypoint` (commands/entrypoint.rs), one per session inside *)
(* the container: set up the home on the first entry (files.rs), spawn the *)
(* login shell, become a child subreaper, reap children, and when the      *)
(* shell has ended do with the background processes what --wait says.      *)
(*                                                                         *)
(* The kernel's part is the process tree: a process that exits is a zombie *)
(* until its parent waits for it, and its children go to the nearest       *)
(* ancestor that is a subreaper, else to process 1, `litterbox wait`.      *)
(* What process 1 has adopted is reaped at once here; Container.tla says   *)
(* when it is.  All processes have the user's UID, so that kill(-1, ...)   *)
(* reaches every process but the caller and process 1.  /prep-home.sh      *)
(* starts no process that outlives it.                                     *)
(***************************************************************************)
EXTENDS Integers, FiniteSets

CONSTANTS
  Sessions,   \* each has an entrypoint and, also named s, a login shell
  Jobs,       \* the processes that shells and other jobs may start
  One         \* process 1

Entry(s) == <<"entrypoint", s>>

ASSUME DistinctProcesses ==
  /\ Sessions \cap Jobs = {}
  /\ One \notin Sessions \cup Jobs \cup {Entry(s) : s \in Sessions}

VARIABLES
  at,       \* at[s]: where the entrypoint of s is
  wait,     \* wait[s]: its --wait option
  st,       \* st[p]: the state of process p; "ok" and "bad" are zombies
  above,    \* above[p]: the shells and jobs that p descends from, its parent the last
  root,     \* root[p]: the entrypoint, or process 1, that these and p descend from
  owner,    \* history: the session whose shell or job started job j, at first One
  escaped,  \* history: jobs orphaned before their entrypoint was a subreaper, and theirs
  marker,   \* whether the home has its .home-built
  scripts,  \* the sessions whose /prep-home.sh runs
  prepared, \* history: a /prep-home.sh has returned to its entrypoint
  raced     \* history: an entrypoint looked for the marker during another's set-up

tree == <<st, above, root, owner, escaped>>
home == <<marker, scripts, prepared, raced>>
vars == <<at, wait, tree, home>>

Procs    == Sessions \cup Jobs
Waits    == {"foreground", "background", "kill"}
EntryPc  == {"idle", "prep", "marking", "ready", "spawned", "waiting", "polling", "term", "grace", "kill",
             "done", "failed", "dead"}

Ended(s)     == at[s] \in {"done", "failed", "dead"}
Live(s)      == at[s] # "idle" /\ ~Ended(s)
Early        == {"idle", "prep", "marking", "ready"}
Subreaper(s) == at[s] \notin Early \cup {"spawned"} /\ ~Ended(s)

Running(p)  == st[p] = "running"
Zombie(p)   == st[p] \in {"ok", "bad"}
\* The background processes of the session s.
Background(s) == {j \in Jobs : owner[j] = s /\ Running(j)}

IsChild(q, p) == above[q] = above[p] \cup {p}
Children(s) == {p \in Procs : root[p] = Entry(s) /\ above[p] = {} /\ (Running(p) \/ Zombie(p))}

\* Who adopts the children of p.
Adopter(p) == IF \E s \in Sessions : Subreaper(s) /\ root[p] = Entry(s) THEN root[p] ELSE One

\* What becomes of a process in state x whose parent is process 1.
ReapedByOne(x) == IF x \in {"ok", "bad"} THEN "gone" ELSE x

\* The entrypoints in `ended` end, and nothing else in `states` changes;
\* process 1 adopts their children, and reaps those that are zombies.
Orphan(ended, states) ==
  LET orphaned(p) == root[p] \in {Entry(s) : s \in ended}
  IN /\ root' = [p \in Procs |-> IF orphaned(p) THEN One ELSE root[p]]
     /\ st' = [p \in Procs |-> IF orphaned(p) /\ above[p] = {} THEN ReapedByOne(states[p])
                               ELSE states[p]]
     /\ UNCHANGED <<wait, above, owner, escaped>>

EndEntry(s, how, states) ==
  /\ at' = [at EXCEPT ![s] = how]
  /\ Orphan({s}, states)
  /\ UNCHANGED home

Goto(s, to) ==
  /\ at' = [at EXCEPT ![s] = to]
  /\ UNCHANGED <<wait, tree, home>>

\* Mutant of PrepareHome: the marker is created before the script runs.
MarkFirst(s) ==
  /\ at[s] = "idle"
  /\ at' = [at EXCEPT ![s] = IF marker THEN "ready" ELSE "prep"]
  /\ scripts' = IF marker THEN scripts ELSE scripts \cup {s}
  /\ marker' = TRUE
  /\ raced' = (raced \/ scripts # {} \/ \E t \in Sessions : at[t] \in {"prep", "marking"})
  /\ UNCHANGED <<wait, tree, prepared>>

\* setup_home looks for the marker ...
PrepareHome(s) ==
  /\ at[s] = "idle"
  /\ at' = [at EXCEPT ![s] = IF marker THEN "ready" ELSE "prep"]
  /\ scripts' = IF marker THEN scripts ELSE scripts \cup {s}
  /\ raced' = (raced \/ scripts # {} \/ \E t \in Sessions : at[t] \in {"prep", "marking"})
  /\ UNCHANGED <<wait, tree, marker, prepared>>

\* ... and waits for /prep-home.sh, which succeeds, fails, is killed or does
\* not exist: its status is not looked at.  The script of an entrypoint that
\* was killed runs on.
ScriptEnds(s) ==
  /\ s \in scripts
  /\ scripts' = scripts \ {s}
  /\ prepared' = (prepared \/ at[s] = "prep")
  /\ at' = [at EXCEPT ![s] = IF @ = "prep" THEN "marking" ELSE @]
  /\ UNCHANGED <<wait, tree, marker, raced>>

\* Mutant of MarkHome: the marker is not created.
LeaveUnmarked(s) == at[s] = "marking" /\ Goto(s, "ready")

\* File::create of the marker.
MarkHome(s) ==
  /\ at[s] = "marking"
  /\ at' = [at EXCEPT ![s] = "ready"]
  /\ marker' = TRUE
  /\ UNCHANGED <<wait, tree, scripts, prepared, raced>>

\* Anything before the shell runs fails: the directories and the privileges,
\* the sandbox, the script's start, the marker, the shell's start.
SetupFails(s) == at[s] \in Early \ {"prep"} /\ Goto(s, "failed")

\* Mutant of Spawn: the shell gets the name of its entrypoint.
SpawnEntry(s) ==
  /\ at[s] = "ready"
  /\ at' = [at EXCEPT ![s] = "spawned"]
  /\ st' = [st EXCEPT ![s] = "spawned"]
  /\ above' = [above EXCEPT ![s] = {}]
  /\ root' = [root EXCEPT ![s] = Entry(s)]
  /\ UNCHANGED <<wait, owner, escaped, home>>

Spawn(s) ==
  /\ at[s] = "ready"
  /\ at' = [at EXCEPT ![s] = "spawned"]
  /\ st' = [st EXCEPT ![s] = "running"]
  /\ above' = [above EXCEPT ![s] = {}]
  /\ root' = [root EXCEPT ![s] = Entry(s)]
  /\ UNCHANGED <<wait, owner, escaped, home>>

\* Processes that were orphaned before stay with process 1.
SetSubreaper(s) ==
  /\ at[s] = "spawned"
  /\ at' = [at EXCEPT ![s] = "waiting"]
  /\ escaped' = escaped \cup {j \in Background(s) : root[j] = One}
  /\ UNCHANGED <<wait, st, above, root, owner, home>>

\* waitpid, blocking or with WNOHANG, returns a child that has ended.  A shell
\* that failed ends the entrypoint; one that succeeded or was killed sets
\* WNOHANG.
Reap(s, p) ==
  LET reaped == [st EXCEPT ![p] = "gone"]
  IN /\ at[s] \in {"waiting", "polling"}
     /\ p \in Children(s) /\ Zombie(p)
     /\ IF p = s /\ st[p] = "bad"
          THEN EndEntry(s, "failed", reaped)
          ELSE /\ st' = reaped
               /\ at' = [at EXCEPT ![s] = IF p = s THEN "polling" ELSE @]
               /\ UNCHANGED <<wait, above, root, owner, escaped, home>>

\* Mutant of StillAlive: "foreground" does not wait.
StillAliveImpatient(s) ==
  /\ at[s] = "polling"
  /\ Children(s) # {}
  /\ \A p \in Children(s) : Running(p)
  /\ IF wait[s] = "kill" THEN Goto(s, "term") ELSE EndEntry(s, "done", st)

\* waitpid with WNOHANG returns StillAlive; WNOHANG is cleared.
StillAlive(s) ==
  /\ at[s] = "polling"
  /\ Children(s) # {}
  /\ \A p \in Children(s) : Running(p)
  /\ CASE wait[s] = "foreground" -> Goto(s, "waiting")
       [] wait[s] = "background" -> EndEntry(s, "done", st)
       [] wait[s] = "kill"       -> Goto(s, "term")

\* Mutant of NoChild: ECHILD is only expected of the call with WNOHANG.
NoChildPolled(s) ==
  /\ at[s] = "polling"
  /\ Children(s) = {}
  /\ EndEntry(s, "done", st)

\* waitpid returns ECHILD.
NoChild(s) ==
  /\ at[s] \in {"waiting", "polling"}
  /\ Children(s) = {}
  /\ EndEntry(s, "done", st)

\* SIGINT or a closed terminal: the entrypoint does not handle signals.
Interrupt(s) == Live(s) /\ EndEntry(s, "dead", st)

Others(s) == {t \in Sessions \ {s} : Live(t)}

GotoAndKill(s, to) ==
  at' = [t \in Sessions |-> IF t = s THEN to ELSE IF t \in Others(s) THEN "dead" ELSE at[t]]

\* kill(-1, SIGTERM).  Other entrypoints do not handle the signal; a shell or
\* a job ends now or later, if it ends, by a step of its own.
SendTerm(s) ==
  /\ at[s] = "term"
  /\ GotoAndKill(s, "grace")
  /\ Orphan(Others(s), st)
  /\ UNCHANGED home

\* The thread that waits for the children ...
GraceReap(s, p) ==
  /\ at[s] \in {"grace", "kill"}
  /\ p \in Children(s) /\ Zombie(p)
  /\ st' = [st EXCEPT ![p] = "gone"]
  /\ UNCHANGED <<at, wait, above, root, owner, escaped, home>>

\* ... reports ECHILD ...
GraceOver(s) ==
  /\ at[s] = "grace"
  /\ Children(s) = {}
  /\ EndEntry(s, "done", st)

\* Mutant of GraceTimeout: the thread is waited for without a timeout.
GraceWithoutEnd(s) == FALSE /\ Goto(s, "kill")

\* ... or ten seconds pass.
GraceTimeout(s) == at[s] = "grace" /\ Goto(s, "kill")

\* kill(-1, SIGKILL), which fails with ESRCH if there is nobody to kill.
SendKill(s) ==
  LET alone  == Others(s) = {} /\ scripts = {} /\ \A p \in Procs : st[p] \in {"none", "gone"}
      killed == [p \in Procs |-> IF st[p] = "none" THEN "none" ELSE "gone"]
  IN /\ at[s] = "kill"
     /\ IF alone THEN EndEntry(s, "failed", st)
        ELSE /\ GotoAndKill(s, "done")
             /\ Orphan(Others(s) \cup {s}, killed)
             /\ scripts' = {}
             /\ UNCHANGED <<marker, prepared, raced>>

EntryStep(s) ==
  \/ MarkHome(s)
  \/ Spawn(s)
  \/ SetSubreaper(s)
  \/ \E p \in Procs : Reap(s, p) \/ GraceReap(s, p)
  \/ StillAlive(s)
  \/ NoChild(s)
  \/ SendTerm(s)
  \/ GraceOver(s)
  \/ GraceTimeout(s)
  \/ SendKill(s)

\* The processes of the user: a shell or a job starts a job ...
StartJob(p, j) ==
  /\ Running(p)
  /\ st[j] = "none"
  /\ st' = [st EXCEPT ![j] = "running"]
  /\ above' = [above EXCEPT ![j] = above[p] \cup {p}]
  /\ root' = [root EXCEPT ![j] = root[p]]
  /\ owner' = [owner EXCEPT ![j] = IF p \in Jobs THEN owner[p] ELSE p]
  /\ escaped' = IF p \in escaped THEN escaped \cup {j} ELSE escaped
  /\ UNCHANGED <<at, wait, home>>

\* ... waits for one ...
WaitForJob(p, j) ==
  /\ Running(p)
  /\ IsChild(j, p) /\ Zombie(j)
  /\ st' = [st EXCEPT ![j] = "gone"]
  /\ UNCHANGED <<at, wait, above, root, owner, escaped, home>>

\* ... or exits, or is killed.
Exit(p) ==
  LET below(q)   == p \in above[q]
      adopted(q) == IsChild(q, p) /\ Adopter(p) = One
      toOne(q)   == IF q = p THEN root[p] = One /\ above[p] = {} ELSE adopted(q)
  IN /\ Running(p)
     /\ \E status \in IF p \in Sessions THEN {"ok", "bad"} ELSE {"ok"} :
          LET states == [st EXCEPT ![p] = status]
          IN st' = [q \in Procs |-> IF toOne(q) THEN ReapedByOne(states[q]) ELSE states[q]]
     /\ above' = [q \in Procs |-> IF below(q) THEN above[q] \ (above[p] \cup {p}) ELSE above[q]]
     /\ root' = [q \in Procs |-> IF below(q) THEN Adopter(p) ELSE root[q]]
     /\ UNCHANGED <<at, wait, owner, escaped, home>>

UserStep ==
  \/ \E p \in Procs : Exit(p) \/ \E j \in Jobs : StartJob(p, j) \/ WaitForJob(p, j)
  \/ \E s \in Sessions : ScriptEnds(s) \/ Interrupt(s)

Init ==
  /\ at = [s \in Sessions |-> "idle"]
  /\ wait \in [Sessions -> Waits]
  /\ st = [p \in Procs |-> "none"]
  /\ above = [p \in Procs |-> {}]
  /\ root = [p \in Procs |-> One]
  /\ owner = [j \in Jobs |-> One]
  /\ escaped = {} /\ scripts = {} /\ raced = FALSE
  /\ marker \in BOOLEAN /\ prepared = marker

Next ==
  \/ UserStep
  \/ \E s \in Sessions : PrepareHome(s) \/ SetupFails(s) \/ EntryStep(s)

Spec == Init /\ [][Next]_vars

EntryScheduled(s) == WF_vars(EntryStep(s))

\* An entrypoint runs; when a shell or a job ends is nobody's promise.
FairSpec == Spec /\ \A s \in Sessions : EntryScheduled(s)

-----------------------------------------------------------------------------

\* Every variable stays in its set.
TypeOK ==
  /\ at \in [Sessions -> EntryPc]
  /\ wait \in [Sessions -> Waits]
  /\ st \in [Procs -> {"none", "running", "ok", "bad", "gone"}]
  /\ above \in [Procs -> SUBSET Procs]
  /\ root \in [Procs -> {Entry(s) : s \in Sessions} \cup {One}]
  /\ owner \in [Jobs -> Sessions \cup {One}]
  /\ escaped \in SUBSET Jobs
  /\ marker \in BOOLEAN /\ prepared \in BOOLEAN /\ raced \in BOOLEAN
  /\ scripts \in SUBSET Sessions

\* No user is let into a home that nobody has set up: before the first shell,
\* a /prep-home.sh has returned to the entrypoint that ran it, whatever the
\* sessions' order and however many entrypoints were killed before the marker.
HomePrepared == (\E s \in Sessions : Running(s)) => prepared

\* ARCHITECTURE.md:96: the home is initialized "only on first entry".  Once a
\* user has a shell /prep-home.sh does not run, unless two first entries
\* overlapped: nothing makes the second wait for the first.
SetUpOnce == scripts # {} /\ (\E s \in Sessions : Running(s)) => raced

\* An entrypoint that returns without an error has waited for the processes
\* of its session, or has killed them: none is left, however deep in the tree
\* it was, unless it was orphaned before the entrypoint was a subreaper.
WaitKept == \A s \in Sessions :
  at[s] = "done" /\ wait[s] # "background" => Background(s) \subseteq escaped

AfterShell(s) == st[s] = "gone" /\ wait[s] # "foreground"
AfterLast(s)  == st[s] # "none" /\ ~Running(s) /\ Background(s) = {}

\* With "background" and "kill" the entrypoint ends once the shell has ended,
\* though background processes ignore SIGTERM and never end.
EndsAfterShell == \A s \in Sessions : AfterShell(s) ~> Ended(s)

\* Once nothing that the session started runs any more, its entrypoint ends:
\* it is not left in a blocking waitpid.
EndsWithLastProcess == \A s \in Sessions : AfterLast(s) ~> Ended(s)

\* What an entrypoint can wait for: its /prep-home.sh and, in a blocking
\* waitpid, a child that runs.
Blocked(s) ==
  \/ at[s] = "prep"
  \/ /\ at[s] = "waiting"
     /\ Children(s) # {}
     /\ \A p \in Children(s) : Running(p)

EntryCanRun(s) == ENABLED <<EntryStep(s)>>_vars

\* Whatever the processes of its and of the other sessions do, an entrypoint
\* that does not wait for one of them has a next step.
EntrypointsRun == \A s \in Sessions : Live(s) /\ ~Blocked(s) => EntryCanRun(s)
=============================================================================
