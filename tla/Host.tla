------------------------------- MODULE Host -------------------------------
(***************************************************************************)
(* The host's process table, as far as one Litterbox sees it: the          *)
(* `litterbox enter` processes (one per terminal) and the `litterbox       *)
(* daemon` process each of them may spawn.  An enter process is identified *)
(* with its PID, and the daemon spawned by enter process s is called the   *)
(* daemon s: an enter process spawns at most one.                          *)
(***************************************************************************)
EXTENDS Integers, FiniteSets

CONSTANTS
  Sessions,  \* the enter processes; each of them runs once
  None,      \* no process, where one would be named
  Ghost,     \* a process of an earlier boot, long dead
  Faults     \* the kinds of failure the environment may inject

FaultKinds == {"kill_enter", "kill_daemon", "keys", "podman"}

ASSUME FiniteSessions == IsFiniteSet(Sessions)
ASSUME ProcessNames   == None \notin Sessions /\ Ghost \notin Sessions /\ None # Ghost
ASSUME KnownFaults    == Faults \subseteq FaultKinds

VARIABLES
  pc,   \* pc[s]: where enter process s is
  dpc   \* dpc[s]: where the daemon spawned by s is

\* "done": it has returned; "dead": it was killed; "cut": it was killed before
\* the daemon it had spawned could read the password from it.
EnterPc  == {"idle", "spawn", "handoff", "append", "appending", "check", "start",
             "exec", "shell", "leave", "leaving", "done", "dead", "cut"}

\* "gone": it has returned without an error; "failed": an error, a panic or a
\* signal has ended it.
DaemonPc == {"none", "stdin", "check", "stale", "write", "sock", "bind",
             "connect", "register", "foreign", "sleep", "cleaning", "poll",
             "rmsession", "rmlock", "drop", "gone", "failed"}

EnterRunning(s)  == pc[s] \notin {"idle", "done", "dead", "cut"}
DaemonEnded(d)   == dpc[d] \in {"gone", "failed"}
DaemonRunning(d) == dpc[d] # "none" /\ ~DaemonEnded(d)

(***************************************************************************)
(* kill(pid, None).is_ok() for the PID of a daemon.  The enter process     *)
(* that spawned a daemon never waits for it, so a daemon that has exited   *)
(* stays a zombie, whose PID still exists, until that enter process ends.  *)
(***************************************************************************)
DaemonPidExists(d) ==
  /\ d \in Sessions
  /\ DaemonRunning(d) \/ (DaemonEnded(d) /\ EnterRunning(d))

HostInit ==
  /\ pc  = [s \in Sessions |-> "idle"]
  /\ dpc = [s \in Sessions |-> "none"]

HostTypeOK ==
  /\ pc  \in [Sessions -> EnterPc]
  /\ dpc \in [Sessions -> DaemonPc]
============================================================================
