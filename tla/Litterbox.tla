------------------------------ MODULE Litterbox ------------------------------
(***************************************************************************)
(* One Litterbox on a host: any number of enter processes, the daemons     *)
(* they spawn, and the container, interleaved.                             *)
(***************************************************************************)
EXTENDS Enter

vars == <<pc, dpc, fileVars, containerVars, daemonVars>>

Init == HostInit /\ FileInit /\ ContainerInit /\ DaemonInit

Next ==
  \/ \E s \in Sessions : EnterStep(s) \/ ShellEnds(s) \/ KillEnter(s)
  \/ \E d \in Sessions : DaemonStep(d) \/ DaemonForeign(d) \/ KillDaemon(d)
  \/ WaitStep
  \/ BackgroundEnds /\ UNCHANGED <<pc, dpc, daemonVars>>

Spec == Init /\ [][Next]_vars

\* The host schedules every process, and podman and the kernel answer; when a
\* shell or a background process ends, or a user answers, is nobody's promise.
EnterScheduled(s)  == WF_vars(EnterStep(s))
DaemonScheduled(d) == WF_vars(DaemonStep(d))
WaitScheduled      == WF_vars(WaitStep)

FairSpec ==
  /\ Spec
  /\ \A s \in Sessions : EnterScheduled(s) /\ DaemonScheduled(s)
  /\ WaitScheduled

-----------------------------------------------------------------------------

\* Every variable stays in its set.
TypeOK ==
  /\ HostTypeOK
  /\ FileTypeOK
  /\ ContainerTypeOK
  /\ DaemonTypeOK

\* The PID has been added and its removal has not begun.
Registered(s) == pc[s] \in {"check", "start", "exec", "shell", "leave"}

\* s is in the lockfile, or about to be written back to it by the process
\* that has truncated it.
Listed(s) ==
  \/ s \in file
  \/ \E p \in Procs : io[p].st = "open" /\ io[p].at = "path" /\ s \in io[p].buf

\* As long as no two updates of the session lockfile overlap and the daemon
\* has not unlinked it under somebody, no update of it loses a session:
\* append, remove and the daemon's cleanup of dead PIDs keep every PID of a
\* session between its registration and its removal.
SessionsListed == ~disturbed => \A s \in Sessions : Registered(s) => Listed(s)

\* `litterbox wait` adds its inotify watch before it first reads the file and
\* so, whatever happens to the file, never sleeps on an empty one unless an
\* event is about to wake it.
NoLostWakeup == wpc = "block" /\ ~event => MountedPids # {}

\* Unless two daemons look for the daemon lockfile before either has written
\* it, at most one daemon passes it: not after a crash that left a stale
\* file, nor while the previous daemon is a zombie or about to exit.
UniqueDaemon == ~lockRaced => \A d, e \in Sessions : Owner(d) /\ Owner(e) => d = e

\* In its loop: the agent has the keys and asks the user.
Serving(d) == dpc[d] \in {"sleep", "cleaning", "poll"}

\* Unless two daemons raced for the lockfile, the socket of a daemon that
\* serves is taken from the path only by a predecessor that has given up the
\* lockfile and has not dropped its SshSockFile yet: not by a newcomer, nor by
\* a daemon that fails or finds another one running.
SocketKept ==
  [][\A d \in Sessions : sock = d /\ sock' # d /\ Serving(d) /\ Serving(d)' /\ ~lockRaced'
       => \E e \in Sessions : dpc[e] = "drop"]_vars

\* `litterbox wait` decides to stop the container only when no session is
\* registered, unless an update of the lockfile was disturbed.
ExitDecisionSound ==
  [][wpc = "read" /\ wpc' = "reap" => disturbed' \/ \A s \in Sessions : ~Registered(s)]_vars

-----------------------------------------------------------------------------

Phase == CASE wpc = "off"  -> "off"
           [] wpc = "reap" -> "closing"
           [] OTHER        -> "up"

Shared == INSTANCE SharedContainer WITH
  users  <- {s \in Sessions : Registered(s)},
  phase  <- Phase,
  broken <- disturbed

\* The Litterbox is a SharedContainer: it starts for a registered session and
\* is closed when there is none, until an update of the lockfile is disturbed.
SharedContainerSpec == Shared!Spec

Quiet == \A s \in Sessions : ~EnterRunning(s)

NoDaemon == \A d \in Sessions : ~DaemonRunning(d)

Calm == ~disturbed /\ ~lockRaced

\* When every session has ended, by leaving or by being killed, the container
\* stops if there is a daemon in its loop to remove the PIDs of the killed,
\* unless background processes keep it running or somebody enters again.
StopsUnder(d) == Up /\ Quiet /\ Serving(d) ~> ~Up \/ bg \/ ~Quiet \/ ~Calm

ContainerStopsAtLast == \A d \in Sessions : StopsUnder(d)

\* When the container has stopped and nobody enters, every daemon exits, and
\* stays away, whatever went wrong before; only one that registers its keys
\* with another's agent waits for the user.
Exits(d) == ~Up /\ []Quiet ~> []~DaemonRunning(d) \/ dpc[d] = "foreign"

DaemonsExit == \A d \in Sessions : Exits(d)

\* An enter process that is past the password prompt reaches its shell or
\* ends, whatever the others do.
Proceeds(s) == pc[s] = "append" ~> pc[s] \in {"shell", "done", "dead"}

EnterProceeds == \A s \in Sessions : Proceeds(s)

EnterCanRun(s)  == ENABLED <<EnterStep(s)>>_vars
DaemonCanRun(d) == ENABLED <<DaemonStep(d)>>_vars
WaitCanRun      == ENABLED <<WaitStep>>_vars

\* A daemon waits for its terminal to give it the password, and for the user
\* of another's agent.
DaemonWaits(d) == (dpc[d] = "stdin" /\ pc[d] = "handoff") \/ dpc[d] = "foreign"

\* No process is stuck: whatever has become of the lockfiles, the socket and
\* the container, one that waits neither for its shell nor for a user nor, a
\* daemon, for its terminal nor, process 1, for an event or a background
\* process has a next step.
NeverStuck ==
  /\ \A s \in Sessions : EnterRunning(s) /\ pc[s] # "shell" => EnterCanRun(s)
  /\ \A d \in Sessions : DaemonRunning(d) /\ ~DaemonWaits(d) => DaemonCanRun(d)
  /\ wpc \in {"watch", "read"} \/ (wpc = "block" /\ event) \/ (wpc = "reap" /\ ~bg)
       => WaitCanRun

\* When the last daemon has ended there is no socket, and no lockfile but that
\* of a daemon that failed, which it may have done because its terminal was
\* killed or because its predecessor took the new socket with it.
NothingLeft ==
  Calm /\ NoDaemon /\ (\E d \in Sessions : DaemonEnded(d))
    => sock = None /\ (lock # None => lock \in Sessions /\ dpc[lock] = "failed")
=============================================================================
