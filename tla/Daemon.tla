------------------------------- MODULE Daemon -------------------------------
(***************************************************************************)
(* `litterbox daemon` (daemon.rs): read the password, take the daemon      *)
(* lockfile, serve the SSH agent and register the keys with it over its    *)
(* own socket, then every five seconds drop dead PIDs from the session     *)
(* lockfile and ask podman whether the container still runs; when it does  *)
(* not, remove both lockfiles and exit.                                    *)
(*                                                                         *)
(* The daemon lockfile is written in one step here: a truncated one is     *)
(* unparsable, which every reader treats as a missing daemon.              *)
(***************************************************************************)
EXTENDS Container

VARIABLES
  lock,      \* the PID in the daemon lockfile, or None
  lockRaced  \* history: a daemon took the lock while another was taking it

daemonVars == <<lock, lockRaced>>

\* Between looking at the lockfile and writing it.
Claiming(d) == dpc[d] \in {"stale", "write"}

\* Past the lockfile: the daemon believes that it is the only one.
Owner(d) == dpc[d] \in {"sock", "bind", "connect", "register", "foreign", "sleep",
                        "cleaning", "poll", "rmsession", "rmlock"}

DaemonGoto(d, to) == dpc' = [dpc EXCEPT ![d] = to]

\* SshSockFile::drop removes whatever is at the path.
DropSocket == sock' = None

\* Before its loop, and in it, an error ends the daemon: its lockfile stays,
\* its SshSockFile is dropped.
DaemonFails(d) == DaemonGoto(d, "failed") /\ DropSocket

\* The end of its terminal is the end of the daemon's input: the password is
\* then the empty one.
DaemonReadNothing(d) ==
  /\ dpc[d] = "stdin"
  /\ pc[d] = "cut"
  /\ DaemonGoto(d, "check")
  /\ UNCHANGED <<pc, fileVars, containerVars, daemonVars>>

\* Mutant of DaemonCheck: any lockfile is taken for a stale one.
DaemonTakeOver(d) ==
  /\ dpc[d] = "check"
  /\ DaemonGoto(d, IF lock = None THEN "write" ELSE "stale")
  /\ lockRaced' = (lockRaced \/ \E e \in Sessions \ {d} : Claiming(e))
  /\ UNCHANGED <<pc, fileVars, containerVars, lock>>

DaemonCheck(d) ==
  /\ dpc[d] = "check"
  /\ IF lock # None /\ DaemonPidExists(lock)
       THEN DaemonGoto(d, "gone") /\ UNCHANGED lockRaced
       ELSE /\ DaemonGoto(d, IF lock = None THEN "write" ELSE "stale")
            /\ lockRaced' = (lockRaced \/ \E e \in Sessions \ {d} : Claiming(e))
  /\ UNCHANGED <<pc, fileVars, containerVars, lock>>

\* remove_file fails, and the daemon with it, when the file has gone.
DaemonRemoveStale(d) ==
  /\ dpc[d] = "stale"
  /\ DaemonGoto(d, IF lock = None THEN "failed" ELSE "write")
  /\ lock' = None
  /\ UNCHANGED <<pc, fileVars, containerVars, lockRaced>>

DaemonWriteLock(d) ==
  /\ dpc[d] = "write"
  /\ DaemonGoto(d, "sock")
  /\ lock' = d
  /\ UNCHANGED <<pc, fileVars, containerVars, lockRaced>>

\* Keys::load may fail; SshSockFile::new then removes an old socket.
DaemonNewSocket(d) ==
  /\ dpc[d] = "sock"
  /\ \/ DaemonGoto(d, "bind") /\ DropSocket
     \/ "keys" \in Faults /\ DaemonGoto(d, "failed") /\ UNCHANGED sock
  /\ UNCHANGED <<pc, fileVars, wpc, bg, daemonVars>>

\* bind panics when there is a file at the path again; unwinding removes it.
DaemonBind(d) ==
  /\ dpc[d] = "bind"
  /\ IF sock = None THEN sock' = d /\ DaemonGoto(d, "connect") ELSE DaemonFails(d)
  /\ UNCHANGED <<pc, fileVars, wpc, bg, daemonVars>>

\* A process listens on the socket that is at the path.
SocketAnswers == sock \in Sessions /\ DaemonRunning(sock)

\* The daemon connects to whatever socket is at the path by now.
DaemonConnect(d) ==
  /\ dpc[d] = "connect"
  /\ IF SocketAnswers
       THEN DaemonGoto(d, IF sock = d THEN "register" ELSE "foreign") /\ UNCHANGED sock
       ELSE DaemonFails(d)
  /\ UNCHANGED <<pc, fileVars, wpc, bg, daemonVars>>

\* The keys are registered with the agent and the agent is locked.  A password
\* that does not decrypt an attached key makes the daemon panic.
DaemonRegister(d) ==
  /\ dpc[d] = "register"
  /\ \/ DaemonGoto(d, "sleep") /\ UNCHANGED sock
     \/ ("keys" \in Faults \/ pc[d] = "cut") /\ DaemonFails(d)
  /\ UNCHANGED <<pc, fileVars, wpc, bg, daemonVars>>

\* The agent is that of another daemon, which asks its user about each key.
DaemonForeign(d) ==
  /\ dpc[d] = "foreign"
  /\ \/ DaemonGoto(d, "sleep") /\ UNCHANGED sock
     \/ DaemonFails(d)
  /\ UNCHANGED <<pc, fileVars, wpc, bg, daemonVars>>

\* Mutant of DaemonClean: the dead are kept and the living dropped.
DaemonCleanLiving(d) ==
  LET dead == {s \in file : ~EnterRunning(s)}
  IN /\ dpc[d] = "sleep"
     /\ IF ~exists \/ dead = file THEN DaemonGoto(d, "poll") /\ JustRead(<<"daemon", d>>)
                                  ELSE DaemonGoto(d, "cleaning") /\ ReadFor(<<"daemon", d>>, dead)
     /\ UNCHANGED <<pc, containerVars, daemonVars>>

\* Mutant of DaemonClean: there is no cleanup.
DaemonCleanNothing(d) ==
  /\ dpc[d] = "sleep"
  /\ DaemonGoto(d, "poll")
  /\ UNCHANGED <<pc, fileVars, containerVars, daemonVars>>

\* cleanup_dead_pids_from_session_lockfile, its read.
DaemonClean(d) ==
  LET alive == {s \in file : EnterRunning(s)}
  IN /\ dpc[d] = "sleep"
     /\ \/ ~exists /\ DaemonGoto(d, "poll") /\ UNCHANGED fileVars
        \/ exists /\ alive = file /\ DaemonGoto(d, "poll") /\ JustRead(<<"daemon", d>>)
        \/ exists /\ alive # file /\ DaemonGoto(d, "cleaning")
             /\ ReadFor(<<"daemon", d>>, alive)
     /\ UNCHANGED <<pc, containerVars, daemonVars>>

DaemonCleanOpen(d) ==
  /\ dpc[d] = "cleaning"
  /\ OpenFile(<<"daemon", d>>)
  /\ UNCHANGED <<pc, dpc, containerVars, daemonVars>>

DaemonCleanWrite(d) ==
  /\ dpc[d] = "cleaning"
  /\ WriteFile(<<"daemon", d>>)
  /\ DaemonGoto(d, "poll")
  /\ UNCHANGED <<pc, containerVars, daemonVars>>

\* Mutant of DaemonPoll: the loop has no end.
DaemonPollForever(d) ==
  /\ dpc[d] = "poll"
  /\ DaemonGoto(d, "sleep")
  /\ UNCHANGED <<pc, fileVars, containerVars, daemonVars>>

DaemonPoll(d) ==
  /\ dpc[d] = "poll"
  /\ \/ DaemonGoto(d, IF Up THEN "sleep" ELSE "rmsession") /\ UNCHANGED sock
     \/ "podman" \in Faults /\ DaemonFails(d)
  /\ UNCHANGED <<pc, fileVars, wpc, bg, daemonVars>>

DaemonRemoveSession(d) ==
  /\ dpc[d] = "rmsession"
  /\ DaemonGoto(d, "rmlock")
  /\ IF exists THEN UnlinkFile(<<"daemon", d>>) ELSE UNCHANGED fileVars
  /\ UNCHANGED <<pc, containerVars, daemonVars>>

\* Mutant of DaemonRemoveLock: the lockfile is left.
DaemonKeepLock(d) ==
  /\ dpc[d] = "rmlock"
  /\ DaemonGoto(d, "drop")
  /\ UNCHANGED <<pc, fileVars, containerVars, daemonVars>>

\* Whether or not the lockfile is still there to be removed, daemon::run ends.
DaemonRemoveLock(d) ==
  /\ dpc[d] = "rmlock"
  /\ DaemonGoto(d, "drop")
  /\ lock' = None
  /\ UNCHANGED <<pc, fileVars, containerVars, lockRaced>>

\* The runtime is dropped, with it the agent's task and its SshSockFile.
DaemonExit(d) ==
  /\ dpc[d] = "drop"
  /\ DaemonGoto(d, "gone")
  /\ DropSocket
  /\ UNCHANGED <<pc, fileVars, wpc, bg, daemonVars>>

KillDaemon(d) ==
  /\ "kill_daemon" \in Faults
  /\ DaemonRunning(d)
  /\ DaemonGoto(d, "failed")
  /\ AbortIO(<<"daemon", d>>)
  /\ UNCHANGED <<pc, containerVars, daemonVars>>

\* What the daemon does without waiting for its terminal or for a user.
DaemonStep(d) ==
  \/ DaemonReadNothing(d)
  \/ DaemonCheck(d)
  \/ DaemonRemoveStale(d)
  \/ DaemonWriteLock(d)
  \/ DaemonNewSocket(d)
  \/ DaemonBind(d)
  \/ DaemonConnect(d)
  \/ DaemonRegister(d)
  \/ DaemonClean(d)
  \/ DaemonCleanOpen(d)
  \/ DaemonCleanWrite(d)
  \/ DaemonPoll(d)
  \/ DaemonRemoveSession(d)
  \/ DaemonRemoveLock(d)
  \/ DaemonExit(d)

DaemonInit ==
  /\ lock \in {None, Ghost}
  /\ lockRaced = FALSE

DaemonTypeOK ==
  /\ lock \in Sessions \cup {None, Ghost}
  /\ lockRaced \in BOOLEAN
============================================================================
