------------------------------- MODULE Enter -------------------------------
(***************************************************************************)
(* `litterbox enter` (enter.rs), one process per terminal: start a daemon  *)
(* if none runs, add the own PID to the session lockfile, start the        *)
(* container if it is not running, run a shell in it, and remove the PID.  *)
(***************************************************************************)
EXTENDS Daemon

EnterGoto(s, to) == pc' = [pc EXCEPT ![s] = to]

\* get_container has found the container; daemon::is_running.
EnterCheckDaemon(s) ==
  /\ pc[s] = "idle"
  /\ EnterGoto(s, IF lock # None /\ DaemonPidExists(lock) THEN "append" ELSE "spawn")
  /\ UNCHANGED <<dpc, fileVars, containerVars, daemonVars>>

\* start_daemon, up to the spawn.  The user may refuse to give the password;
\* nothing then happens and enter fails.
EnterStartDaemon(s) ==
  /\ pc[s] = "spawn"
  /\ \/ EnterGoto(s, "handoff") /\ DaemonGoto(s, "stdin")
     \/ EnterGoto(s, "done") /\ UNCHANGED dpc
  /\ UNCHANGED <<fileVars, containerVars, daemonVars>>

\* The password is written and the pipe closed, on which the daemon waits.
\* If the daemon has been killed, the write fails; without a password there
\* is no write.
EnterHandOver(s) ==
  /\ pc[s] = "handoff"
  /\ \/ dpc[s] = "stdin" /\ DaemonGoto(s, "check") /\ EnterGoto(s, "append")
     \/ dpc[s] # "stdin" /\ UNCHANGED dpc /\ \E to \in {"append", "done"} : EnterGoto(s, to)
  /\ UNCHANGED <<fileVars, containerVars, daemonVars>>

\* Mutant of EnterAppend: the file is overwritten, not appended to.
EnterOverwrite(s) ==
  /\ pc[s] = "append"
  /\ EnterGoto(s, "appending")
  /\ ReadFor(<<"enter", s>>, {s})
  /\ UNCHANGED <<dpc, containerVars, daemonVars>>

\* Mutant of EnterAppend: the PID that is added may be that of no session.
EnterAppendAny(s) ==
  /\ pc[s] = "append"
  /\ EnterGoto(s, "appending")
  /\ \E pid \in {s, Ghost} : ReadFor(<<"enter", s>>, file \cup {pid})
  /\ UNCHANGED <<dpc, containerVars, daemonVars>>

\* append_pid_to_session_lockfile, its read.
EnterAppend(s) ==
  /\ pc[s] = "append"
  /\ IF s \in file
       THEN EnterGoto(s, "check") /\ JustRead(<<"enter", s>>)
       ELSE EnterGoto(s, "appending") /\ ReadFor(<<"enter", s>>, file \cup {s})
  /\ UNCHANGED <<dpc, containerVars, daemonVars>>

EnterFileOpen(s) ==
  /\ pc[s] \in {"appending", "leaving"}
  /\ OpenFile(<<"enter", s>>)
  /\ UNCHANGED <<pc, dpc, containerVars, daemonVars>>

EnterFileWrite(s) ==
  /\ pc[s] \in {"appending", "leaving"}
  /\ WriteFile(<<"enter", s>>)
  /\ EnterGoto(s, IF pc[s] = "appending" THEN "check" ELSE "done")
  /\ UNCHANGED <<dpc, containerVars, daemonVars>>

\* When podman fails, here or below, enter returns the error with its PID
\* still listed.
EnterCheckContainer(s) ==
  /\ pc[s] = "check"
  /\ \/ EnterGoto(s, IF Up THEN "exec" ELSE "start")
     \/ "podman" \in Faults /\ EnterGoto(s, "done")
  /\ UNCHANGED <<dpc, fileVars, containerVars, daemonVars>>

\* Mutant of EnterStart: podman is tried until it starts the container.
EnterStartRetrying(s) ==
  /\ pc[s] = "start"
  /\ PodmanStart
  /\ EnterGoto(s, "exec")
  /\ UNCHANGED <<dpc, daemonVars>>

EnterStart(s) ==
  /\ pc[s] = "start"
  /\ \/ PodmanStart /\ EnterGoto(s, "exec")
     \/ /\ PodmanCannotStart \/ "podman" \in Faults
        /\ EnterGoto(s, "done")
        /\ UNCHANGED <<fileVars, containerVars>>
  /\ UNCHANGED <<dpc, daemonVars>>

\* podman exec.  That it cannot be run is an error; that it fails is ignored.
EnterExec(s) ==
  /\ pc[s] = "exec"
  /\ \/ EnterGoto(s, IF Up THEN "shell" ELSE "leave")
     \/ "podman" \in Faults /\ \E to \in {"done", "leave"} : EnterGoto(s, to)
  /\ UNCHANGED <<dpc, fileVars, containerVars, daemonVars>>

\* The shell ends, and may leave processes in the background.
ShellEnds(s) ==
  /\ pc[s] = "shell"
  /\ EnterGoto(s, "leave")
  /\ bg' \in {bg, TRUE}
  /\ UNCHANGED <<dpc, fileVars, wpc, sock, daemonVars>>

\* remove_pid_from_session_lockfile, its read; the write always follows.
EnterLeave(s) ==
  /\ pc[s] = "leave"
  /\ EnterGoto(s, "leaving")
  /\ ReadFor(<<"enter", s>>, file \ {s})
  /\ UNCHANGED <<dpc, containerVars, daemonVars>>

\* The terminal is closed or the process killed, wherever it is.
KillEnter(s) ==
  /\ "kill_enter" \in Faults
  /\ EnterRunning(s)
  /\ EnterGoto(s, IF pc[s] = "handoff" /\ dpc[s] = "stdin" THEN "cut" ELSE "dead")
  /\ AbortIO(<<"enter", s>>)
  /\ UNCHANGED <<dpc, containerVars, daemonVars>>

\* The container stops: every podman exec returns.
ContainerStops ==
  /\ WaitExit
  /\ pc' = [s \in Sessions |-> IF pc[s] = "shell" THEN "leave" ELSE pc[s]]
  /\ UNCHANGED <<dpc, daemonVars>>

EnterStep(s) ==
  \/ EnterCheckDaemon(s)
  \/ EnterStartDaemon(s)
  \/ EnterHandOver(s)
  \/ EnterAppend(s)
  \/ EnterFileOpen(s)
  \/ EnterFileWrite(s)
  \/ EnterCheckContainer(s)
  \/ EnterStart(s)
  \/ EnterExec(s)
  \/ EnterLeave(s)

WaitStep ==
  \/ (WaitAddWatch \/ WaitRead \/ WaitEvent) /\ UNCHANGED <<pc, dpc, daemonVars>>
  \/ ContainerStops
============================================================================
