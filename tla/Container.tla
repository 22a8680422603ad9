----------------------------- MODULE Container -----------------------------
(***************************************************************************)
(* The container and its entrypoint `litterbox wait` (wait.rs), which is   *)
(* process 1 inside: it watches the mounted session lockfile with inotify, *)
(* leaves its loop when it reads an empty file, then waits for the         *)
(* processes that were orphaned to it and exits, which stops the container *)
(* and kills every session still inside.                                   *)
(***************************************************************************)
EXTENDS SessionFile

VARIABLES
  wpc,        \* where `litterbox wait` is; "off": the container is not running
  bg,         \* processes left in the background are children of process 1
  sock        \* the daemon whose SSH socket is at the socket's path, or None

containerVars == <<wpc, bg, sock>>

WaitPc == {"off", "watch", "read", "block", "reap"}

\* is_container_running
Up == wpc # "off"

\* `podman start` mounts what is at the paths now; a missing source makes it
\* fail.  Starting a running container does nothing.
PodmanStart ==
  IF Up THEN UNCHANGED <<fileVars, containerVars>>
  ELSE /\ exists /\ sock # None
       /\ wpc' = "watch"
       /\ MountFile
       /\ UNCHANGED <<bg, sock>>

PodmanCannotStart == ~Up /\ (~exists \/ sock = None)

\* Mutant of WaitAddWatch: the mask does not include IN_MODIFY.
WaitAddDeafWatch ==
  /\ wpc = "watch"
  /\ wpc' = "read"
  /\ UNCHANGED <<fileVars, bg, sock>>

WaitAddWatch ==
  /\ wpc = "watch"
  /\ wpc' = "read"
  /\ watch' = TRUE
  /\ UNCHANGED <<exists, file, mount, orphan, io, event, disturbed, bg, sock>>

\* Mutant of WaitRead: the file is not read again after the first event.
WaitReadOnce ==
  /\ wpc = "read"
  /\ wpc' = IF MountedPids = {} \/ event THEN "reap" ELSE "block"
  /\ disturbed' = (disturbed \/ \E p \in Procs : io[p].st = "open")
  /\ UNCHANGED <<exists, file, mount, orphan, io, watch, event, bg, sock>>

\* The mounted file, not the one at the path, decides.
WaitRead ==
  /\ wpc = "read"
  /\ wpc' = IF MountedPids = {} THEN "reap" ELSE "block"
  /\ disturbed' = (disturbed \/ \E p \in Procs : io[p].st = "open")
  /\ UNCHANGED <<exists, file, mount, orphan, io, watch, event, bg, sock>>

\* read_events drains the queue.
WaitEvent ==
  /\ wpc = "block"
  /\ event
  /\ wpc' = "read"
  /\ event' = FALSE
  /\ UNCHANGED <<exists, file, mount, orphan, io, watch, disturbed, bg, sock>>

\* waitpid says ECHILD: process 1 exits and the container stops.
WaitExit ==
  /\ wpc = "reap"
  /\ ~bg
  /\ wpc' = "off"
  /\ UnmountFile
  /\ UNCHANGED <<bg, sock>>

\* The processes in the background end.
BackgroundEnds ==
  /\ bg
  /\ bg' = FALSE
  /\ UNCHANGED <<fileVars, wpc, sock>>

ContainerInit ==
  /\ wpc = "off"
  /\ bg = FALSE
  /\ sock \in {None, Ghost}

ContainerTypeOK ==
  /\ wpc \in WaitPc
  /\ bg \in BOOLEAN
  /\ sock \in Sessions \cup {None, Ghost}
============================================================================
