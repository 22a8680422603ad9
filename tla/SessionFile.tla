---------------------------- MODULE SessionFile ----------------------------
(***************************************************************************)
(* The session lockfile ~/Litterbox/.session-NAME.lock (files.rs): the set *)
(* of PIDs it lists, updated by unlocked read-modify-write.  fs::write is  *)
(* two steps, an open that creates or truncates the file and a write of    *)
(* the contents, and other processes run in between.                       *)
(*                                                                         *)
(* The container mounts the file, not the path: unlinking the path leaves  *)
(* the mounted file, an orphan, to the container and to whoever has it     *)
(* open.  The order and multiplicity of the PIDs are abstracted, since     *)
(* contains, retain and is_empty cannot tell them apart, and PIDs have the *)
(* same width.                                                             *)
(***************************************************************************)
EXTENDS Host

VARIABLES
  exists,    \* there is a session lockfile
  file,      \* the PIDs in it; empty if there is none
  mount,     \* what the running container has mounted at /session.lock
  orphan,    \* the PIDs in the mounted file when it is no longer at the path
  io,        \* io[p]: the read-modify-write process p is in the middle of
  watch,     \* `litterbox wait` has its inotify watch on the mounted file
  event,     \* an IN_MODIFY event waits to be read
  disturbed  \* history: an update of the lockfile was disturbed

fileVars == <<exists, file, mount, orphan, io, watch, event, disturbed>>

Procs   == {"enter", "daemon"} \X Sessions
Places  == {"none", "path", "orphan"}
IOState == [st : {"idle", "read", "open"}, buf : SUBSET Sessions, at : Places]
NoIO    == [st |-> "idle", buf |-> {}, at |-> "none"]

\* What `litterbox wait` reads.
MountedPids == IF mount = "path" THEN file ELSE orphan

Busy(p) == io[p].st # "idle"

\* Another process is between its read and its write: what p reads now is
\* about to be overwritten, or is the empty file left by the truncation.
Overlapped(p) == \E q \in Procs \ {p} : Busy(q)

\* p reads the lockfile and writes nothing.
JustRead(p) ==
  /\ disturbed' = (disturbed \/ Overlapped(p))
  /\ UNCHANGED <<exists, file, mount, orphan, io, watch, event>>

\* p reads the lockfile, a missing one as an empty one, and will write `new`.
ReadFor(p, new) ==
  /\ io' = [io EXCEPT ![p] = [st |-> "read", buf |-> new, at |-> "none"]]
  /\ disturbed' = (disturbed \/ Overlapped(p))
  /\ UNCHANGED <<exists, file, mount, orphan, watch, event>>

\* The first half of fs::write: open with O_CREAT and O_TRUNC.
OpenFile(p) ==
  /\ io[p].st = "read"
  /\ io' = [io EXCEPT ![p] = [@ EXCEPT !.st = "open", !.at = "path"]]
  /\ exists' = TRUE
  /\ file' = {}
  /\ event' = (event \/ (watch /\ mount = "path"))
  /\ UNCHANGED <<mount, orphan, watch, disturbed>>

\* Writing `new` from offset 0 keeps the tail of a longer list, which another
\* process wrote since the truncation.
Overwrite(old, new) ==
  LET kept == Cardinality(old) - Cardinality(new)
  IN {new \cup tail : tail \in {t \in SUBSET old :
                                  Cardinality(t) = IF kept > 0 THEN kept ELSE 0}}

\* The second half: the contents are written into the file that was opened.
\* Writing nothing changes nothing and raises no event.
WriteFile(p) ==
  LET at  == io[p].at
      new == io[p].buf
  IN /\ io[p].st = "open"
     /\ IF at = "path"   THEN file'   \in Overwrite(file, new)   ELSE UNCHANGED file
     /\ IF at = "orphan" THEN orphan' \in Overwrite(orphan, new) ELSE UNCHANGED orphan
     /\ event' = (event \/ (watch /\ mount = at /\ new # {}))
     /\ io' = [io EXCEPT ![p] = NoIO]
     /\ UNCHANGED <<exists, mount, watch, disturbed>>

\* Handles on the file at `from` are now handles on what is at `to`.
Redirect(from, to) ==
  io' = [p \in Procs |-> [io[p] EXCEPT !.at = IF @ = from THEN to ELSE @]]

\* The daemon p unlinks the lockfile.  It is a disturbance when somebody is
\* listed in it or in the middle of updating it, or when a container runs
\* that has it mounted.
UnlinkFile(p) ==
  LET moved == IF mount = "path" THEN "orphan" ELSE "none"
  IN /\ exists' = FALSE
     /\ file' = {}
     /\ IF mount = "path" THEN mount' = "orphan" /\ orphan' = file
                          ELSE UNCHANGED <<mount, orphan>>
     /\ Redirect("path", moved)
     /\ disturbed' = (disturbed \/ Overlapped(p) \/ file # {} \/ mount = "path")
     /\ UNCHANGED <<watch, event>>

\* p is killed: a file it had truncated stays empty.
AbortIO(p) ==
  /\ io' = [io EXCEPT ![p] = NoIO]
  /\ disturbed' = (disturbed \/ io[p].st = "open")
  /\ UNCHANGED <<exists, file, mount, orphan, watch, event>>

\* `podman start` bind-mounts the file that is at the path now.
MountFile ==
  /\ mount' = "path"
  /\ UNCHANGED <<exists, file, orphan, io, watch, event, disturbed>>

\* The container stops, and its mount and its watch are gone.
UnmountFile ==
  /\ mount' = "none"
  /\ orphan' = {}
  /\ Redirect("orphan", "none")
  /\ watch' = FALSE
  /\ event' = FALSE
  /\ UNCHANGED <<exists, file, disturbed>>

\* A lockfile made by `litterbox build`, or left by an earlier boot, exists
\* and may list PIDs that the new processes happen to get.
FileInit ==
  /\ exists = TRUE
  /\ file \in SUBSET Sessions
  /\ mount = "none"
  /\ orphan = {}
  /\ io = [p \in Procs |-> NoIO]
  /\ watch = FALSE
  /\ event = FALSE
  /\ disturbed = FALSE

FileTypeOK ==
  /\ exists \in BOOLEAN
  /\ file \in SUBSET Sessions
  /\ mount \in Places
  /\ orphan \in SUBSET Sessions
  /\ io \in [Procs -> IOState]
  /\ watch \in BOOLEAN
  /\ event \in BOOLEAN
  /\ disturbed \in BOOLEAN
============================================================================
