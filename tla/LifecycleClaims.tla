--------------------------- MODULE LifecycleClaims ---------------------------
(***************************************************************************)
(* What the repository says of building a Litterbox, and TLC refutes.      *)
(***************************************************************************)
EXTENDS Lifecycle

\* files.rs:150, SshSockFile::new(.., create_empty_placeholder: true): there is
\* a file for podman create to mount.  When there was one before, of a daemon
\* or of a build that was killed, it is removed and none is created.
PlaceholderThere == \A c \in Commands :
  pc[c] \in {"settings", "prompt", "save", "saving", "lockfile", "create"} => sock
=============================================================================
