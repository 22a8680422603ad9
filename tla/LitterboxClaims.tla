-------------------------- MODULE LitterboxClaims --------------------------
(***************************************************************************)
(* What the documents of the repository say of a Litterbox, and its code   *)
(* does not do.  TLC finds a counterexample to each.                       *)
(***************************************************************************)
EXTENDS Litterbox

\* README.md:86, "this container will automatically stop when the last
\* terminal exits": it never stops under a shell.  `litterbox wait` does not
\* look at the lockfile again once it waits for background processes.
NeverStopsUnderShell ==
  [][wpc # "off" /\ wpc' = "off" => \A s \in Sessions : pc[s] # "shell"]_vars

\* ARCHITECTURE.md:17, the daemon lockfile "prevents multiple daemons from
\* running simultaneously".  It is looked at and written in separate steps.
OnlyOneDaemon == \A d, e \in Sessions : Owner(d) /\ Owner(e) => d = e

\* ARCHITECTURE.md:13, the daemon "automatically stops the container when all
\* sessions close".  A session may start the container after its daemon, or
\* the one it found, has seen none running and so exits; once its terminal is
\* killed nobody removes its PID.
StopsWhenAllClose == Up /\ Quiet ~> ~Up \/ bg \/ ~Quiet
============================================================================
