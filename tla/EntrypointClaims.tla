-------------------------- MODULE EntrypointClaims --------------------------
(***************************************************************************)
(* What the repository says of the entrypoint, and TLC refutes.            *)
(***************************************************************************)
EXTENDS Entrypoint

\* entrypoint.rs:66, "wait for background processes to exit", and 71, "request
\* background processes to exit within 10 seconds, after which kill them": so
\* does an entrypoint whose shell returned a status that is not zero.  In the
\* code it bails out and leaves them to process 1.
FailureWaits == \A s \in Sessions :
  at[s] = "failed" /\ wait[s] # "background" => Background(s) \subseteq escaped
=============================================================================
