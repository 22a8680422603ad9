-------------------------------- MODULE Keyring --------------------------------
(***************************************************************************)
(* What an SSH agent promises: it is filled with the attached keys before  *)
(* it is locked, and from then on every request that it serves is one that *)
(* the user has consented to, by itself or, to list the keys, for the      *)
(* session.  A request is served at once, as it was asked and for the      *)
(* connection that asked, or it is refused and leaves no trace; one that   *)
(* the user has consented to is not refused.  Requests can also seal it:   *)
(* it then refuses what is asked of it, until one unseals it.              *)
(***************************************************************************)
CONSTANTS Clients, Attached

VARIABLES
  locked,
  missing,  \* the attached keys that the agent has yet to be given
  keys,     \* the keys that it holds
  sealed,   \* a client has sealed it
  session,  \* the user lets every request of the session list the keys
  asked,    \* asked[c]: what client c has asked for
  leave     \* leave[c]: "none", "open" for a request from before the lock, "user", or "granted"

vars == <<locked, missing, keys, sealed, session, asked, leave>>

\* A client that is not asking for anything.
Nothing == [kind |-> "nothing"]

\* The keys k after request r.
After(r, k) ==
  CASE r.kind = "AddKeys"       -> k \cup {r.key}
    [] r.kind = "RemoveKeys"    -> k \ {r.key}
    [] r.kind = "RemoveAllKeys" -> {}
    [] OTHER                    -> k

\* Whether it may be sealed after request r, if s says whether it was.
SealedAfter(r, s) ==
  CASE r.kind = "Lock"   -> {s, TRUE}
    [] r.kind = "Unlock" -> {s, FALSE}
    [] OTHER             -> {s}

Leaves(c, l) == leave' = [leave EXCEPT ![c] = l]

Give(k) ==
  /\ ~locked
  /\ missing' = missing \ {k}
  /\ keys' = keys \cup {k}
  /\ UNCHANGED <<locked, sealed, session, asked, leave>>

Lock ==
  /\ missing = {}
  /\ locked' = TRUE
  /\ UNCHANGED <<missing, keys, sealed, session, asked, leave>>

Ask(c) ==
  /\ asked[c] = Nothing
  /\ asked'[c] # Nothing
  /\ \A d \in Clients \ {c} : asked'[d] = asked[d]
  /\ Leaves(c, IF locked THEN "none" ELSE "open")
  /\ UNCHANGED <<locked, missing, keys, sealed, session>>

Consent(c) ==
  /\ locked
  /\ asked[c] # Nothing /\ leave[c] \in {"none", "open"}
  /\ Leaves(c, "user")
  /\ \/ UNCHANGED session
     \/ asked[c].kind = "RequestKeys" /\ session' = TRUE
  /\ UNCHANGED <<locked, missing, keys, sealed, asked>>

Ends(c) ==
  /\ asked[c] # Nothing
  /\ asked' = [asked EXCEPT ![c] = Nothing]
  /\ Leaves(c, "none")
  /\ UNCHANGED <<locked, missing, session>>

Grant(c) ==
  /\ asked[c] # Nothing
  /\ leave[c] \in {"open", "user"} \/ (asked[c].kind = "RequestKeys" /\ session)
  /\ Leaves(c, "granted")
  /\ UNCHANGED <<locked, missing, keys, sealed, session, asked>>

Serve(c) ==
  /\ leave[c] = "granted"
  /\ keys' = After(asked[c], keys)
  /\ sealed' \in SealedAfter(asked[c], sealed)
  /\ Ends(c)

Refuse(c) ==
  /\ locked \/ sealed # (asked[c].kind = "Unlock")
  /\ leave[c] \in {"none", "open"}
  /\ Ends(c)
  /\ UNCHANGED <<keys, sealed>>

Next ==
  \/ Lock
  \/ \E k \in Attached : Give(k)
  \/ \E c \in Clients : Ask(c) \/ Consent(c) \/ Grant(c) \/ Serve(c) \/ Refuse(c)

Init ==
  /\ ~locked
  /\ missing = Attached
  /\ keys = {}
  /\ ~sealed
  /\ ~session
  /\ asked = [c \in Clients |-> Nothing]
  /\ leave = [c \in Clients |-> "none"]

Spec == Init /\ [][Next]_vars
=============================================================================
