--------------------------- MODULE SharedContainer ---------------------------
(***************************************************************************)
(* What a Litterbox promises its terminals: they share one container, it   *)
(* starts for a session, and it is closed only when there is none.  A      *)
(* session that joins while it closes is not protected.                    *)
(*                                                                         *)
(* `broken` is where the promise ends: after it anything may happen.       *)
(***************************************************************************)
CONSTANT Sessions

VARIABLES
  users,   \* the sessions that have joined and not left
  phase,   \* of the container
  broken

vars == <<users, phase, broken>>

Phases == {"off", "up", "closing"}

Init == users = {} /\ phase = "off" /\ broken = FALSE

Join(s) ==
  /\ s \notin users
  /\ users' = users \cup {s}
  /\ UNCHANGED <<phase, broken>>

Leave(s) ==
  /\ users' = users \ {s}
  /\ UNCHANGED <<phase, broken>>

Start ==
  /\ phase = "off"
  /\ users # {}
  /\ phase' = "up"
  /\ UNCHANGED <<users, broken>>

Close ==
  /\ phase = "up"
  /\ users = {}
  /\ phase' = "closing"
  /\ UNCHANGED <<users, broken>>

Stop ==
  /\ phase = "closing"
  /\ phase' = "off"
  /\ UNCHANGED <<users, broken>>

Break ==
  /\ broken' = TRUE
  /\ users' \in SUBSET Sessions
  /\ phase' \in Phases

Next ==
  \/ Break
  \/ \E s \in Sessions : Join(s) \/ Leave(s)
  \/ Start
  \/ Close
  \/ Stop

Spec == Init /\ [][Next]_vars
==============================================================================
