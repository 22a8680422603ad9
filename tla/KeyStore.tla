------------------------------ MODULE KeyStore ------------------------------
(***************************************************************************)
(* What the key file promises the commands that use it, one after the      *)
(* other: it holds a password and the keys that this password opens, a     *)
(* command changes it at once and as asked or leaves it alone, and what it *)
(* reports is what it did.  Only a command that is killed, or fails, while *)
(* it writes loses it.                                                     *)
(*                                                                         *)
(* `broken` is where the promise ends: after it anything may happen.       *)
(***************************************************************************)
CONSTANTS Commands, Passwords

VARIABLES
  state,    \* of the store: "none", "held" or "lost"
  store,    \* when "held": the password and the keys it opens
  phase,    \* phase[c]: what command c has come to
  request,  \* request[c]: what it was asked to do
  broken

vars == <<state, store, phase, request, broken>>

Named(keys, n) == {k \in keys : k.name = n}

\* The keys, with k attached to other Litterboxes.
Reattached(keys, k, boxes) == (keys \ {k}) \cup {[name |-> k.name, id |-> k.id, boxes |-> boxes]}

\* What request r of command c makes of the store s is the store t.
Outcome(r, c, s, t) ==
  LET named == Named(s.keys, r.name)
  IN \/ /\ r.kind = "passwd"
        /\ t.hash \in Passwords
        /\ t.keys = s.keys
     \/ /\ t.hash = s.hash
        /\ \/ /\ r.kind \in {"generate", "import"}
              /\ named = {}
              /\ t.keys = s.keys \cup {[name |-> r.name, id |-> c, boxes |-> {}]}
           \/ /\ r.kind = "delete"
              /\ named # {}
              /\ t.keys = s.keys \ named
           \/ /\ r.kind = "attach"
              /\ \E k \in named :
                   /\ r.box \notin k.boxes
                   /\ t.keys = Reattached(s.keys, k, k.boxes \cup {r.box})
           \/ /\ r.kind = "detach"
              /\ \E k \in named : \E kept \in SUBSET k.boxes :
                   t.keys = Reattached(s.keys, k, kept)

Become(c, p) == phase' = [phase EXCEPT ![c] = p]

Ask(c) ==
  /\ phase[c] = "idle"
  /\ \A d \in Commands : phase[d] \in {"idle", "done", "failed"}
  /\ Become(c, IF state = "lost" THEN "failed" ELSE "asked")
  /\ \A d \in Commands \ {c} : request'[d] = request[d]
  /\ UNCHANGED <<state, store, broken>>

\* The first command makes an empty store.
Create(c) ==
  /\ phase[c] = "asked"
  /\ state = "none"
  /\ state' = "held"
  /\ store'.hash \in Passwords
  /\ store'.keys = {}
  /\ Become(c, "making")
  /\ UNCHANGED <<request, broken>>

Made(c) ==
  /\ phase[c] = "making"
  /\ Become(c, "asked")
  /\ UNCHANGED <<state, store, request, broken>>

Apply(c) ==
  /\ phase[c] = "asked"
  /\ state = "held"
  /\ Outcome(request[c], c, store, store')
  /\ Become(c, "applied")
  /\ UNCHANGED <<state, request, broken>>

Report(c) ==
  /\ \/ phase[c] = "applied"
     \/ /\ phase[c] = "asked"
        /\ state = "held"
        /\ request[c].kind \in {"print", "enter"}
  /\ Become(c, "done")
  /\ UNCHANGED <<state, store, request, broken>>

\* A command that fails or is killed before it writes leaves no trace.
Fail(c) ==
  /\ phase[c] = "asked"
  /\ Become(c, "failed")
  /\ UNCHANGED <<state, store, request, broken>>

\* One that fails or is killed while it writes leaves what nobody can read.
Lose(c) ==
  /\ phase[c] \in {"making", "applied"}
  /\ state' = "lost"
  /\ Become(c, "failed")
  /\ UNCHANGED <<request, broken>>

Break == broken' = TRUE

Next ==
  \/ Break
  \/ \E c \in Commands :
       Ask(c) \/ Create(c) \/ Made(c) \/ Apply(c) \/ Report(c) \/ Fail(c) \/ Lose(c)

\* There is no store yet, or one that holds some keys, with a name each.
Init ==
  /\ state \in {"none", "held"}
  /\ \A k, l \in store.keys : k.name = l.name => k = l
  /\ phase = [c \in Commands |-> "idle"]
  /\ broken = FALSE

Spec == Init /\ [][Next]_vars
=============================================================================
