-------------------------------- MODULE Stages --------------------------------
(***************************************************************************)
(* What define, build and delete promise of one Litterbox when they run    *)
(* one after the other, wherever one fails or is killed: it is made and    *)
(* taken down in stages, a definition, then an image, then a container     *)
(* with a home, of which each rests on those before; a command that        *)
(* reports success has gone all the way, or was called off before it did   *)
(* anything; and what sessions use is taken from them by no command but a  *)
(* build that replaces it.  Only a definition that was cut off before      *)
(* anything of it was there is of no use to any command, and stays.        *)
(*                                                                         *)
(* `broken` is where the promise ends: after it anything may happen.       *)
(***************************************************************************)
CONSTANTS
  Commands, None,
  Empty,  \* a definition that has been begun
  Torn    \* a part of one

VARIABLES
  definition,  \* who wrote the definition, None, Empty or Torn
  image,       \* the name of the image, or None
  box,         \* the name of the container, or None
  home,        \* there is a home
  inUse,       \* sessions run in the container
  phase,       \* phase[c]: what command c does, or has come to
  broken

things == <<definition, image, box, home, inUse>>
vars   == <<things, phase, broken>>

Tasks == {"define", "build", "delete", "device"}
Idle  == {"idle", "done", "kept", "failed"}
Steps == Tasks \cup {"defining", "builddefining", "unboxed", "unimaged"}

\* Command c, which is at p, goes to q.
Become(c, p, q) ==
  /\ phase[c] = p
  /\ phase' = [phase EXCEPT ![c] = q]
  /\ broken' = broken

Begin(c) ==
  /\ \A d \in Commands : phase[d] \in Idle
  /\ \E task \in Tasks : Become(c, "idle", task)
  /\ UNCHANGED things

\* There is a definition only once; a build makes it if there is none.
BeginDefinition(c) ==
  /\ definition = None
  /\ definition' = Empty
  /\ Become(c, "define", "defining") \/ Become(c, "build", "builddefining")
  /\ UNCHANGED <<image, box, home, inUse>>

\* It is written by the command that began it, or by none.
Define(c) ==
  /\ definition = Empty
  /\ definition' = c
  /\ Become(c, "defining", "done") \/ Become(c, "builddefining", "build")
  /\ UNCHANGED <<image, box, home, inUse>>

CutDefinition(c) ==
  /\ definition = Empty
  /\ definition' = Torn
  /\ Become(c, "defining", "failed") \/ Become(c, "builddefining", "failed")
  /\ UNCHANGED <<image, box, home, inUse>>

MakeImage(c) ==
  /\ definition \notin {None, Empty} /\ image = None
  /\ image' # None
  /\ Become(c, "build", "build")
  /\ UNCHANGED <<definition, box, home, inUse>>

MakeHome(c) ==
  /\ home' = TRUE
  /\ Become(c, "build", "build") \/ Become(c, "device", "device")
  /\ UNCHANGED <<definition, image, box, inUse>>

\* A container that there was is replaced by one of its name; its sessions end.
Deliver(c) ==
  /\ image # None /\ home
  /\ IF box = None THEN box' # None ELSE box' = box
  /\ inUse' = FALSE
  /\ Become(c, "build", "done")
  /\ UNCHANGED <<definition, image, home>>

\* If that fails it is gone.
Lose(c) ==
  /\ box' = None
  /\ inUse' = FALSE
  /\ Become(c, "build", "failed")
  /\ UNCHANGED <<definition, image, home>>

\* A delete is called off.
Decline(c) ==
  /\ Become(c, "delete", "kept")
  /\ UNCHANGED things

RemoveBox(c) ==
  /\ box # None /\ ~inUse
  /\ box' = None
  /\ Become(c, "delete", "unboxed")
  /\ UNCHANGED <<definition, image, home, inUse>>

RemoveImage(c) ==
  /\ box = None /\ image # None
  /\ image' = None
  /\ Become(c, "unboxed", "unimaged")
  /\ UNCHANGED <<definition, box, home, inUse>>

\* The user may keep the home and the definition.
RemoveRest(c) ==
  /\ box = None /\ image = None
  /\ \/ home' = FALSE /\ UNCHANGED definition
     \/ definition' = None /\ UNCHANGED home
  /\ Become(c, "unimaged", "unimaged")
  /\ UNCHANGED <<image, box, inUse>>

End(c) ==
  /\ Become(c, "unimaged", "done") \/ Become(c, "device", "done")
  /\ UNCHANGED things

Fail(c) ==
  /\ \E p \in Steps : Become(c, p, "failed")
  /\ UNCHANGED things

\* Sessions begin, and end.
Use ==
  /\ box # None
  /\ inUse' = ~inUse
  /\ UNCHANGED <<definition, image, box, home, phase, broken>>

Break == broken' = TRUE

Next ==
  \/ Break
  \/ Use
  \/ \E c \in Commands :
       \/ Begin(c) \/ BeginDefinition(c) \/ Define(c) \/ CutDefinition(c) \/ MakeImage(c)
       \/ MakeHome(c) \/ Deliver(c) \/ Lose(c)
       \/ Decline(c) \/ RemoveBox(c) \/ RemoveImage(c) \/ RemoveRest(c) \/ End(c) \/ Fail(c)

Init ==
  /\ definition = None /\ image = None /\ box = None
  /\ ~home /\ ~inUse
  /\ phase = [c \in Commands |-> "idle"]
  /\ ~broken

Spec == Init /\ [][Next]_vars

\* Nothing outlives what it rests on.
Layered ==
  ~broken =>
    /\ inUse => box # None
    /\ box # None => image # None /\ home
    /\ image # None => definition \notin {None, Empty}
=============================================================================
