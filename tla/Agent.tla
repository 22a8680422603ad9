-------------------------------- MODULE Agent --------------------------------
(***************************************************************************)
(* The SSH agent of a daemon (agent.rs) from the moment its socket is      *)
(* bound: start_ssh_server (keys.rs) registers the attached keys through   *)
(* the agent's own socket and then locks it; meanwhile, and after, clients *)
(* make requests, one at a time on each connection, and confirm_request    *)
(* lets the user decide on each, in a `litterbox confirm` dialog.          *)
(*                                                                         *)
(* russh serves every connection in a task of its own and performs a       *)
(* request when confirm_request returns true.  It has a lock of its own,   *)
(* with a password, which clients set and take off by requests too: the    *)
(* agent is then `sealed`, and russh refuses every request but Unlock      *)
(* before it is confirmed.  AgentState::locked is another lock.            *)
(***************************************************************************)
EXTENDS Integers, FiniteSets

CONSTANTS
  Clients,   \* the connections of other processes
  Own,       \* the connection of start_ssh_server
  Attached,  \* the keys attached to the Litterbox
  Foreign    \* a key that a client may add

ASSUME OwnIsNoClient      == Own \notin Clients
ASSUME ForeignNotAttached == Foreign \notin Attached

VARIABLES
  main,      \* start_ssh_server: "register", "locked", or "failed"
  left,      \* the keys that it has yet to register
  req,       \* req[c]: the request being made on connection c, see Request
  locked,    \* AgentState::locked
  approved,  \* AgentState::approved_for_session
  held,      \* the keys of the agent
  sealed,    \* russh's lock: a client has locked the agent with a password
  session,   \* history: the user has approved listing for the session
  removed    \* history: keys removed by a request that was early or approved

stateVars == <<locked, approved>>
vars      == <<main, left, req, stateVars, held, sealed, session, removed>>

Conns     == Clients \cup {Own}
Keys      == Attached \cup {Foreign}
Kinds     == {"RequestKeys", "AddKeys", "RemoveKeys", "RemoveAllKeys", "Sign",
              "Lock", "Unlock"}
Responses == {"Approved", "Declined", "ApprovedForSession", "unparsable"}
RequestPc == {"idle", "sent", "asked", "session", "dialog", "answered", "granted"}

\* `reply` is the user's answer, which the dialog prints; it is Declined until
\* there is one.  `early` is history: the agent was not locked yet.
Request == [at : RequestPc, kind : Kinds, key : Keys, reply : Responses, early : BOOLEAN]

NoRequest == [at |-> "idle", kind |-> "RequestKeys", key |-> Foreign,
              reply |-> "Declined", early |-> FALSE]

NewRequest(kind, key) ==
  [NoRequest EXCEPT !.at = "sent", !.kind = kind, !.key = key, !.early = ~locked]

\* The key matters to requests that add or remove one.
KeysFor(kind) == IF kind \in {"AddKeys", "RemoveKeys"} THEN Keys ELSE {Foreign}

Approved(c) == req[c].reply \in {"Approved", "ApprovedForSession"}

Goto(c, to) == req' = [req EXCEPT ![c].at = to]
Finish(c)   == req' = [req EXCEPT ![c] = NoRequest]

\* A client makes a request.
Ask(c) ==
  /\ req[c].at = "idle"
  /\ \E kind \in Kinds : \E key \in KeysFor(kind) :
       req' = [req EXCEPT ![c] = NewRequest(kind, key)]
  /\ UNCHANGED <<main, left, stateVars, held, sealed, session, removed>>

\* add_identity: the daemon makes a request of its own agent.
Register(key) ==
  /\ main = "register"
  /\ req[Own].at = "idle"
  /\ key \in left
  /\ req' = [req EXCEPT ![Own] = NewRequest("AddKeys", key)]
  /\ UNCHANGED <<main, left, stateVars, held, sealed, session, removed>>

\* Mutant of LockAgent: the agent is locked before all keys are registered.
LockAgentFirst ==
  /\ main = "register"
  /\ req[Own].at = "idle"
  /\ main' = "locked"
  /\ locked' = TRUE
  /\ UNCHANGED <<left, req, approved, held, sealed, session, removed>>

LockAgent ==
  /\ main = "register"
  /\ req[Own].at = "idle"
  /\ left = {}
  /\ main' = "locked"
  /\ locked' = TRUE
  /\ UNCHANGED <<left, req, approved, held, sealed, session, removed>>

\* A request of the daemon's own that is refused makes start_ssh_server fail.
Refuse(c) ==
  /\ Finish(c)
  /\ main' = IF c = Own THEN "failed" ELSE main

\* russh reads the request, and refuses it at once if the agent is sealed, or
\* if it is to unseal an agent that is not.
ReadRequest(c) ==
  /\ req[c].at = "sent"
  /\ IF sealed = (req[c].kind = "Unlock")
       THEN Goto(c, "asked") /\ UNCHANGED main
       ELSE Refuse(c)
  /\ UNCHANGED <<left, stateVars, held, sealed, session, removed>>

\* Mutant of CheckLocked: the agent asks from the start.
CheckNothing(c) ==
  /\ req[c].at = "asked"
  /\ Goto(c, IF req[c].kind = "RequestKeys" THEN "session" ELSE "dialog")
  /\ UNCHANGED <<main, left, stateVars, held, sealed, session, removed>>

\* Mutant of CheckLocked: a session approval is for requests of every type.
CheckLockedOnly(c) ==
  /\ req[c].at = "asked"
  /\ Goto(c, IF ~locked THEN "granted" ELSE "session")
  /\ UNCHANGED <<main, left, stateVars, held, sealed, session, removed>>

\* confirm_request loads `locked` ...
CheckLocked(c) ==
  /\ req[c].at = "asked"
  /\ Goto(c, IF ~locked THEN "granted"
             ELSE IF req[c].kind = "RequestKeys" THEN "session" ELSE "dialog")
  /\ UNCHANGED <<main, left, stateVars, held, sealed, session, removed>>

\* Mutant of CheckSession: every request is asked about.
CheckNoSession(c) ==
  /\ req[c].at = "session"
  /\ Goto(c, "dialog")
  /\ UNCHANGED <<main, left, stateVars, held, sealed, session, removed>>

\* ... and, to list the keys, `approved_for_session` ...
CheckSession(c) ==
  /\ req[c].at = "session"
  /\ Goto(c, IF approved THEN "granted" ELSE "dialog")
  /\ UNCHANGED <<main, left, stateVars, held, sealed, session, removed>>

\* The buttons of the dialog: the one for the session is for RequestKeys only.
Offered(kind) ==
  {r \in Responses \ {"unparsable"} : r = "ApprovedForSession" => kind = "RequestKeys"}

\* Mutant of UserAnswers: the dialog prints an answer that agent.rs has no
\* UserResponse for, and it is taken for one.
UserAnswersElse(c) ==
  /\ req[c].at = "dialog"
  /\ \E r \in Responses \cup {"Cancelled"} :
       req' = [req EXCEPT ![c].at = "answered", ![c].reply = r]
  /\ UNCHANGED <<main, left, stateVars, held, sealed, session, removed>>

\* ... or starts `litterbox confirm` and waits for what it prints: a button's
\* answer, Declined if the window is closed, or what does not parse.
UserAnswers(c) ==
  /\ req[c].at = "dialog"
  /\ \E r \in Offered(req[c].kind) \cup {"unparsable"} :
       /\ req' = [req EXCEPT ![c].at = "answered", ![c].reply = r]
       /\ session' = (session \/ r = "ApprovedForSession")
  /\ UNCHANGED <<main, left, stateVars, held, sealed, removed>>

\* The dialog cannot be started: the task panics, and the connection closes.
ConfirmPanics(c) ==
  /\ req[c].at = "dialog"
  /\ Refuse(c)
  /\ UNCHANGED <<left, stateVars, held, sealed, session, removed>>

\* Mutant of ConfirmReturns: an answer that does not parse is waited for again.
ConfirmParses(c) ==
  /\ req[c].at = "answered"
  /\ req[c].reply # "unparsable"
  /\ IF Approved(c)
       THEN Goto(c, "granted") /\ UNCHANGED main
       ELSE Refuse(c)
  /\ approved' = (approved \/ req[c].reply = "ApprovedForSession")
  /\ UNCHANGED <<left, locked, held, sealed, session, removed>>

\* Mutant of ConfirmReturns: an approval for the session is kept for the next.
ConfirmKeeps(c) ==
  /\ req[c].at = "answered"
  /\ IF req[c].reply = "Approved"
       THEN Goto(c, "granted") /\ UNCHANGED main
       ELSE Refuse(c)
  /\ approved' = (approved \/ req[c].reply = "ApprovedForSession")
  /\ UNCHANGED <<left, locked, held, sealed, session, removed>>

ConfirmReturns(c) ==
  /\ req[c].at = "answered"
  /\ IF Approved(c)
       THEN Goto(c, "granted") /\ UNCHANGED main
       ELSE Refuse(c)
  /\ approved' = (approved \/ req[c].reply = "ApprovedForSession")
  /\ UNCHANGED <<left, locked, held, sealed, session, removed>>

\* What russh does to the keys when the request is granted.
Taken(c) == CASE req[c].kind = "RemoveKeys"    -> {req[c].key}
              [] req[c].kind = "RemoveAllKeys" -> held
              [] OTHER                         -> {}

Added(c) == IF req[c].kind = "AddKeys" THEN {req[c].key} ELSE {}

\* Whether the agent is sealed then: it is not by an empty password, nor unsealed
\* by a wrong one.
Seals(c) == CASE req[c].kind = "Lock"   -> {sealed, TRUE}
              [] req[c].kind = "Unlock" -> {sealed, FALSE}
              [] OTHER                  -> {sealed}

Perform(c) ==
  /\ req[c].at = "granted"
  /\ Finish(c)
  /\ sealed' \in Seals(c)
  /\ held' = (held \ Taken(c)) \cup Added(c)
  /\ left' = IF c = Own THEN left \ Added(c) ELSE left
  /\ removed' = IF req[c].early \/ Approved(c)
                   THEN removed \cup (Taken(c) \cap held) ELSE removed
  /\ UNCHANGED <<main, stateVars, session>>

AgentStep(c) ==
  \/ ReadRequest(c)
  \/ CheckLocked(c)
  \/ CheckSession(c)
  \/ ConfirmReturns(c)
  \/ Perform(c)

MainStep == LockAgent \/ \E k \in Attached : Register(k)

Init ==
  /\ main = "register"
  /\ left = Attached
  /\ req = [c \in Conns |-> NoRequest]
  /\ locked = FALSE
  /\ approved = FALSE
  /\ held = {}
  /\ sealed = FALSE
  /\ session = FALSE
  /\ removed = {}

\* When start_ssh_server fails the daemon ends, and the agent with it.
Next ==
  /\ main # "failed"
  /\ \/ MainStep
     \/ \E c \in Clients : Ask(c)
     \/ \E c \in Conns : AgentStep(c) \/ UserAnswers(c) \/ ConfirmPanics(c)

Spec == Init /\ [][Next]_vars

MainTask  == main # "failed" /\ MainStep
Task(c)   == main # "failed" /\ AgentStep(c)
Registers == WF_vars(MainTask)
Serves(c) == WF_vars(Task(c))

\* The runtime runs every task; the user need not answer.
FairSpec == Spec /\ Registers /\ \A c \in Conns : Serves(c)

-----------------------------------------------------------------------------

\* Every variable stays in its set.
TypeOK ==
  /\ main \in {"register", "locked", "failed"}
  /\ left \in SUBSET Attached
  /\ req \in [Conns -> Request]
  /\ locked \in BOOLEAN
  /\ approved \in BOOLEAN
  /\ held \in SUBSET Keys
  /\ sealed \in BOOLEAN
  /\ session \in BOOLEAN
  /\ removed \in SUBSET Keys

\* A request made after the agent was locked is performed only if the user has
\* approved it, or has approved for the session and it is to list the keys:
\* not if the dialog was closed or killed, nor because of another connection's
\* answer.
GrantsConsented == \A c \in Clients :
  req[c].at = "granted" =>
    req[c].early \/ Approved(c) \/ (req[c].kind = "RequestKeys" /\ session)

\* From when it is locked the agent has every attached key, except those that
\* a request removed that the user approved, or that came before.  (Sealed, it
\* keeps them.)
KeysServed == locked => Attached \subseteq held \cup removed

\* The registration of the keys waits for no user, whatever the clients do
\* meanwhile: the agent gets locked, or the daemon fails because a client has
\* sealed its agent before all keys were in it, and for no other reason.
LocksWithoutUser ==
  main = "register" ~> main = "locked" \/ (main = "failed" /\ sealed)

\* When listing is approved for the session, a request to list is answered (or
\* refused at once, by a sealed agent) though the user answers no dialog, not
\* even one of another connection.
ListAnswered(c) ==
  approved /\ req[c].at = "sent" /\ req[c].kind = "RequestKeys" ~> req[c].at = "idle"

ListsWithoutUser == \A c \in Clients : ListAnswered(c)

\* The agent as a Keyring, which sees of the daemon's own requests only that
\* they give it the keys.
AskedFor(c) == IF req[c].at = "idle" THEN [kind |-> "nothing"]
                 ELSE [kind |-> req[c].kind, key |-> req[c].key]

LeaveOf(c) == IF req[c].at = "granted" THEN "granted"
                ELSE IF Approved(c) THEN "user"
                ELSE IF req[c].early THEN "open" ELSE "none"

Ring == INSTANCE Keyring WITH
          missing <- left,
          keys <- held,
          asked <- [c \in Clients |-> AskedFor(c)],
          leave <- [c \in Clients |-> LeaveOf(c)]

\* Whatever the connections and the dialogs do at the same time, each request is
\* served in one step, as asked, once the user has consented to it or to the
\* session, and then it is; a refusal changes nothing; and the attached keys are
\* there before the agent is locked, which it stays.
ConsentsAreKept == Ring!Spec

CanRun(c) == ENABLED <<Task(c)>>_vars

\* No task of an agent that has not failed is stuck: whatever the other
\* connections do, whatever the dialog printed, one that waits for nobody has a
\* next step.
TasksRun == main # "failed" =>
  /\ main = "register" /\ req[Own].at = "idle" => ENABLED <<MainTask>>_vars
  /\ \A c \in Conns :
       req[c].at \notin {"idle", "dialog"} => CanRun(c)
=============================================================================
