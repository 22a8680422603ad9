----------------------------- MODULE AgentProofs -----------------------------
(***************************************************************************)
(* Theorems about Agent, for any connections and any attached keys.        *)
(***************************************************************************)
EXTENDS Agent, TLAPS

\* No request, and a new one, are requests.
LEMMA NewRequests ==
  /\ NoRequest \in Request
  /\ locked \in BOOLEAN =>
       \A k \in Kinds : \A key \in KeysFor(k) : NewRequest(k, key) \in Request
<1>1. NoRequest \in Request
  BY DEF NoRequest, Request, RequestPc, Kinds, Keys, Responses
<1>2. ASSUME locked \in BOOLEAN, NEW k \in Kinds, NEW key \in KeysFor(k)
      PROVE  NewRequest(k, key) \in Request
  <2>1. key \in Keys
    BY <1>2 DEF KeysFor, Keys
  <2> QED BY <1>2, <2>1 DEF NewRequest, NoRequest, Request, RequestPc, Kinds, Responses
<1> QED BY <1>1, <1>2

\* Every variable stays in its set.
THEOREM TypeCorrect == Spec => []TypeOK
<1> USE DEF TypeOK, stateVars
<1>1. Init => TypeOK
  BY NewRequests DEF Init, Keys
<1>2. TypeOK /\ [Next]_vars => TypeOK'
  <2> SUFFICES ASSUME TypeOK, [Next]_vars PROVE TypeOK'
    OBVIOUS
  <2>1. CASE UNCHANGED vars
    BY <2>1 DEF vars
  <2>2. ASSUME NEW c \in Clients, Ask(c) PROVE TypeOK'
    BY <2>2, NewRequests DEF Ask
  <2>3. ASSUME NEW k \in Attached, Register(k) PROVE TypeOK'
    BY <2>3, NewRequests DEF Register, Kinds, KeysFor, Keys
  <2>4. CASE LockAgent
    BY <2>4 DEF LockAgent
  <2>5. ASSUME NEW c \in Conns, CheckLocked(c) PROVE TypeOK'
    BY <2>5 DEF CheckLocked, Goto, Request, RequestPc
  <2>6. ASSUME NEW c \in Conns, CheckSession(c) PROVE TypeOK'
    BY <2>6 DEF CheckSession, Goto, Request, RequestPc
  <2>7. ASSUME NEW c \in Conns, UserAnswers(c) PROVE TypeOK'
    <3>1. PICK r \in Responses :
            /\ req' = [req EXCEPT ![c].at = "answered", ![c].reply = r]
            /\ session' = (session \/ r = "ApprovedForSession")
      BY <2>7 DEF UserAnswers, Offered, Responses
    <3>2. req' \in [Conns -> Request]
      BY <3>1 DEF Request, RequestPc
    <3>3. session' \in BOOLEAN
      BY <3>1
    <3> QED BY <2>7, <3>2, <3>3 DEF UserAnswers
  <2>8. ASSUME NEW c \in Conns, ConfirmPanics(c) PROVE TypeOK'
    BY <2>8, NewRequests DEF ConfirmPanics, Refuse, Finish
  <2>9. ASSUME NEW c \in Conns, ConfirmReturns(c) PROVE TypeOK'
    BY <2>9, NewRequests DEF ConfirmReturns, Goto, Refuse, Finish, Request, RequestPc
  <2>10. ASSUME NEW c \in Conns, Perform(c) PROVE TypeOK'
    <3>1. Added(c) \subseteq Keys
      BY DEF Added, Request
    <3>2. req' \in [Conns -> Request]
      BY <2>10, NewRequests DEF Perform, Finish
    <3>3. sealed' \in BOOLEAN
      BY <2>10 DEF Perform, Seals
    <3> QED BY <2>10, <3>1, <3>2, <3>3 DEF Perform
  <2>11. ASSUME NEW c \in Conns, ReadRequest(c) PROVE TypeOK'
    <3>1. CASE Goto(c, "asked") /\ UNCHANGED main
      BY <2>11, <3>1 DEF ReadRequest, Goto, Request, RequestPc
    <3>2. CASE Refuse(c)
      BY <2>11, <3>2, NewRequests DEF ReadRequest, Refuse, Finish
    <3> QED BY <2>11, <3>1, <3>2 DEF ReadRequest
  <2> QED
    BY <2>1, <2>2, <2>3, <2>4, <2>5, <2>6, <2>7, <2>8, <2>9, <2>10, <2>11
       DEF Next, MainStep, AgentStep
<1> QED BY <1>1, <1>2, PTL DEF Spec

-----------------------------------------------------------------------------

\* What a request has gone through when it is where it is.  A request that
\* still finds the agent unlocked was made before it was locked.
RequestInv(c) ==
  /\ req[c].at \in {"sent", "asked"} /\ ~locked => req[c].early
  /\ req[c].at = "answered" /\ req[c].reply = "ApprovedForSession" => session
  /\ req[c].at = "session" => req[c].kind = "RequestKeys"
  /\ req[c].at = "granted" =>
       req[c].early \/ Approved(c) \/ (req[c].kind = "RequestKeys" /\ session)

ConsentInv == (approved => session) /\ \A c \in Conns : RequestInv(c)

LEMMA ConsentInvariant == Spec => []ConsentInv
<1> USE DEF ConsentInv, RequestInv, Approved
<1>1. Init => ConsentInv
  BY DEF Init, NoRequest
<1>2. TypeOK /\ ConsentInv /\ [Next]_vars => ConsentInv'
  <2> SUFFICES ASSUME TypeOK, ConsentInv, [Next]_vars PROVE ConsentInv'
    OBVIOUS
  <2> USE DEF TypeOK, stateVars
  <2>1. CASE UNCHANGED vars
    BY <2>1 DEF vars
  <2>2. ASSUME NEW c \in Clients, Ask(c) PROVE ConsentInv'
    <3>1. PICK kind \in Kinds : \E key \in KeysFor(kind) :
            req' = [req EXCEPT ![c] = NewRequest(kind, key)]
      BY <2>2 DEF Ask
    <3>2. \A d \in Conns \ {c} : req'[d] = req[d]
      BY <3>1
    <3>3. req'[c].at = "sent" /\ req'[c].early = ~locked
      BY <3>1 DEF NewRequest, NoRequest, Conns
    <3> QED BY <2>2, <3>2, <3>3 DEF Ask
  <2>3. ASSUME NEW k \in Attached, Register(k) PROVE ConsentInv'
    <3>1. \A d \in Conns \ {Own} : req'[d] = req[d]
      BY <2>3 DEF Register
    <3>2. req'[Own].at = "sent" /\ req'[Own].early = ~locked
      BY <2>3 DEF Register, NewRequest, NoRequest, Conns
    <3> QED BY <2>3, <3>1, <3>2 DEF Register
  <2>4. CASE LockAgent
    BY <2>4 DEF LockAgent
  <2>5. ASSUME NEW c \in Conns, CheckLocked(c) PROVE ConsentInv'
    BY <2>5 DEF CheckLocked, Goto, Request
  <2>6. ASSUME NEW c \in Conns, CheckSession(c) PROVE ConsentInv'
    BY <2>6 DEF CheckSession, Goto, Request
  <2>7. ASSUME NEW c \in Conns, UserAnswers(c) PROVE ConsentInv'
    <3>1. PICK r \in Responses :
            /\ req' = [req EXCEPT ![c].at = "answered", ![c].reply = r]
            /\ session' = (session \/ r = "ApprovedForSession")
      BY <2>7 DEF UserAnswers, Offered, Responses
    <3>2. req'[c].at = "answered" /\ req'[c].reply = r /\ \A d \in Conns \ {c} : req'[d] = req[d]
      BY <3>1 DEF Request
    <3>3. (session => session') /\ (r = "ApprovedForSession" => session')
      BY <3>1
    <3> QED BY <2>7, <3>2, <3>3 DEF UserAnswers
  <2>8. ASSUME NEW c \in Conns, ConfirmPanics(c) PROVE ConsentInv'
    BY <2>8 DEF ConfirmPanics, Refuse, Finish, NoRequest
  <2>9. ASSUME NEW c \in Conns, ConfirmReturns(c) PROVE ConsentInv'
    BY <2>9 DEF ConfirmReturns, Goto, Refuse, Finish, NoRequest, Request
  <2>10. ASSUME NEW c \in Conns, Perform(c) PROVE ConsentInv'
    BY <2>10 DEF Perform, Finish, NoRequest
  <2>11. ASSUME NEW c \in Conns, ReadRequest(c) PROVE ConsentInv'
    BY <2>11 DEF ReadRequest, Goto, Refuse, Finish, NoRequest, Request
  <2> QED
    BY <2>1, <2>2, <2>3, <2>4, <2>5, <2>6, <2>7, <2>8, <2>9, <2>10, <2>11
       DEF Next, MainStep, AgentStep
<1> QED BY <1>1, <1>2, TypeCorrect, PTL DEF Spec

\* No request that came after the lock is performed without the user's consent.
THEOREM NothingUnasked == Spec => []GrantsConsented
<1>1. ConsentInv => GrantsConsented
  BY DEF ConsentInv, RequestInv, GrantsConsented, Conns
<1> QED BY <1>1, ConsentInvariant, PTL

-----------------------------------------------------------------------------

\* Every attached key is still to be registered, or held, or was removed; the
\* agent is locked only after all have been registered.
KeysInv ==
  /\ Attached \subseteq left \cup held \cup removed
  /\ locked => left = {}

\* The agent serves every key that the user has not let go.
THEOREM KeysAreServed == Spec => []KeysServed
<1>1. Init => KeysInv
  BY DEF Init, KeysInv
<1>2. TypeOK /\ ConsentInv /\ KeysInv /\ [Next]_vars => KeysInv'
  <2> SUFFICES ASSUME TypeOK, ConsentInv, KeysInv, [Next]_vars PROVE KeysInv'
    OBVIOUS
  <2>1. ASSUME NEW c \in Conns, Perform(c) PROVE KeysInv'
    <3>1. left \cup held' = left' \cup held' /\ left' \subseteq left
      BY <2>1 DEF Perform
    <3>2. Taken(c) # {} => req[c].early \/ Approved(c)
      BY <2>1 DEF Perform, Taken, ConsentInv, RequestInv
    <3>3. held \subseteq held' \cup removed' /\ removed \subseteq removed'
      BY <2>1, <3>2 DEF Perform
    <3> QED BY <2>1, <3>1, <3>3 DEF KeysInv, Perform, stateVars
  <2>2. CASE LockAgent
    BY <2>2 DEF LockAgent, KeysInv
  <2>3. CASE UNCHANGED <<left, locked, held, removed>>
    BY <2>3 DEF KeysInv
  <2> QED
    BY <2>1, <2>2, <2>3 DEF vars, stateVars, Next, MainStep, AgentStep, Ask, Register,
       ReadRequest, CheckLocked, CheckSession, UserAnswers, ConfirmPanics, ConfirmReturns
<1>3. KeysInv => KeysServed
  BY DEF KeysInv, KeysServed
<1> QED BY <1>1, <1>2, <1>3, TypeCorrect, ConsentInvariant, PTL DEF Spec

-----------------------------------------------------------------------------

\* While the daemon registers its keys nothing of any connection has got past
\* the test of `locked`, and the daemon's own request adds a key it has yet to
\* register; from then on it makes none.  Only a sealed agent has refused one.
OwnInv ==
  /\ main = "failed" => sealed
  /\ locked <=> main = "locked"
  /\ approved => locked
  /\ locked => req[Own].at = "idle"
  /\ ~locked => \A c \in Conns : req[c].at \notin {"session", "dialog", "answered"}
  /\ req[Own].at # "idle" => req[Own].kind = "AddKeys" /\ req[Own].key \in left

LEMMA OwnInvariant == Spec => []OwnInv
<1> USE DEF OwnInv, stateVars, Conns
<1>1. Init => OwnInv
  BY DEF Init, NoRequest
<1>2. TypeOK /\ OwnInv /\ [Next]_vars => OwnInv'
  <2> SUFFICES ASSUME TypeOK, OwnInv, [Next]_vars PROVE OwnInv'
    OBVIOUS
  <2> USE OwnIsNoClient DEF TypeOK
  <2>1. CASE UNCHANGED vars
    BY <2>1 DEF vars
  <2>2. ASSUME NEW c \in Clients, Ask(c) PROVE OwnInv'
    <3>1. PICK kind \in Kinds : \E key \in KeysFor(kind) :
            req' = [req EXCEPT ![c] = NewRequest(kind, key)]
      BY <2>2 DEF Ask
    <3>2. req'[c].at = "sent" /\ \A d \in Conns \ {c} : req'[d] = req[d]
      BY <3>1 DEF NewRequest, NoRequest
    <3> QED BY <2>2, <3>2 DEF Ask
  <2>3. ASSUME NEW k \in Attached, Register(k) PROVE OwnInv'
    <3>1. \A d \in Conns \ {Own} : req'[d] = req[d]
      BY <2>3 DEF Register
    <3>2. req'[Own].at = "sent" /\ req'[Own].kind = "AddKeys" /\ req'[Own].key = k
      BY <2>3 DEF Register, NewRequest, NoRequest
    <3> QED BY <2>3, <3>1, <3>2 DEF Register
  <2>4. CASE LockAgent
    BY <2>4 DEF LockAgent
  <2>5. ASSUME NEW c \in Conns, CheckLocked(c) PROVE OwnInv'
    BY <2>5 DEF CheckLocked, Goto, Request
  <2>6. ASSUME NEW c \in Conns, CheckSession(c) PROVE OwnInv'
    BY <2>6 DEF CheckSession, Goto, Request
  <2>7. ASSUME NEW c \in Conns, UserAnswers(c) PROVE OwnInv'
    <3>1. locked /\ c # Own
      BY <2>7 DEF UserAnswers
    <3>2. req'[Own] = req[Own]
      BY <2>7, <3>1 DEF UserAnswers
    <3> QED BY <2>7, <3>1, <3>2 DEF UserAnswers
  <2>8. ASSUME NEW c \in Conns, ConfirmPanics(c) PROVE OwnInv'
    BY <2>8 DEF ConfirmPanics, Refuse, Finish
  <2>9. ASSUME NEW c \in Conns, ConfirmReturns(c) PROVE OwnInv'
    BY <2>9 DEF ConfirmReturns, Goto, Refuse, Finish, Request
  <2>10. ASSUME NEW c \in Conns, Perform(c), main # "failed" PROVE OwnInv'
    BY <2>10 DEF Perform, Finish, NoRequest
  <2>11. ASSUME NEW c \in Conns, ReadRequest(c) PROVE OwnInv'
    <3>1. CASE sealed = (req[c].kind = "Unlock")
      BY <2>11, <3>1 DEF ReadRequest, Goto, Request
    <3>2. CASE sealed # (req[c].kind = "Unlock")
      <4>1. Refuse(c) /\ req[c].at = "sent"
        BY <2>11, <3>2 DEF ReadRequest
      <4>2. c = Own => sealed
        BY <3>2, <4>1
      <4> QED BY <2>11, <4>1, <4>2 DEF ReadRequest, Refuse, Finish, NoRequest
    <3> QED BY <3>1, <3>2
  <2> QED
    BY <2>1, <2>2, <2>3, <2>4, <2>5, <2>6, <2>7, <2>8, <2>9, <2>10, <2>11
       DEF Next, MainStep, AgentStep
<1> QED BY <1>1, <1>2, TypeCorrect, PTL DEF Spec

\* Nobody is ever asked about a request of the daemon's own, and none is refused
\* but by an agent that a client has sealed: start_ssh_server fails for no other.
THEOREM RegistersUnasked ==
  Spec => []( /\ req[Own].at \notin {"session", "dialog", "answered"}
              /\ main = "failed" => sealed )
<1>1. OwnInv => /\ req[Own].at \notin {"session", "dialog", "answered"}
                /\ main = "failed" => sealed
  BY DEF OwnInv, Conns
<1> QED BY <1>1, OwnInvariant, PTL

-----------------------------------------------------------------------------

\* A step leaves a client's request where it is, unless it is a step of its
\* own task, or the user's.
LEMMA OthersLeaveRequest ==
  ASSUME TypeOK, [Next]_vars, NEW c \in Clients, req[c].at \notin {"idle", "dialog"}
  PROVE  req'[c] = req[c] \/ Task(c)
<1> USE OwnIsNoClient DEF TypeOK, Conns
<1>1. CASE UNCHANGED vars
  BY <1>1 DEF vars
<1>2. CASE \E d \in Clients : Ask(d)
  BY <1>2 DEF Ask
<1>3. CASE MainStep
  BY <1>3 DEF MainStep, LockAgent, Register
<1>4. ASSUME NEW d \in Conns, AgentStep(d), main # "failed"
      PROVE  req'[c] = req[c] \/ Task(c)
  BY <1>4 DEF Task, AgentStep, ReadRequest, CheckLocked, CheckSession, ConfirmReturns, Perform, Goto, Refuse, Finish
<1>5. ASSUME NEW d \in Conns, UserAnswers(d) \/ ConfirmPanics(d)
      PROVE  req'[c] = req[c]
  BY <1>5 DEF UserAnswers, ConfirmPanics, Refuse, Finish
<1> QED BY <1>1, <1>2, <1>3, <1>4, <1>5 DEF Next

\* A client's request to list, and how far it has come, when listing has been
\* approved for the session.
ToList(c)  == approved /\ req[c].at = "sent" /\ req[c].kind = "RequestKeys"
Taking(c)  == approved /\ req[c].at = "asked" /\ req[c].kind = "RequestKeys"
Listing(c) == approved /\ req[c].at = "session"
Listed(c)  == approved /\ req[c].at = "granted"
Answered(c) == req[c].at = "idle"

\* Approved for the session, listing needs no dialog and waits for none: it is
\* answered by every fair behaviour in which no task is ever stuck.
THEOREM ListsUnasked == FairSpec /\ []TasksRun => ListsWithoutUser
<1>1. ASSUME NEW c \in Clients
      PROVE  FairSpec /\ []TasksRun => ListAnswered(c)
  <2> USE DEF ToList, Taking, Listing, Listed, Answered
  <2>1. FairSpec => Spec /\ Serves(c)
    BY DEF FairSpec, Conns
  <2>2. TypeOK /\ OwnInv /\ [Next]_vars /\ approved => approved' /\ locked'
    BY DEF OwnInv, vars, stateVars, Next, MainStep, AgentStep, Ask, Register, LockAgent,
       ReadRequest, CheckLocked, CheckSession, UserAnswers, ConfirmPanics, ConfirmReturns, Perform
  <2>3. TypeOK /\ OwnInv /\ Task(c) =>
          /\ ToList(c) => Taking(c)' \/ Answered(c)'
          /\ Taking(c) => Listing(c)'
          /\ Listing(c) => Listed(c)'
          /\ Listed(c) => Answered(c)'
    BY DEF OwnInv, TypeOK, Task, AgentStep, ReadRequest, CheckLocked, CheckSession, ConfirmReturns,
       Perform, Goto, Refuse, Finish, NoRequest, Request, Conns, stateVars
  <2>4. TypeOK /\ OwnInv /\ [Next]_vars =>
          /\ ToList(c) => ToList(c)' \/ Taking(c)' \/ Answered(c)'
          /\ Taking(c) => Taking(c)' \/ Listing(c)'
          /\ Listing(c) => Listing(c)' \/ Listed(c)'
          /\ Listed(c) => Listed(c)' \/ Answered(c)'
    BY <2>2, <2>3, OthersLeaveRequest
  <2>5. TasksRun /\ OwnInv /\ (ToList(c) \/ Taking(c) \/ Listing(c) \/ Listed(c)) => CanRun(c)
    BY DEF TasksRun, OwnInv, Conns
  <2> HIDE DEF ToList, Taking, Listing, Listed, Answered
  <2>6. FairSpec /\ []TasksRun => (ToList(c) ~> Answered(c))
    BY <2>1, <2>3, <2>4, <2>5, TypeCorrect, OwnInvariant, PTL DEF Serves, CanRun, Spec
  <2>7. ListAnswered(c) <=> (ToList(c) ~> Answered(c))
    BY DEF ListAnswered, ToList, Answered
  <2> QED BY <2>6, <2>7
<1> QED BY <1>1 DEF ListsWithoutUser

\* The daemon between two requests, and how far its request has come.
Between == main = "register" /\ req[Own].at = "idle"
Sending == main = "register" /\ req[Own].at = "sent"
Making  == main = "register" /\ req[Own].at = "asked"
Adding  == main = "register" /\ req[Own].at = "granted"

Registering == main = "register"
LockedAgent == main = "locked" \/ (main = "failed" /\ sealed)

\* Some time the last key is registered that ever is: `left` starts as Attached
\* and only shrinks, so every behaviour with finitely many keys does this.
FinitelyRegistered == <>[][UNCHANGED left]_vars

\* A step while the daemon registers its keys is its own or leaves it alone.
LEMMA OthersLeaveRegistration ==
  ASSUME TypeOK, OwnInv, [Next]_vars, main = "register"
  PROVE  UNCHANGED <<main, left, req[Own]>> \/ MainTask \/ Task(Own)
<1> USE OwnIsNoClient DEF TypeOK, Conns
<1>1. CASE UNCHANGED vars
  BY <1>1 DEF vars
<1>2. CASE \E d \in Clients : Ask(d)
  BY <1>2 DEF Ask
<1>3. CASE MainStep
  BY <1>3 DEF MainTask
<1>4. ASSUME NEW d \in Conns, AgentStep(d)
      PROVE  UNCHANGED <<main, left, req[Own]>> \/ Task(Own)
  <2>1. CASE d = Own
    BY <1>4, <2>1 DEF Task
  <2>2. CASE d # Own
    BY <1>4, <2>2 DEF AgentStep, ReadRequest, CheckLocked, CheckSession, ConfirmReturns, Perform,
       Goto, Refuse, Finish
  <2> QED BY <2>1, <2>2
<1>5. ASSUME NEW d \in Conns, UserAnswers(d) \/ ConfirmPanics(d) PROVE FALSE
  BY <1>5 DEF UserAnswers, ConfirmPanics, OwnInv
<1> QED BY <1>1, <1>2, <1>3, <1>4, <1>5 DEF Next

\* A daemon with finitely many keys to register has them all registered, and
\* locks its agent, unless a client seals it before, whatever else its clients ask
\* and its user does: in every fair behaviour in which no task is ever stuck.
THEOREM LocksUnasked == FairSpec /\ []TasksRun /\ FinitelyRegistered => LocksWithoutUser
<1> USE DEF Between, Sending, Making, Adding, Registering, LockedAgent
<1>1. FairSpec => Spec /\ Registers /\ Serves(Own)
  BY DEF FairSpec, Conns
<1>2. TypeOK /\ OwnInv => LockedAgent \/ Between \/ Sending \/ Making \/ Adding
  <2>1. TypeOK => req[Own].at \in RequestPc
    BY DEF TypeOK, Request, Conns
  <2>2. OwnInv /\ main = "register" => req[Own].at \notin {"session", "dialog", "answered"}
    BY DEF OwnInv, Conns
  <2> QED BY <2>1, <2>2 DEF RequestPc, TypeOK, OwnInv
<1>3. TypeOK /\ OwnInv /\ MainTask =>
        /\ Between => Sending' \/ LockedAgent'
        /\ ~Sending /\ ~Making /\ ~Adding
  BY DEF TypeOK, OwnInv, MainTask, MainStep, Register, LockAgent, NewRequest, NoRequest, Conns
<1>4. TypeOK /\ OwnInv /\ Task(Own) =>
        /\ Sending => Making' \/ LockedAgent'
        /\ Making => Adding'
        /\ Adding => ~UNCHANGED left
        /\ ~Between
  BY DEF TypeOK, OwnInv, Task, AgentStep, ReadRequest, CheckLocked, CheckSession, ConfirmReturns,
     Perform, Goto, Refuse, Finish, Added, Request, Conns
<1>5. TypeOK /\ OwnInv /\ [Next]_vars =>
        /\ Between => Between' \/ Sending' \/ LockedAgent'
        /\ Sending => Sending' \/ Making' \/ LockedAgent'
        /\ Making => Making' \/ Adding'
        /\ Adding => Adding' \/ ~UNCHANGED left
  BY <1>3, <1>4, OthersLeaveRegistration
<1>6. TasksRun =>
        /\ Between => ENABLED <<MainTask>>_vars
        /\ Sending \/ Making \/ Adding => CanRun(Own)
  BY DEF TasksRun, Conns
<1>7. UNCHANGED vars => UNCHANGED left
  BY DEF vars
<1> HIDE DEF Between, Sending, Making, Adding, Registering, LockedAgent
<1>8. FairSpec /\ []TasksRun /\ FinitelyRegistered => (Registering ~> LockedAgent)
  BY <1>1, <1>2, <1>3, <1>4, <1>5, <1>6, <1>7, TypeCorrect, OwnInvariant, PTL
     DEF Registers, Serves, CanRun, FinitelyRegistered, Spec
<1> QED BY <1>8 DEF LocksWithoutUser, Registering, LockedAgent

-----------------------------------------------------------------------------
\* The agent as a Keyring.

\* Until the dialog has answered, a request has no answer.
ReplyInv == \A c \in Conns : req[c].at \notin {"answered", "granted"} => req[c].reply = "Declined"

LEMMA ReplyInvariant == Spec => []ReplyInv
<1> USE DEF ReplyInv
<1>1. Init => ReplyInv
  BY DEF Init, NoRequest
<1>2. TypeOK /\ ReplyInv /\ [Next]_vars => ReplyInv'
  <2> SUFFICES ASSUME TypeOK, ReplyInv, [Next]_vars PROVE ReplyInv'
    OBVIOUS
  <2>1. CASE UNCHANGED vars
    BY <2>1 DEF vars
  <2>2. ASSUME NEW c \in Clients, Ask(c) PROVE ReplyInv'
    BY <2>2 DEF Ask, NewRequest, NoRequest, TypeOK, Conns
  <2>3. CASE MainStep
    <3>1. ASSUME NEW k \in Attached, Register(k) PROVE ReplyInv'
      BY <3>1 DEF Register, NewRequest, NoRequest, TypeOK, Conns
    <3> QED BY <2>3, <3>1 DEF MainStep, LockAgent
  <2>4. ASSUME NEW c \in Conns, AgentStep(c) PROVE ReplyInv'
    BY <2>4 DEF AgentStep, ReadRequest, CheckLocked, CheckSession, ConfirmReturns, Perform, Goto,
       Refuse, Finish, NoRequest, TypeOK, Request
  <2>5. ASSUME NEW c \in Conns, UserAnswers(c) \/ ConfirmPanics(c) PROVE ReplyInv'
    BY <2>5 DEF UserAnswers, ConfirmPanics, Refuse, Finish, NoRequest, TypeOK, Request
  <2> QED BY <2>1, <2>2, <2>3, <2>4, <2>5 DEF Next
<1> QED BY <1>1, <1>2, TypeCorrect, PTL DEF Spec

RingInv == TypeOK /\ ConsentInv /\ OwnInv /\ ReplyInv

AskedNow == [c \in Clients |-> AskedFor(c)]
LeaveNow == [c \in Clients |-> LeaveOf(c)]

LEMMA AskedIsSomething ==
  ASSUME TypeOK, NEW c \in Conns
  PROVE  AskedFor(c) = Ring!Nothing <=> req[c].at = "idle"
  BY DEF AskedFor, Ring!Nothing, TypeOK, Request, Kinds

\* A step that is about one connection's request is about one in the Keyring.
LEMMA OneRequestMoves ==
  ASSUME TypeOK, NEW c \in Clients, NEW r \in Request, req' = [req EXCEPT ![c] = r]
  PROVE  /\ req'[c] = r
         /\ AskedNow' = [AskedNow EXCEPT ![c] = AskedFor(c)']
         /\ LeaveNow' = [LeaveNow EXCEPT ![c] = LeaveOf(c)']
         /\ \A d \in Clients \ {c} : AskedNow'[d] = AskedNow[d]
<1>1. req'[c] = r /\ \A d \in Clients \ {c} : req'[d] = req[d]
  BY DEF TypeOK, Conns
<1>2. \A d \in Clients \ {c} : AskedFor(d)' = AskedFor(d) /\ LeaveOf(d)' = LeaveOf(d)
  BY <1>1 DEF AskedFor, LeaveOf, Approved
<1> QED BY <1>1, <1>2 DEF AskedNow, LeaveNow

\* What the daemon's own connection does is not to be seen in the requests.
LEMMA OwnRequestHidden ==
  ASSUME TypeOK, NEW r, req' = [req EXCEPT ![Own] = r]
  PROVE  AskedNow' = AskedNow /\ LeaveNow' = LeaveNow
<1>1. \A d \in Clients : req'[d] = req[d]
  BY OwnIsNoClient DEF TypeOK, Conns
<1> QED BY <1>1 DEF AskedNow, LeaveNow, AskedFor, LeaveOf, Approved

\* The keyring does not see a step by which it and a client's request stay.
LEMMA StepHidden ==
  ASSUME TypeOK, NEW c \in Clients, NEW r \in Request, req' = [req EXCEPT ![c] = r],
         AskedFor(c)' = AskedFor(c), LeaveOf(c)' = LeaveOf(c),
         UNCHANGED <<locked, left, held, sealed, session>>
  PROVE  UNCHANGED Ring!vars
<1>1. AskedNow' = AskedNow /\ LeaveNow' = LeaveNow
  BY OneRequestMoves DEF AskedNow, LeaveNow
<1> QED BY <1>1 DEF Ring!vars, AskedNow, LeaveNow

LEMMA AskAsks ==
  ASSUME RingInv, NEW c \in Clients, Ask(c)
  PROVE  Ring!Ask(c)
<1>1. PICK kind \in Kinds : \E key \in KeysFor(kind) :
        req' = [req EXCEPT ![c] = NewRequest(kind, key)]
  BY DEF Ask
<1>2. PICK key \in KeysFor(kind) : req' = [req EXCEPT ![c] = NewRequest(kind, key)]
  BY <1>1
<1>3. NewRequest(kind, key) \in Request
  BY NewRequests DEF RingInv, TypeOK
<1>4. req'[c] = NewRequest(kind, key)
  BY <1>2 DEF RingInv, TypeOK, Conns
<1>5. AskedFor(c) = Ring!Nothing /\ AskedFor(c)' # Ring!Nothing
  BY <1>4 DEF Ask, AskedFor, Ring!Nothing, NewRequest, NoRequest, Kinds
<1>6. LeaveOf(c)' = IF locked THEN "none" ELSE "open"
  BY <1>4 DEF LeaveOf, Approved, NewRequest, NoRequest, RingInv, TypeOK
<1>7. /\ AskedNow' = [AskedNow EXCEPT ![c] = AskedFor(c)']
      /\ LeaveNow' = [LeaveNow EXCEPT ![c] = LeaveOf(c)']
      /\ \A d \in Clients \ {c} : AskedNow'[d] = AskedNow[d]
  BY <1>2, <1>3, OneRequestMoves DEF RingInv
<1> QED BY <1>5, <1>6, <1>7 DEF Ask, Ring!Ask, Ring!Leaves, AskedNow, LeaveNow, stateVars

\* Each step of a client's task, and each answer of the user's, is a step of the
\* keyring, or it is hidden.
LEMMA TaskServes ==
  ASSUME RingInv, NEW c \in Clients, AgentStep(c)
  PROVE  Ring!Grant(c) \/ Ring!Serve(c) \/ Ring!Refuse(c) \/ UNCHANGED Ring!vars
<1> USE DEF RingInv, stateVars
<1>0. /\ c \in Conns /\ c # Own /\ req[c] \in Request
      /\ RequestInv(c)
      /\ req[c].at \notin {"answered", "granted"} => req[c].reply = "Declined"
      /\ approved => session
      /\ ~locked => req[c].at \notin {"session", "dialog", "answered"}
  BY OwnIsNoClient DEF TypeOK, ConsentInv, OwnInv, ReplyInv, Conns
<1>1. AskedFor(c) = Ring!Nothing <=> req[c].at = "idle"
  BY <1>0, AskedIsSomething
<1> DEFINE to(at) == [req[c] EXCEPT !.at = at]
<1>2. ASSUME NEW at \in RequestPc, req[c].at # "idle", at # "idle", req' = [req EXCEPT ![c] = to(at)]
      PROVE  /\ to(at) \in Request /\ req'[c] = to(at)
             /\ AskedFor(c)' = AskedFor(c)
             /\ LeaveOf(c)' = IF at = "granted" THEN "granted"
                              ELSE IF Approved(c) THEN "user" ELSE IF req[c].early THEN "open" ELSE "none"
  <2>1. to(at) \in Request
    BY <1>0, <1>2 DEF Request
  <2>2. req'[c] = to(at)
    BY <1>0, <1>2 DEF TypeOK
  <2>3. to(at).at = at /\ to(at).kind = req[c].kind /\ to(at).key = req[c].key
        /\ to(at).reply = req[c].reply /\ to(at).early = req[c].early
    BY <1>0 DEF Request
  <2>4. AskedFor(c)' = AskedFor(c)
    BY <1>2, <2>2, <2>3 DEF AskedFor
  <2>5. LeaveOf(c)' = IF at = "granted" THEN "granted"
                      ELSE IF Approved(c) THEN "user" ELSE IF req[c].early THEN "open" ELSE "none"
    BY <2>2, <2>3 DEF LeaveOf, Approved
  <2> QED BY <2>1, <2>2, <2>4, <2>5
<1>3. \A at : Goto(c, at) <=> req' = [req EXCEPT ![c] = to(at)]
  BY <1>0 DEF Goto, TypeOK
<1> HIDE DEF to
\* A request is granted.
<1>4. ASSUME req[c].at # "idle", Goto(c, "granted"), LeaveOf(c) \in {"open", "user"} \/ (req[c].kind = "RequestKeys" /\ session),
             UNCHANGED <<left, locked, held, sealed, session>>
      PROVE  Ring!Grant(c)
  <2>1. req' = [req EXCEPT ![c] = to("granted")]
    BY <1>3, <1>4
  <2>2. to("granted") \in Request /\ AskedFor(c)' = AskedFor(c) /\ LeaveOf(c)' = "granted"
    BY <1>2, <1>4, <2>1 DEF RequestPc
  <2>3. /\ AskedNow' = [AskedNow EXCEPT ![c] = AskedFor(c)']
        /\ LeaveNow' = [LeaveNow EXCEPT ![c] = LeaveOf(c)']
    BY <2>1, <2>2, OneRequestMoves
  <2>4. AskedNow' = AskedNow
    BY <2>2, <2>3 DEF AskedNow
  <2>5. AskedFor(c).kind = req[c].kind
    BY <1>4 DEF AskedFor
  <2> QED BY <1>1, <1>4, <2>2, <2>3, <2>4, <2>5 DEF Ring!Grant, Ring!Leaves, AskedNow, LeaveNow
\* A request ends.
<1>5. ASSUME req[c].at # "idle", Finish(c), UNCHANGED <<left, locked, session>>
      PROVE  /\ AskedFor(c) # Ring!Nothing
             /\ AskedNow' = [AskedNow EXCEPT ![c] = Ring!Nothing]
             /\ LeaveNow' = [LeaveNow EXCEPT ![c] = "none"]
  <2>1. req' = [req EXCEPT ![c] = NoRequest] /\ NoRequest \in Request
    BY <1>5, NewRequests DEF Finish
  <2>2. req'[c] = NoRequest
    BY <2>1, OneRequestMoves
  <2>3. AskedFor(c)' = Ring!Nothing /\ LeaveOf(c)' = "none"
    BY <2>2 DEF AskedFor, LeaveOf, Ring!Nothing, NoRequest, Approved
  <2> QED BY <1>1, <1>5, <2>1, <2>3, OneRequestMoves
\* Where a request goes on without being granted.
<1>6. ASSUME req[c].at \in {"sent", "asked", "session"}, NEW at \in {"asked", "session", "dialog"},
             Goto(c, at), UNCHANGED <<left, locked, held, sealed, session>>
      PROVE  UNCHANGED Ring!vars
  <2>1. req' = [req EXCEPT ![c] = to(at)]
    BY <1>3, <1>6
  <2>2. to(at) \in Request /\ AskedFor(c)' = AskedFor(c) /\ LeaveOf(c)' = LeaveOf(c)
    BY <1>2, <1>6, <2>1 DEF RequestPc, LeaveOf
  <2> QED BY <1>6, <2>1, <2>2, StepHidden
<1>7. CASE CheckLocked(c)
  <2>1. CASE ~locked
    <3>1. LeaveOf(c) = "open"
      BY <1>0, <1>7, <2>1 DEF CheckLocked, RequestInv, LeaveOf, Approved
    <3> QED BY <1>4, <1>7, <2>1, <3>1 DEF CheckLocked
  <2>2. CASE locked
    BY <1>6, <1>7, <2>2 DEF CheckLocked
  <2> QED BY <2>1, <2>2
<1>8. CASE CheckSession(c)
  <2>1. CASE approved
    BY <1>0, <1>4, <1>8, <2>1 DEF CheckSession, RequestInv
  <2>2. CASE ~approved
    BY <1>6, <1>8, <2>2 DEF CheckSession
  <2> QED BY <2>1, <2>2
<1>9. CASE ConfirmReturns(c)
  <2>1. CASE Approved(c)
    BY <1>4, <1>9, <2>1 DEF ConfirmReturns, LeaveOf
  <2>2. CASE ~Approved(c)
    <3>1. Finish(c) /\ locked /\ LeaveOf(c) \in {"none", "open"}
          /\ UNCHANGED <<left, locked, session, held, sealed>>
      BY <1>0, <1>9, <2>2 DEF ConfirmReturns, Refuse, LeaveOf
    <3>2. req[c].at # "idle"
      BY <1>9 DEF ConfirmReturns
    <3> QED BY <1>5, <3>1, <3>2 DEF Ring!Refuse, Ring!Ends, Ring!Leaves, AskedNow, LeaveNow
  <2> QED BY <2>1, <2>2
<1>11. CASE ReadRequest(c)
  <2>1. CASE sealed = (req[c].kind = "Unlock")
    BY <1>6, <1>11, <2>1 DEF ReadRequest
  <2>2. CASE sealed # (req[c].kind = "Unlock")
    <3>1. req[c].at = "sent" /\ Finish(c) /\ UNCHANGED <<left, locked, session, held, sealed>>
      BY <1>11, <2>2 DEF ReadRequest, Refuse
    <3>2. LeaveOf(c) \in {"none", "open"} /\ AskedFor(c).kind = req[c].kind
      BY <1>0, <3>1 DEF LeaveOf, Approved, AskedFor
    <3> QED BY <1>5, <2>2, <3>1, <3>2 DEF Ring!Refuse, Ring!Ends, Ring!Leaves, AskedNow, LeaveNow
  <2> QED BY <2>1, <2>2
<1>10. CASE Perform(c)
  <2>1. req[c].at = "granted" /\ Finish(c) /\ UNCHANGED <<left, locked, session>>
    BY <1>0, <1>10 DEF Perform
  <2>2. LeaveOf(c) = "granted" /\ AskedFor(c) = [kind |-> req[c].kind, key |-> req[c].key]
    BY <2>1 DEF LeaveOf, AskedFor
  <2>3. held' = Ring!After(AskedFor(c), held)
    <3>1. held' = (held \ Taken(c)) \cup Added(c)
      BY <1>10 DEF Perform
    <3>2. req[c].kind \in Kinds
      BY <1>0 DEF Request
    <3> QED BY <2>2, <3>1, <3>2 DEF Ring!After, Taken, Added, Kinds
  <2>4. sealed' \in Ring!SealedAfter(AskedFor(c), sealed)
    <3>1. AskedFor(c).kind = req[c].kind
      BY <2>2
    <3>2. sealed' \in Seals(c) /\ req[c].kind \in Kinds
      BY <1>0, <1>10 DEF Perform, Request
    <3> QED BY <3>1, <3>2 DEF Seals, Ring!SealedAfter, Kinds
  <2> QED BY <1>5, <2>1, <2>2, <2>3, <2>4 DEF Ring!Serve, Ring!Ends, Ring!Leaves, AskedNow, LeaveNow
<1> QED BY <1>7, <1>8, <1>9, <1>10, <1>11 DEF AgentStep

LEMMA AnswerConsents ==
  ASSUME RingInv, NEW c \in Clients, UserAnswers(c)
  PROVE  Ring!Consent(c) \/ UNCHANGED Ring!vars
<1> USE DEF RingInv, stateVars
<1>0. /\ c \in Conns /\ req[c] \in Request /\ req[c].at = "dialog"
      /\ locked /\ req[c].reply = "Declined" /\ UNCHANGED <<locked, left, held, sealed>>
  BY DEF UserAnswers, TypeOK, OwnInv, ReplyInv, Conns
<1>1. PICK r \in Offered(req[c].kind) \cup {"unparsable"} :
        /\ req' = [req EXCEPT ![c].at = "answered", ![c].reply = r]
        /\ session' = (session \/ r = "ApprovedForSession")
  BY DEF UserAnswers
<1> DEFINE new == [req[c] EXCEPT !.at = "answered", !.reply = r]
<1>2. req' = [req EXCEPT ![c] = new]
  BY <1>0, <1>1 DEF TypeOK
<1>3. /\ new \in Request
      /\ new.at = "answered" /\ new.reply = r
      /\ new.kind = req[c].kind /\ new.key = req[c].key /\ new.early = req[c].early
  BY <1>0, <1>1 DEF Request, RequestPc, Offered, Responses
<1> HIDE DEF new
<1>4. /\ req'[c] = new
      /\ AskedNow' = [AskedNow EXCEPT ![c] = AskedFor(c)']
      /\ LeaveNow' = [LeaveNow EXCEPT ![c] = LeaveOf(c)']
  BY <1>2, <1>3, OneRequestMoves
<1>5. AskedFor(c)' = AskedFor(c) /\ AskedFor(c).kind = req[c].kind
  BY <1>0, <1>3, <1>4 DEF AskedFor
<1>6. LeaveOf(c) = IF req[c].early THEN "open" ELSE "none"
  BY <1>0 DEF LeaveOf, Approved
<1>7. CASE r \in {"Approved", "ApprovedForSession"}
  <2>1. LeaveOf(c)' = "user"
    BY <1>3, <1>4, <1>7 DEF LeaveOf, Approved
  <2>2. session' = session \/ (req[c].kind = "RequestKeys" /\ session' = TRUE)
    <3>1. CASE r = "ApprovedForSession"
      BY <1>1, <3>1 DEF Offered
    <3>2. CASE r # "ApprovedForSession"
      BY <1>1, <3>2 DEF TypeOK
    <3> QED BY <3>1, <3>2
  <2>3. AskedFor(c) # Ring!Nothing
    BY <1>0, AskedIsSomething
  <2>4. AskedNow' = AskedNow
    BY <1>4, <1>5 DEF AskedNow
  <2> QED BY <1>0, <1>4, <1>5, <1>6, <2>1, <2>2, <2>3, <2>4 DEF Ring!Consent, Ring!Leaves, AskedNow, LeaveNow
<1>8. CASE r \notin {"Approved", "ApprovedForSession"}
  <2>1. LeaveOf(c)' = LeaveOf(c)
    BY <1>3, <1>4, <1>6, <1>8 DEF LeaveOf, Approved
  <2>2. session' = session
    BY <1>1, <1>8 DEF TypeOK
  <2> QED BY <1>0, <1>2, <1>3, <1>5, <2>1, <2>2, StepHidden
<1> QED BY <1>7, <1>8

LEMMA PanicRefuses ==
  ASSUME RingInv, NEW c \in Clients, ConfirmPanics(c)
  PROVE  Ring!Refuse(c)
<1> USE DEF RingInv, stateVars
<1>1. /\ c \in Conns /\ req[c].at = "dialog" /\ Finish(c)
      /\ locked /\ req[c].reply = "Declined" /\ UNCHANGED <<locked, left, held, sealed, session>>
  BY DEF ConfirmPanics, Refuse, OwnInv, ReplyInv, Conns
<1>2. LeaveOf(c) \in {"none", "open"} /\ AskedFor(c) # Ring!Nothing
  BY <1>1, AskedIsSomething DEF LeaveOf, Approved
<1>3. req' = [req EXCEPT ![c] = NoRequest] /\ NoRequest \in Request
  BY <1>1, NewRequests DEF Finish
<1>4. AskedFor(c)' = Ring!Nothing /\ LeaveOf(c)' = "none"
  <2>1. req'[c] = NoRequest
    BY <1>3, OneRequestMoves
  <2> QED BY <2>1 DEF AskedFor, LeaveOf, Ring!Nothing, NoRequest, Approved
<1>5. /\ AskedNow' = [AskedNow EXCEPT ![c] = Ring!Nothing]
      /\ LeaveNow' = [LeaveNow EXCEPT ![c] = "none"]
  BY <1>3, <1>4, OneRequestMoves
<1> QED BY <1>1, <1>2, <1>5 DEF Ring!Refuse, Ring!Ends, Ring!Leaves, AskedNow, LeaveNow

\* The daemon's own connection only gives the keys.
LEMMA OwnGives ==
  ASSUME RingInv, AgentStep(Own)
  PROVE  (\E k \in Attached : Ring!Give(k)) \/ UNCHANGED Ring!vars
<1> USE DEF RingInv, stateVars
<1>1. /\ Own \in Conns /\ req[Own].at # "idle"
      /\ ~locked /\ req[Own].kind = "AddKeys" /\ req[Own].key \in left /\ left \subseteq Attached
      /\ req[Own].at \notin {"session", "answered"}
  BY DEF AgentStep, ReadRequest, CheckLocked, CheckSession, ConfirmReturns, Perform, OwnInv, TypeOK,
     Conns
<1>2. CASE CheckLocked(Own)
  <2>1. req' = [req EXCEPT ![Own] = [req[Own] EXCEPT !.at = "granted"]]
    BY <1>1, <1>2 DEF CheckLocked, Goto, TypeOK
  <2>2. AskedNow' = AskedNow /\ LeaveNow' = LeaveNow
    BY <2>1, OwnRequestHidden
  <2> QED BY <1>2, <2>2 DEF CheckLocked, Ring!vars, AskedNow, LeaveNow
<1>3. CASE Perform(Own)
  <2>1. AskedNow' = AskedNow /\ LeaveNow' = LeaveNow
    BY <1>3, OwnRequestHidden DEF Perform, Finish
  <2>2. held' = held \cup {req[Own].key} /\ left' = left \ {req[Own].key} /\ sealed' = sealed
    BY <1>1, <1>3 DEF Perform, Taken, Added, Seals
  <2> QED BY <1>1, <1>3, <2>1, <2>2 DEF Perform, Ring!Give, AskedNow, LeaveNow
<1>4. CASE ReadRequest(Own)
  <2>1. PICK new : req' = [req EXCEPT ![Own] = new]
    <3>1. CASE Goto(Own, "asked")
      <4>1. req' = [req EXCEPT ![Own] = [req[Own] EXCEPT !.at = "asked"]]
        BY <1>1, <3>1 DEF Goto, TypeOK
      <4> QED BY <4>1
    <3>2. CASE Finish(Own)
      BY <3>2 DEF Finish
    <3> QED BY <1>4, <3>1, <3>2 DEF ReadRequest, Refuse
  <2>2. AskedNow' = AskedNow /\ LeaveNow' = LeaveNow
    BY <2>1, OwnRequestHidden
  <2> QED BY <1>4, <2>2 DEF ReadRequest, Ring!vars, AskedNow, LeaveNow
<1> QED BY <1>1, <1>2, <1>3, <1>4 DEF AgentStep, CheckSession, ConfirmReturns

\* agent.rs and start_ssh_server, the agent is a Keyring: each request is served
\* as asked, once the user has consented to it, or not at all, whatever other
\* connections, dialogs and the registration of the keys do meanwhile.
THEOREM AgentIsKeyring == Spec => ConsentsAreKept
<1>1. Init => Ring!Init
  BY DEF Init, Ring!Init, AskedFor, LeaveOf, NoRequest, Approved, Ring!Nothing, Conns
<1>2. RingInv /\ [Next]_vars => [Ring!Next]_(Ring!vars)
  <2> SUFFICES ASSUME RingInv, [Next]_vars
               PROVE  Ring!Next \/ UNCHANGED Ring!vars
    BY DEF Ring!vars
  <2>1. CASE UNCHANGED vars
    BY <2>1 DEF vars, stateVars, Ring!vars, AskedFor, LeaveOf, Approved
  <2>2. ASSUME NEW c \in Clients, Ask(c) PROVE Ring!Next
    BY <2>2, AskAsks DEF Ring!Next
  <2>3. CASE LockAgent
    <3>1. AskedNow' = AskedNow /\ LeaveNow' = LeaveNow
      BY <2>3 DEF LockAgent, AskedNow, LeaveNow, AskedFor, LeaveOf, Approved
    <3> QED BY <2>3, <3>1 DEF LockAgent, Ring!Next, Ring!Lock, AskedNow, LeaveNow
  <2>4. ASSUME NEW k \in Attached, Register(k) PROVE UNCHANGED Ring!vars
    <3>1. AskedNow' = AskedNow /\ LeaveNow' = LeaveNow
      BY <2>4, OwnRequestHidden DEF Register, RingInv
    <3> QED BY <2>4, <3>1 DEF Register, stateVars, Ring!vars, AskedNow, LeaveNow
  <2>5. ASSUME NEW c \in Clients, AgentStep(c) PROVE Ring!Next \/ UNCHANGED Ring!vars
    BY <2>5, TaskServes DEF Ring!Next
  <2>6. CASE AgentStep(Own)
    BY <2>6, OwnGives DEF Ring!Next
  <2>7. ASSUME NEW c \in Clients, UserAnswers(c) \/ ConfirmPanics(c)
        PROVE  Ring!Next \/ UNCHANGED Ring!vars
    BY <2>7, AnswerConsents, PanicRefuses DEF Ring!Next
  <2>8. ~UserAnswers(Own) /\ ~ConfirmPanics(Own)
    BY DEF RingInv, OwnInv, UserAnswers, ConfirmPanics, Conns
  <2> QED BY <2>1, <2>2, <2>3, <2>4, <2>5, <2>6, <2>7, <2>8 DEF Next, MainStep, Conns
<1> QED BY <1>1, <1>2, TypeCorrect, ConsentInvariant, OwnInvariant, ReplyInvariant, PTL
        DEF Spec, RingInv, ConsentsAreKept, Ring!Spec
=============================================================================
