-------------------------- MODULE LitterboxLiveness --------------------------
(***************************************************************************)
(* What must happen in Litterbox, for any number of sessions.  Whether an  *)
(* action is enabled is beyond the provers, so each theorem assumes of a   *)
(* fair behaviour that no process is ever stuck in it, []NeverStuck, which *)
(* is an invariant that TLC checks.  The rest, which step comes next, what *)
(* it leads to and what the others can do about it, is proved.             *)
(***************************************************************************)
EXTENDS LitterboxProofs

\* An enter process changes no other's place, and only its own update.
LEMMA EnterLeavesOthers ==
  ASSUME TypeOK, NEW t \in Sessions, EnterStep(t) \/ ShellEnds(t) \/ KillEnter(t)
  PROVE  /\ \A q \in Procs \ {<<"enter", t>>} : SameIO(q)
         /\ \A s \in Sessions \ {t} : pc'[s] = pc[s] /\ dpc'[s] = dpc[s]
         /\ dpc'[t] # dpc[t] => pc[t] \in {"spawn", "handoff"}
<1> DEFINE p == <<"enter", t>>
<1>1. p \in Procs /\ file \cup {t} \in SUBSET Sessions /\ file \ {t} \in SUBSET Sessions
  BY DEF Procs, TypeOK, FileTypeOK
<1>2. \/ UNCHANGED fileVars
      \/ JustRead(p)
      \/ \E new \in SUBSET Sessions : ReadFor(p, new)
      \/ OpenFile(p)
      \/ WriteFile(p)
      \/ AbortIO(p)
      \/ MountFile
  BY <1>1 DEF EnterStep, EnterCheckDaemon, EnterStartDaemon, EnterHandOver, EnterAppend,
     EnterFileOpen, EnterFileWrite, EnterCheckContainer, EnterStart, PodmanStart, EnterExec,
     ShellEnds, EnterLeave, KillEnter
<1>3. \A q \in Procs \ {p} : SameIO(q)
  BY <1>1, <1>2, OthersIO
<1>4. /\ \A s \in Sessions \ {t} : pc'[s] = pc[s] /\ dpc'[s] = dpc[s]
      /\ dpc'[t] # dpc[t] => pc[t] \in {"spawn", "handoff"}
  BY DEF TypeOK, HostTypeOK, EnterGoto, DaemonGoto, EnterStep, EnterCheckDaemon, EnterStartDaemon,
     EnterHandOver, EnterAppend, EnterFileOpen, EnterFileWrite, EnterCheckContainer, EnterStart,
     EnterExec, ShellEnds, EnterLeave, KillEnter
<1> QED BY <1>3, <1>4

\* Nor does a daemon.
LEMMA DaemonLeavesOthers ==
  ASSUME TypeOK, NEW d \in Sessions, DaemonStep(d) \/ DaemonForeign(d) \/ KillDaemon(d)
  PROVE  /\ \A q \in Procs \ {<<"daemon", d>>} : SameIO(q)
         /\ UNCHANGED pc
         /\ \A e \in Sessions \ {d} : dpc'[e] = dpc[e]
<1> DEFINE p == <<"daemon", d>>
<1>1. p \in Procs /\ {s \in file : EnterRunning(s)} \in SUBSET Sessions
  BY DEF Procs, TypeOK, FileTypeOK
<1>2. \/ UNCHANGED fileVars
      \/ JustRead(p)
      \/ \E new \in SUBSET Sessions : ReadFor(p, new)
      \/ OpenFile(p)
      \/ WriteFile(p)
      \/ UnlinkFile(p)
      \/ AbortIO(p)
  BY <1>1 DEF DaemonStep, DaemonReadNothing, DaemonCheck, DaemonRemoveStale, DaemonWriteLock,
     DaemonNewSocket, DaemonBind, DaemonConnect, DaemonRegister, DaemonClean, DaemonCleanOpen,
     DaemonCleanWrite, DaemonPoll, DaemonRemoveSession, DaemonRemoveLock, DaemonExit,
     DaemonForeign, DaemonFails, KillDaemon
<1>3. \A q \in Procs \ {p} : SameIO(q)
  BY <1>1, <1>2, OthersIO
<1>4. UNCHANGED pc /\ \A e \in Sessions \ {d} : dpc'[e] = dpc[e]
  BY DEF TypeOK, HostTypeOK, DaemonGoto, DaemonStep, DaemonReadNothing, DaemonCheck,
     DaemonRemoveStale, DaemonWriteLock, DaemonNewSocket, DaemonBind, DaemonConnect,
     DaemonRegister, DaemonClean, DaemonCleanOpen, DaemonCleanWrite, DaemonPoll,
     DaemonRemoveSession, DaemonRemoveLock, DaemonExit, DaemonForeign, DaemonFails, KillDaemon
<1> QED BY <1>3, <1>4

\* The container ends shells, and otherwise leaves the processes alone.
LEMMA ContainerLeavesOthers ==
  ASSUME TypeOK, WaitStep \/ (BackgroundEnds /\ UNCHANGED <<pc, dpc, daemonVars>>)
  PROVE  /\ \A q \in Procs : SameIO(q)
         /\ UNCHANGED dpc
         /\ \A s \in Sessions : pc[s] = "shell" \/ pc'[s] = pc[s]
<1>1. UNCHANGED io \/ Redirect("orphan", "none")
  BY DEF WaitStep, WaitAddWatch, WaitRead, WaitEvent, ContainerStops, WaitExit, UnmountFile,
     BackgroundEnds, fileVars
<1>2. \A q \in Procs : SameIO(q)
  BY <1>1 DEF SameIO, Redirect, TypeOK, FileTypeOK, IOState
<1>3. /\ UNCHANGED dpc
      /\ \A s \in Sessions : pc[s] = "shell" \/ pc'[s] = pc[s]
  BY DEF TypeOK, HostTypeOK, WaitStep, ContainerStops
<1> QED BY <1>2, <1>3

-----------------------------------------------------------------------------
(***************************************************************************)
(* Entering.  From the prompt to the shell an enter process goes through   *)
(* these places in this order; one that is killed is at the end.           *)
(***************************************************************************)

At(s, place)      == pc[s] = place
Update(s, place)  == pc[s] = place /\ io[<<"enter", s>>].st = "read"
Opened(s, place)  == pc[s] = place /\ io[<<"enter", s>>].st = "open"
Reached(s)        == pc[s] \in {"shell", "done", "dead"}

\* Nobody else moves an enter process that has handed the password over, except
\* to its end or out of its shell.
LEMMA EnterMovesItself ==
  ASSUME TypeOK, [Next]_vars, NEW s \in Sessions, ~EnterStep(s), ~Reached(s), pc[s] # "handoff"
  PROVE  Reached(s)' \/ (pc'[s] = pc[s] /\ SameIO(<<"enter", s>>))
<1> DEFINE p == <<"enter", s>>
<1>0. p \in Procs /\ \A t \in Sessions : p # <<"daemon", t>> /\ (t # s => p # <<"enter", t>>)
  BY DEF Procs
<1>1. CASE UNCHANGED vars
  BY <1>1 DEF vars, fileVars, SameIO
<1>2. CASE ShellEnds(s) \/ KillEnter(s)
  BY <1>2 DEF ShellEnds, KillEnter, EnterGoto, Reached, TypeOK, HostTypeOK
<1>3. ASSUME NEW t \in Sessions \ {s}, EnterStep(t) \/ ShellEnds(t) \/ KillEnter(t)
      PROVE  pc'[s] = pc[s] /\ SameIO(p)
  BY <1>0, <1>3, EnterLeavesOthers
<1>4. ASSUME NEW d \in Sessions, DaemonStep(d) \/ DaemonForeign(d) \/ KillDaemon(d)
      PROVE  pc'[s] = pc[s] /\ SameIO(p)
  BY <1>0, <1>4, DaemonLeavesOthers
<1>5. CASE WaitStep \/ (BackgroundEnds /\ UNCHANGED <<pc, dpc, daemonVars>>)
  BY <1>0, <1>5, ContainerLeavesOthers DEF Reached
<1> QED BY <1>1, <1>2, <1>3, <1>4, <1>5 DEF Next

\* An enter process that is past the password prompt reaches its shell or
\* ends, in every fair behaviour in which no process is ever stuck.
THEOREM EntersProceed == FairSpec /\ []NeverStuck => EnterProceeds
<1>1. ASSUME NEW s \in Sessions
      PROVE  FairSpec /\ []NeverStuck => Proceeds(s)
  <2> USE DEF At, Update, Opened, Reached
  <2>1. FairSpec => Spec /\ EnterScheduled(s)
    BY DEF FairSpec
  <2>2. TypeOK /\ InStep /\ EnterStep(s) =>
          /\ At(s, "append") => At(s, "check")' \/ Update(s, "appending")'
          /\ Update(s, "appending") => Opened(s, "appending")'
          /\ Opened(s, "appending") => At(s, "check")'
          /\ At(s, "check") => At(s, "start")' \/ At(s, "exec")' \/ Reached(s)'
          /\ At(s, "start") => At(s, "exec")' \/ Reached(s)'
          /\ At(s, "exec") => At(s, "leave")' \/ Reached(s)'
          /\ At(s, "leave") => Update(s, "leaving")'
          /\ Update(s, "leaving") => Opened(s, "leaving")'
          /\ Opened(s, "leaving") => Reached(s)'
    <3> SUFFICES ASSUME TypeOK, InStep, EnterStep(s)
                 PROVE  /\ At(s, "append") => At(s, "check")' \/ Update(s, "appending")'
                        /\ Update(s, "appending") => Opened(s, "appending")'
                        /\ Opened(s, "appending") => At(s, "check")'
                        /\ At(s, "check") => At(s, "start")' \/ At(s, "exec")' \/ Reached(s)'
                        /\ At(s, "start") => At(s, "exec")' \/ Reached(s)'
                        /\ At(s, "exec") => At(s, "leave")' \/ Reached(s)'
                        /\ At(s, "leave") => Update(s, "leaving")'
                        /\ Update(s, "leaving") => Opened(s, "leaving")'
                        /\ Opened(s, "leaving") => Reached(s)'
      OBVIOUS
    <3> USE DEF TypeOK, HostTypeOK, EnterGoto
    <3>0. <<"enter", s>> \in Procs
      BY DEF Procs
    <3>1. CASE \/ EnterCheckDaemon(s) \/ EnterStartDaemon(s) \/ EnterHandOver(s)
               \/ EnterCheckContainer(s) \/ EnterExec(s)
      BY <3>1 DEF EnterCheckDaemon, EnterStartDaemon, EnterHandOver, EnterCheckContainer,
         EnterExec
    <3>2. CASE EnterAppend(s)
      BY <3>0, <3>2 DEF EnterAppend, ReadFor, FileTypeOK
    <3>3. CASE EnterFileOpen(s)
      BY <3>0, <3>3 DEF EnterFileOpen, OpenFile, FileTypeOK, IOState
    <3>4. CASE EnterFileWrite(s)
      BY <3>0, <3>4 DEF EnterFileWrite, WriteFile
    <3>5. CASE EnterStart(s)
      BY <3>5 DEF EnterStart
    <3>6. CASE EnterLeave(s)
      BY <3>0, <3>6 DEF EnterLeave, ReadFor, FileTypeOK
    <3> QED BY <3>1, <3>2, <3>3, <3>4, <3>5, <3>6 DEF EnterStep
  <2>3. ASSUME NEW place \in {"append", "check", "start", "exec", "leave"}
        PROVE  TypeOK /\ [Next]_vars /\ At(s, place) => At(s, place)' \/ Reached(s)' \/ EnterStep(s)
    BY EnterMovesItself
  <2>4. ASSUME NEW place \in {"appending", "leaving"}
        PROVE  TypeOK /\ [Next]_vars =>
                 /\ Update(s, place) => Update(s, place)' \/ Reached(s)' \/ EnterStep(s)
                 /\ Opened(s, place) => Opened(s, place)' \/ Reached(s)' \/ EnterStep(s)
    BY EnterMovesItself DEF SameIO
  <2>5. TypeOK /\ InStep /\ [Next]_vars =>
          /\ At(s, "append") => At(s, "append")' \/ At(s, "check")' \/ Update(s, "appending")' \/ Reached(s)'
          /\ Update(s, "appending") => Update(s, "appending")' \/ Opened(s, "appending")' \/ Reached(s)'
          /\ Opened(s, "appending") => Opened(s, "appending")' \/ At(s, "check")' \/ Reached(s)'
          /\ At(s, "check") => At(s, "check")' \/ At(s, "start")' \/ At(s, "exec")' \/ Reached(s)'
          /\ At(s, "start") => At(s, "start")' \/ At(s, "exec")' \/ Reached(s)'
          /\ At(s, "exec") => At(s, "exec")' \/ At(s, "leave")' \/ Reached(s)'
          /\ At(s, "leave") => At(s, "leave")' \/ Update(s, "leaving")' \/ Reached(s)'
          /\ Update(s, "leaving") => Update(s, "leaving")' \/ Opened(s, "leaving")' \/ Reached(s)'
          /\ Opened(s, "leaving") => Opened(s, "leaving")' \/ Reached(s)'
    <3> HIDE DEF At, Update, Opened, Reached
    <3> QED BY <2>2, <2>3, <2>4
  <2>6. TypeOK /\ NeverStuck =>
          /\ At(s, "append") \/ At(s, "check") \/ At(s, "start") \/ At(s, "exec") \/ At(s, "leave")
               => EnterCanRun(s)
          /\ Update(s, "appending") \/ Opened(s, "appending") => EnterCanRun(s)
          /\ Update(s, "leaving") \/ Opened(s, "leaving") => EnterCanRun(s)
    BY DEF NeverStuck, EnterRunning
  <2> HIDE DEF At, Update, Opened, Reached
  <2>7. Spec => [](TypeOK /\ InStep) /\ [][Next]_vars
    BY ListInvariant, PTL DEF Spec, ListInv
  <2> DEFINE Assumed == /\ [](TypeOK /\ InStep) /\ [][Next]_vars
                        /\ []NeverStuck /\ EnterScheduled(s)
  <2>8. Assumed => /\ Opened(s, "leaving") ~> Reached(s)
                   /\ Update(s, "leaving") ~> Opened(s, "leaving") \/ Reached(s)
                   /\ At(s, "leave") ~> Update(s, "leaving") \/ Reached(s)
    BY <2>2, <2>5, <2>6, PTL DEF EnterScheduled, EnterCanRun
  <2>9. Assumed => /\ At(s, "exec") ~> At(s, "leave") \/ Reached(s)
                   /\ At(s, "start") ~> At(s, "exec") \/ Reached(s)
                   /\ At(s, "check") ~> At(s, "start") \/ At(s, "exec") \/ Reached(s)
    BY <2>2, <2>5, <2>6, PTL DEF EnterScheduled, EnterCanRun
  <2>10. Assumed => /\ Opened(s, "appending") ~> At(s, "check") \/ Reached(s)
                    /\ Update(s, "appending") ~> Opened(s, "appending") \/ Reached(s)
                    /\ At(s, "append") ~> At(s, "check") \/ Update(s, "appending") \/ Reached(s)
    BY <2>2, <2>5, <2>6, PTL DEF EnterScheduled, EnterCanRun
  <2>11. FairSpec /\ []NeverStuck => (At(s, "append") ~> Reached(s))
    BY <2>1, <2>7, <2>8, <2>9, <2>10, PTL
  <2>12. Proceeds(s) <=> (At(s, "append") ~> Reached(s))
    BY DEF Proceeds, At, Reached
  <2> QED BY <2>11, <2>12
<1> QED BY <1>1 DEF EnterProceeds

-----------------------------------------------------------------------------
(***************************************************************************)
(* Exiting.  A daemon whose container has stopped, while nobody enters,    *)
(* has this many steps to go at most.                                      *)
(***************************************************************************)

Togo(d) ==
  LET st == io[<<"daemon", d>>].st
  IN CASE dpc[d] = "stdin"     -> 15
       [] dpc[d] = "check"     -> 14
       [] dpc[d] = "stale"     -> 13
       [] dpc[d] = "write"     -> 12
       [] dpc[d] = "sock"      -> 11
       [] dpc[d] = "bind"      -> 10
       [] dpc[d] = "connect"   -> 9
       [] dpc[d] = "register"  -> 8
       [] dpc[d] = "foreign"   -> 8
       [] dpc[d] = "sleep"     -> 7
       [] dpc[d] = "cleaning"  -> IF st = "read" THEN 6 ELSE 5
       [] dpc[d] = "poll"      -> 4
       [] dpc[d] = "rmsession" -> 3
       [] dpc[d] = "rmlock"    -> 2
       [] dpc[d] = "drop"      -> 1
       [] OTHER                -> 0

Alone        == ~Up /\ Quiet
Within(d, n) == Alone /\ Togo(d) <= n

\* As long as nobody enters, only daemons and the container do anything.
LEMMA QuietSteps ==
  ASSUME TypeOK, [Next]_vars, Quiet, Quiet'
  PROVE  \/ UNCHANGED vars
         \/ \E d \in Sessions : DaemonStep(d) \/ DaemonForeign(d) \/ KillDaemon(d)
         \/ WaitStep
         \/ BackgroundEnds /\ UNCHANGED <<pc, dpc, daemonVars>>
<1>1. ASSUME NEW s \in Sessions, EnterStep(s) \/ ShellEnds(s) \/ KillEnter(s) PROVE FALSE
  <2>1. pc[s] \in {"idle", "done", "dead", "cut"} /\ pc'[s] \in {"idle", "done", "dead", "cut"}
    BY DEF Quiet, EnterRunning
  <2> QED
    BY <1>1, <2>1 DEF EnterRunning, TypeOK, HostTypeOK, EnterGoto, EnterStep, EnterCheckDaemon,
       EnterStartDaemon, EnterHandOver, EnterAppend, EnterFileOpen, EnterFileWrite,
       EnterCheckContainer, EnterStart, EnterExec, ShellEnds, EnterLeave, KillEnter
<1> QED BY <1>1 DEF Next

\* A container that has stopped stays off.
LEMMA AloneStays ==
  ASSUME TypeOK, [Next]_vars, Alone
  PROVE  Alone' \/ ~Quiet'
<1> SUFFICES ASSUME Quiet' PROVE UNCHANGED wpc
  BY DEF Alone, Up
<1>1. ASSUME NEW d \in Sessions, DaemonStep(d) \/ DaemonForeign(d) \/ KillDaemon(d) PROVE UNCHANGED wpc
  BY <1>1 DEF DaemonStep, DaemonReadNothing, DaemonCheck, DaemonRemoveStale, DaemonWriteLock,
     DaemonNewSocket, DaemonBind, DaemonConnect, DaemonRegister, DaemonClean, DaemonCleanOpen,
     DaemonCleanWrite, DaemonPoll, DaemonRemoveSession, DaemonRemoveLock, DaemonExit,
     DaemonForeign, DaemonFails, KillDaemon, containerVars
<1>2. ~WaitStep
  BY DEF Alone, Up, WaitStep, WaitAddWatch, WaitRead, WaitEvent, ContainerStops, WaitExit
<1> QED BY <1>1, <1>2, QuietSteps DEF Alone, BackgroundEnds, vars, containerVars

\* As long as nobody enters, nobody else moves a daemon, except to its end;
\* or the user, when it registers with another's agent.
LEMMA DaemonMovesItself ==
  ASSUME TypeOK, [Next]_vars, Quiet, Quiet', NEW d \in Sessions, ~DaemonStep(d)
  PROVE  \/ DaemonRunning(d) /\ ~DaemonRunning(d)'
         \/ DaemonForeign(d)
         \/ dpc'[d] = dpc[d] /\ SameIO(<<"daemon", d>>)
<1> DEFINE p == <<"daemon", d>>
<1>0. p \in Procs /\ \A e \in Sessions \ {d} : p # <<"daemon", e>>
  BY DEF Procs
<1>1. CASE UNCHANGED vars
  BY <1>1 DEF vars, fileVars, SameIO
<1>2. CASE KillDaemon(d)
  BY <1>2 DEF KillDaemon, DaemonGoto, DaemonRunning, DaemonEnded, TypeOK, HostTypeOK
<1>3. ASSUME NEW e \in Sessions \ {d}, DaemonStep(e) \/ DaemonForeign(e) \/ KillDaemon(e)
      PROVE  dpc'[d] = dpc[d] /\ SameIO(p)
  BY <1>0, <1>3, DaemonLeavesOthers
<1>4. CASE WaitStep \/ (BackgroundEnds /\ UNCHANGED <<pc, dpc, daemonVars>>)
  BY <1>0, <1>4, ContainerLeavesOthers
<1> QED BY <1>1, <1>2, <1>3, <1>4, QuietSteps

\* A daemon has steps to go exactly as long as it runs.
LEMMA TogoBounds ==
  ASSUME TypeOK, NEW d \in Sessions
  PROVE  Togo(d) \in 0..15 /\ (Togo(d) = 0 <=> ~DaemonRunning(d))
BY DEF TypeOK, HostTypeOK, DaemonPc, Togo, DaemonRunning, DaemonEnded

\* Each step of a daemon brings it nearer to its end, when it is alone.
LEMMA DaemonGoesOn ==
  ASSUME TypeOK, InStep, NEW d \in Sessions, DaemonStep(d), Alone
  PROVE  Togo(d)' < Togo(d)
<1> USE DEF TypeOK, HostTypeOK, DaemonGoto, Togo
<1>0. <<"daemon", d>> \in Procs
  BY DEF Procs
<1>1. CASE DaemonCheck(d) \/ DaemonRemoveStale(d) \/ DaemonWriteLock(d) \/ DaemonNewSocket(d)
  BY <1>1 DEF DaemonCheck, DaemonRemoveStale, DaemonWriteLock, DaemonNewSocket
<1>2. CASE DaemonBind(d) \/ DaemonPoll(d) \/ DaemonRemoveSession(d)
  BY <1>2 DEF DaemonBind, DaemonFails, DaemonPoll, DaemonRemoveSession, Alone
<1>3. CASE DaemonRemoveLock(d) \/ DaemonExit(d)
  BY <1>3 DEF DaemonRemoveLock, DaemonExit
<1>4. CASE DaemonClean(d)
  BY <1>0, <1>4 DEF DaemonClean, ReadFor, FileTypeOK
<1>5. CASE DaemonCleanOpen(d)
  BY <1>0, <1>5 DEF DaemonCleanOpen, OpenFile, FileTypeOK, IOState
<1>6. CASE DaemonCleanWrite(d)
  BY <1>0, <1>6 DEF DaemonCleanWrite, WriteFile
<1>7. CASE DaemonReadNothing(d) \/ DaemonConnect(d) \/ DaemonRegister(d)
  BY <1>7 DEF DaemonReadNothing, DaemonConnect, DaemonRegister, DaemonFails
<1> QED BY <1>1, <1>2, <1>3, <1>4, <1>5, <1>6, <1>7 DEF DaemonStep

\* `n` steps to go become `m`.
Nears(d, n, m) == Within(d, n) ~> Within(d, m) \/ ~Quiet \/ dpc[d] = "foreign"

\* When the container has stopped and nobody enters, every daemon exits and
\* stays away, unless it waits for the user of another's agent, in every fair
\* behaviour in which no process is ever stuck.
THEOREM DaemonsAllExit == FairSpec /\ []NeverStuck => DaemonsExit
<1>1. ASSUME NEW d \in Sessions
      PROVE  FairSpec /\ []NeverStuck => Exits(d)
  <2>1. FairSpec => Spec /\ DaemonScheduled(d)
    BY DEF FairSpec
  <2>0. Togo(d) \in 0..15 /\ Togo(d)' \in 0..15
    BY DEF Togo
  <2>2. TypeOK /\ InStep /\ [Next]_vars /\ Alone =>
          \/ ~Quiet'
          \/ Alone' /\ IF DaemonStep(d) THEN Togo(d)' < Togo(d) ELSE Togo(d)' <= Togo(d)
    <3> SUFFICES ASSUME TypeOK, InStep, [Next]_vars, Alone, Quiet'
                 PROVE  Alone' /\ IF DaemonStep(d) THEN Togo(d)' < Togo(d)
                                                   ELSE Togo(d)' <= Togo(d)
      OBVIOUS
    <3>1. Alone'
      BY AloneStays
    <3>2. CASE DaemonStep(d)
      BY <3>1, <3>2, DaemonGoesOn
    <3>3. CASE ~DaemonStep(d)
      <4>1. \/ ~DaemonRunning(d)'
            \/ DaemonForeign(d)
            \/ dpc'[d] = dpc[d] /\ SameIO(<<"daemon", d>>)
        BY <3>3, DaemonMovesItself DEF Alone
      <4>2. CASE ~DaemonRunning(d)'
        BY <2>0, <3>1, <3>3, <4>2 DEF Togo, DaemonRunning, DaemonEnded
      <4>3. CASE DaemonForeign(d)
        BY <3>1, <3>3, <4>3 DEF DaemonForeign, DaemonFails, DaemonGoto, Togo, TypeOK, HostTypeOK
      <4>4. CASE dpc'[d] = dpc[d] /\ SameIO(<<"daemon", d>>)
        BY <2>0, <3>1, <3>3, <4>4 DEF Togo, SameIO
      <4> QED BY <4>1, <4>2, <4>3, <4>4
    <3> QED BY <3>2, <3>3
  <2>3. TypeOK /\ InStep /\ [Next]_vars /\ Within(d, 0) => Within(d, 0)' \/ ~Quiet'
    BY <2>0, <2>2, TogoBounds DEF Within
  <2>4. ASSUME NEW n \in 1..15, NEW m \in 0..14, n = m + 1
        PROVE  FairSpec /\ []NeverStuck => Nears(d, n, m)
    <3>1. TypeOK /\ InStep /\ [Next]_vars /\ Within(d, n) => Within(d, n)' \/ ~Quiet'
      BY <2>0, <2>2, <2>4 DEF Within
    <3>2. TypeOK /\ InStep /\ [Next]_vars /\ DaemonStep(d) /\ Within(d, n) => Within(d, m)' \/ ~Quiet'
      BY <2>0, <2>2, <2>4 DEF Within
    <3>3. TypeOK /\ NeverStuck /\ Within(d, n)
            => Within(d, m) \/ DaemonCanRun(d) \/ dpc[d] = "foreign"
      BY <2>0, <2>4, TogoBounds
         DEF Within, Alone, Quiet, EnterRunning, DaemonWaits, NeverStuck
    <3> QED
      BY <2>1, <3>1, <3>2, <3>3, ListInvariant, PTL
         DEF Nears, DaemonScheduled, DaemonCanRun, Spec, ListInv
  <2>5. FairSpec /\ []NeverStuck =>
          /\ Nears(d, 15, 14) /\ Nears(d, 14, 13) /\ Nears(d, 13, 12) /\ Nears(d, 12, 11)
          /\ Nears(d, 11, 10) /\ Nears(d, 10, 9) /\ Nears(d, 9, 8) /\ Nears(d, 8, 7)
          /\ Nears(d, 7, 6) /\ Nears(d, 6, 5) /\ Nears(d, 5, 4) /\ Nears(d, 4, 3)
          /\ Nears(d, 3, 2) /\ Nears(d, 2, 1) /\ Nears(d, 1, 0)
    BY <2>4
  <2>6. TypeOK /\ ~Up /\ Quiet => Within(d, 15)
    BY TogoBounds DEF Within, Alone
  <2>7. TypeOK /\ Within(d, 0) => ~DaemonRunning(d)
    BY TogoBounds DEF Within
  <2> QED
    BY <2>1, <2>3, <2>5, <2>6, <2>7, ListInvariant, PTL DEF Nears, Exits, Spec, ListInv
<1> QED BY <1>1 DEF DaemonsExit

-----------------------------------------------------------------------------
(***************************************************************************)
(* Stopping.  As long as nobody enters, nothing of the daemon's work is    *)
(* disturbed, and nothing else keeps the container running, the daemon d   *)
(* has this many steps to go, at most, until the lockfile lists nobody,    *)
(* and process 1 has then this many until the container stops.             *)
(***************************************************************************)

Emptying(d) ==
  LET update == io[<<"daemon", d>>]
  IN CASE dpc[d] = "cleaning" /\ update.st = "read" /\ update.buf # {}                -> 6
       [] dpc[d] = "cleaning" /\ update.st # "read" /\ (update.buf # {} \/ file # {}) -> 5
       [] dpc[d] = "poll" /\ file # {}                                                -> 4
       [] dpc[d] = "sleep" /\ file # {}                                               -> 3
       [] dpc[d] = "cleaning" /\ update.st = "read" /\ update.buf = {}                -> 2
       [] dpc[d] = "cleaning" /\ update.st # "read" /\ update.buf = {} /\ file = {}   -> 1
       [] OTHER                                                                       -> 0

Stopping == CASE wpc = "block" -> 4
              [] wpc = "watch" -> 3
              [] wpc = "read"  -> 2
              [] wpc = "reap"  -> 1
              [] OTHER         -> 0

Excused    == ~Up \/ bg \/ ~Quiet \/ ~Calm
Minding(d) == ~Excused /\ Serving(d)

\* The lockfile that the container has mounted, at the path, exists.
MountedExists == mount = "path" => exists

LEMMA MountedExistsInvariant == Spec => []MountedExists
<1>1. Init => MountedExists
  BY DEF Init, FileInit, MountedExists
<1>2. TypeOK /\ MountedExists /\ [Next]_vars => MountedExists'
  <2> SUFFICES ASSUME TypeOK, MountedExists, [Next]_vars PROVE MountedExists'
    OBVIOUS
  <2>1. CASE UNCHANGED vars
    BY <2>1 DEF vars, fileVars, MountedExists
  <2>2. CASE Next /\ ~MountFile
    BY <2>2, FileSteps DEF MountedExists, fileVars, WaitAddWatch, WaitRead, WaitEvent, JustRead,
       ReadFor, OpenFile, WriteFile, UnlinkFile, AbortIO, UnmountFile
  <2>3. CASE Next /\ MountFile /\ ~exists
    <3>1. UNCHANGED mount \/ UnmountFile \/ (\E p \in Procs : UnlinkFile(p))
      BY <2>3 DEF Next, EnterStep, EnterCheckDaemon, EnterStartDaemon, EnterHandOver, EnterAppend,
         EnterFileOpen, EnterFileWrite, EnterCheckContainer, EnterStart, PodmanStart, EnterExec,
         ShellEnds, EnterLeave, KillEnter, DaemonStep, DaemonReadNothing, DaemonCheck,
         DaemonRemoveStale, DaemonWriteLock, DaemonNewSocket, DaemonBind, DaemonConnect,
         DaemonRegister, DaemonClean, DaemonCleanOpen, DaemonCleanWrite, DaemonPoll,
         DaemonRemoveSession, DaemonRemoveLock, DaemonExit, DaemonForeign, DaemonFails,
         KillDaemon, WaitStep, WaitAddWatch, WaitRead, WaitEvent, ContainerStops, WaitExit,
         BackgroundEnds, fileVars, JustRead, ReadFor, OpenFile, WriteFile, AbortIO, Procs
    <3> QED BY <2>3, <3>1 DEF MountedExists, MountFile, UnmountFile, UnlinkFile
  <2>4. CASE Next /\ MountFile /\ exists
    BY <2>4 DEF MountedExists, MountFile
  <2> QED BY <2>1, <2>2, <2>3, <2>4
<1> QED BY <1>1, <1>2, TypeCorrect, PTL DEF Spec

StopInv == TypeOK /\ ListInv /\ LockInv /\ LeftInv /\ WakeInv /\ MountedExists

LEMMA StopInvariant ==
  ASSUME Faults \subseteq {"kill_enter"}
  PROVE  Spec => []StopInv
BY TypeCorrect, ListInvariant, LockDiscipline, LeftInvariant, WakeInvariant,
   MountedExistsInvariant, PTL DEF StopInv

\* Meanwhile nobody else touches the lockfile, nor the daemon.
LEMMA OthersLeaveLockfile ==
  ASSUME Faults \subseteq {"kill_enter"}, StopInv, [Next]_vars,
         NEW d \in Sessions, Minding(d), ~Excused', ~DaemonStep(d)
  PROVE  dpc'[d] = dpc[d] /\ SameIO(<<"daemon", d>>) /\ UNCHANGED file
<1> DEFINE p == <<"daemon", d>>
<1> USE DEF StopInv
<1>0. p \in Procs /\ \A e \in Sessions \ {d} : p # <<"daemon", e>>
  BY DEF Procs
<1>1. CASE UNCHANGED vars
  BY <1>1 DEF vars, fileVars, SameIO
<1>2. ASSUME NEW e \in Sessions, DaemonStep(e) \/ DaemonForeign(e) \/ KillDaemon(e)
      PROVE  dpc'[d] = dpc[d] /\ SameIO(p) /\ UNCHANGED file
  <2>1. (DaemonStep(e) \/ DaemonForeign(e)) /\ e # d
    BY <1>2 DEF KillDaemon, DaemonForeign, Minding, Serving
  <2>2. ~Owner(e)
    BY <2>1 DEF LockInv, Minding, Excused, Calm, Serving, Owner
  <2>3. UNCHANGED file
    BY <2>1, <2>2 DEF Owner, DaemonStep, DaemonReadNothing, DaemonCheck, DaemonRemoveStale,
       DaemonWriteLock, DaemonNewSocket, DaemonBind, DaemonConnect, DaemonRegister, DaemonClean,
       DaemonCleanOpen, DaemonCleanWrite, DaemonPoll, DaemonRemoveSession, DaemonRemoveLock,
       DaemonExit, DaemonForeign, fileVars
  <2> QED BY <1>0, <1>2, <2>1, <2>3, DaemonLeavesOthers
<1>3. CASE WaitStep \/ (BackgroundEnds /\ UNCHANGED <<pc, dpc, daemonVars>>)
  <2>1. UNCHANGED file
    BY <1>3 DEF WaitStep, WaitAddWatch, WaitRead, WaitEvent, ContainerStops, WaitExit,
       UnmountFile, BackgroundEnds, fileVars
  <2> QED BY <1>0, <1>3, <2>1, ContainerLeavesOthers
<1> QED BY <1>1, <1>2, <1>3, QuietSteps DEF Minding, Excused

\* What a step of the daemon does to what it has to go.
LEMMA DaemonEmpties ==
  ASSUME Faults \subseteq {"kill_enter"}, StopInv,
         NEW d \in Sessions, DaemonStep(d), Minding(d), ~Excused'
  PROVE  /\ Serving(d)'
         /\ Emptying(d)' < Emptying(d) \/ (Emptying(d) = 0 /\ Emptying(d)' = 0)
         /\ UNCHANGED wpc
<1> DEFINE p == <<"daemon", d>>
<1> USE DEF StopInv, TypeOK, HostTypeOK, DaemonGoto, Serving, Emptying, containerVars
<1>0. p \in Procs /\ Up /\ Quiet /\ ~disturbed /\ ~lockRaced
  BY DEF Procs, Minding, Excused, Calm
<1>1. CASE \/ DaemonReadNothing(d) \/ DaemonNewSocket(d) \/ DaemonBind(d) \/ DaemonConnect(d)
           \/ DaemonRegister(d)
  BY <1>1 DEF Minding, DaemonReadNothing, DaemonNewSocket, DaemonBind, DaemonConnect,
     DaemonRegister
<1>3. CASE DaemonClean(d)
  <2>1. {s \in file : EnterRunning(s)} = {}
    BY <1>0 DEF Quiet, FileTypeOK
  <2>2. exists
    BY <1>0 DEF MountedExists, ListInv, NobodyLost
  <2>3. CASE file = {}
    BY <1>3, <2>1, <2>2, <2>3 DEF DaemonClean, JustRead
  <2>4. CASE file # {}
    <3>1. dpc[d] = "sleep" /\ dpc'[d] = "cleaning" /\ ReadFor(p, {})
      BY <1>3, <2>1, <2>2, <2>4 DEF DaemonClean
    <3>2. io'[p].st = "read" /\ io'[p].buf = {}
      BY <1>0, <3>1 DEF ReadFor, FileTypeOK
    <3> QED BY <1>3, <2>4, <3>1, <3>2 DEF DaemonClean
  <2> QED BY <2>3, <2>4
<1>4. CASE DaemonCleanOpen(d)
  BY <1>0, <1>4 DEF DaemonCleanOpen, OpenFile, FileTypeOK, IOState
<1>5. CASE DaemonCleanWrite(d)
  <2>1. io[p].st = "open" /\ io[p].at = "path" /\ file' \in Overwrite(file, io[p].buf)
    BY <1>0, <1>5 DEF DaemonCleanWrite, WriteFile, ListInv, NobodyLost
  <2>2. file = {} /\ io[p].buf = {} => file' = {}
    BY <2>1 DEF Overwrite
  <2> QED BY <1>0, <1>5, <2>1, <2>2 DEF DaemonCleanWrite
<1>6. CASE DaemonPoll(d)
  BY <1>0, <1>6 DEF DaemonPoll, fileVars
<1>7. CASE DaemonCheck(d) \/ DaemonRemoveStale(d) \/ DaemonWriteLock(d) \/ DaemonRemoveSession(d)
             \/ DaemonRemoveLock(d) \/ DaemonExit(d)
  BY <1>7 DEF Minding, DaemonCheck, DaemonRemoveStale, DaemonWriteLock, DaemonRemoveSession,
     DaemonRemoveLock, DaemonExit
<1> QED BY <1>1, <1>3, <1>4, <1>5, <1>6, <1>7 DEF DaemonStep

\* When the lockfile lists nobody, each step of process 1 brings it nearer to
\* its end, and nobody else's does anything to it; and it has a step to make.
LEMMA ContainerGoesOn ==
  ASSUME Faults \subseteq {"kill_enter"}, StopInv,
         NEW d \in Sessions, Minding(d), Emptying(d) = 0
  PROVE  /\ WaitStep => Stopping' < Stopping
         /\ [Next]_vars /\ ~Excused' => WaitStep \/ UNCHANGED wpc
         /\ Stopping # 0 /\ (NeverStuck => WaitCanRun)
<1> USE DEF StopInv, Stopping
<1>1. /\ Up /\ ~bg /\ Quiet
      /\ MountedPids = {}
  <2>1. Up /\ ~bg /\ Quiet /\ ~disturbed /\ dpc[d] \in {"sleep", "poll"} /\ file = {}
    BY DEF Minding, Excused, Calm, Serving, Emptying
  <2>2. mount = "path"
    BY <2>1 DEF ListInv, NobodyLost
  <2> QED BY <2>1, <2>2 DEF MountedPids
<1>2. ASSUME WaitStep PROVE Stopping' < Stopping
  BY <1>1, <1>2 DEF WaitStep, WaitAddWatch, WaitRead, WaitEvent, ContainerStops, WaitExit
<1>3. ASSUME [Next]_vars, ~Excused' PROVE WaitStep \/ UNCHANGED wpc
  <2>1. ASSUME NEW e \in Sessions, DaemonStep(e) \/ DaemonForeign(e) \/ KillDaemon(e) PROVE UNCHANGED wpc
    BY <2>1 DEF DaemonStep, DaemonReadNothing, DaemonCheck, DaemonRemoveStale, DaemonWriteLock,
       DaemonNewSocket, DaemonBind, DaemonConnect, DaemonRegister, DaemonClean, DaemonCleanOpen,
       DaemonCleanWrite, DaemonPoll, DaemonRemoveSession, DaemonRemoveLock, DaemonExit,
       DaemonForeign, DaemonFails, KillDaemon, containerVars
  <2> QED
    BY <1>1, <1>3, <2>1, QuietSteps DEF Excused, BackgroundEnds, vars, containerVars
<1>4. Stopping # 0 /\ (NeverStuck => WaitCanRun)
  <2>1. wpc \in {"watch", "read", "block", "reap"} /\ (wpc = "block" => event)
    BY <1>1 DEF Up, TypeOK, ContainerTypeOK, WaitPc, WakeInv, NoLostWakeup
  <2> QED BY <1>1, <2>1 DEF NeverStuck
<1> QED BY <1>2, <1>3, <1>4

Empties(d, n) == Minding(d) /\ Emptying(d) <= n
Stops(d, n)   == Minding(d) /\ Emptying(d) = 0 /\ Stopping <= n

\* `n` steps of the daemon, or of process 1, to go become `m`.
EmptiesNears(d, n, m) == Empties(d, n) ~> Empties(d, m) \/ Excused
StopsNears(d, n, m)   == Stops(d, n) ~> Stops(d, m) \/ Excused

\* When every session has ended, and a daemon is in its loop, the container
\* stops, in every fair behaviour in which no process is ever stuck; unless
\* background processes keep it running, somebody enters, two daemons raced or
\* an update of the lockfile was disturbed.
THEOREM ContainerStopsInTheEnd ==
  ASSUME Faults \subseteq {"kill_enter"}
  PROVE  FairSpec /\ []NeverStuck => ContainerStopsAtLast
<1>1. ASSUME NEW d \in Sessions
      PROVE  FairSpec /\ []NeverStuck => StopsUnder(d)
  <2>1. FairSpec => Spec /\ DaemonScheduled(d) /\ WaitScheduled
    BY DEF FairSpec
  <2>2. Spec => []StopInv
    BY StopInvariant
  <2>3. /\ Emptying(d) \in 0..6 /\ Emptying(d)' \in 0..6
        /\ Stopping \in 0..4 /\ Stopping' \in 0..4
    BY DEF Emptying, Stopping
  <2>4. StopInv /\ [Next]_vars /\ Minding(d) =>
          \/ Excused'
          \/ /\ Minding(d)'
             /\ Emptying(d)' <= Emptying(d)
             /\ DaemonStep(d) => Emptying(d)' < Emptying(d) \/ Emptying(d)' = 0
    <3> SUFFICES ASSUME StopInv, [Next]_vars, Minding(d), ~Excused'
                 PROVE  /\ Serving(d)'
                        /\ Emptying(d)' <= Emptying(d)
                        /\ DaemonStep(d) => Emptying(d)' < Emptying(d) \/ Emptying(d)' = 0
      BY DEF Minding
    <3>1. CASE DaemonStep(d)
      BY <2>3, <3>1, DaemonEmpties
    <3>2. CASE ~DaemonStep(d)
      <4>1. dpc'[d] = dpc[d] /\ SameIO(<<"daemon", d>>) /\ UNCHANGED file
        BY <3>2, OthersLeaveLockfile
      <4>2. Serving(d)' /\ Emptying(d)' = Emptying(d)
        BY <4>1 DEF Minding, Serving, Emptying, SameIO
      <4> QED BY <2>3, <3>2, <4>2
    <3> QED BY <3>1, <3>2
  <2>5. ASSUME NEW n \in 1..6, NEW m \in 0..5, n = m + 1
        PROVE  FairSpec /\ []NeverStuck => EmptiesNears(d, n, m)
    <3>1. StopInv /\ [Next]_vars /\ Empties(d, n) => Empties(d, n)' \/ Excused'
      BY <2>3, <2>4, <2>5 DEF Empties
    <3>2. StopInv /\ [Next]_vars /\ DaemonStep(d) /\ Empties(d, n) => Empties(d, m)' \/ Excused'
      BY <2>3, <2>4, <2>5 DEF Empties
    <3>3. NeverStuck /\ Empties(d, n) => DaemonCanRun(d)
      BY DEF Empties, Minding, Serving, NeverStuck, DaemonRunning, DaemonEnded, DaemonWaits
    <3> QED
      BY <2>1, <2>2, <3>1, <3>2, <3>3, PTL DEF EmptiesNears, DaemonScheduled, DaemonCanRun, Spec
  <2>6. ASSUME NEW n \in 1..4, NEW m \in 0..3, n = m + 1
        PROVE  FairSpec /\ []NeverStuck => StopsNears(d, n, m)
    <3>1. StopInv /\ [Next]_vars /\ Stops(d, n) =>
            Excused' \/ (Stops(d, n)' /\ (WaitStep => Stops(d, m)'))
      <4> SUFFICES ASSUME StopInv, [Next]_vars, Stops(d, n), ~Excused'
                   PROVE  Stops(d, n)' /\ (WaitStep => Stops(d, m)')
        OBVIOUS
      <4>1. Minding(d)' /\ Emptying(d)' = 0
        BY <2>3, <2>4 DEF Stops
      <4>2. (WaitStep => Stopping' < Stopping) /\ (WaitStep \/ UNCHANGED wpc)
        BY ContainerGoesOn DEF Stops
      <4>3. UNCHANGED wpc => Stopping' = Stopping
        BY DEF Stopping
      <4> QED BY <2>3, <2>6, <4>1, <4>2, <4>3 DEF Stops
    <3>2. StopInv /\ NeverStuck /\ Stops(d, n) => WaitCanRun
      BY ContainerGoesOn DEF Stops
    <3> QED
      BY <2>1, <2>2, <3>1, <3>2, PTL DEF StopsNears, WaitScheduled, WaitCanRun, Spec
  <2>7. FairSpec /\ []NeverStuck =>
          /\ EmptiesNears(d, 6, 5)
          /\ EmptiesNears(d, 5, 4) /\ EmptiesNears(d, 4, 3) /\ EmptiesNears(d, 3, 2)
          /\ EmptiesNears(d, 2, 1) /\ EmptiesNears(d, 1, 0)
          /\ StopsNears(d, 4, 3) /\ StopsNears(d, 3, 2) /\ StopsNears(d, 2, 1) /\ StopsNears(d, 1, 0)
    BY <2>5, <2>6
  <2>8. /\ Up /\ Quiet /\ Serving(d) => Excused \/ Empties(d, 6)
        /\ Empties(d, 0) => Stops(d, 4)
        /\ StopInv => ~Stops(d, 0)
    BY <2>3, ContainerGoesOn DEF Empties, Stops, Minding
  <2>9. FairSpec /\ []NeverStuck => (Up /\ Quiet /\ Serving(d) ~> Excused)
    BY <2>1, <2>2, <2>7, <2>8, PTL DEF EmptiesNears, StopsNears
  <2> QED BY <2>9 DEF StopsUnder, Excused
<1> QED BY <1>1 DEF ContainerStopsAtLast
=============================================================================
