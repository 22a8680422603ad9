-------------------------- MODULE LitterboxProofs --------------------------
(***************************************************************************)
(* Theorems about Litterbox, for any finite number of sessions and any     *)
(* kinds of failure.                                                       *)
(***************************************************************************)
EXTENDS Litterbox, FiniteSetTheorems, TLAPS

\* What WriteFile leaves in a file is a set of sessions that includes what was
\* written.
LEMMA OverwriteBounds ==
  ASSUME NEW old \in SUBSET Sessions, NEW new \in SUBSET Sessions,
         NEW result \in Overwrite(old, new)
  PROVE  /\ result \in SUBSET Sessions
         /\ new \subseteq result
BY DEF Overwrite

\* The steps of a process on the session lockfile, and the mounting of it,
\* keep the file's variables in their sets.
LEMMA FileStepTypes ==
  ASSUME FileTypeOK,
         NEW p \in Procs,
         \/ UNCHANGED fileVars
         \/ JustRead(p)
         \/ \E new \in SUBSET Sessions : ReadFor(p, new)
         \/ OpenFile(p)
         \/ WriteFile(p)
         \/ UnlinkFile(p)
         \/ AbortIO(p)
         \/ MountFile
         \/ UnmountFile
  PROVE  FileTypeOK'
<1> USE DEF FileTypeOK
<1>1. CASE UNCHANGED fileVars
  BY <1>1 DEF fileVars
<1>2. CASE JustRead(p)
  BY <1>2 DEF JustRead, Overlapped
<1>3. ASSUME NEW new \in SUBSET Sessions, ReadFor(p, new) PROVE FileTypeOK'
  BY <1>3 DEF ReadFor, Overlapped, IOState, Places
<1>4. CASE OpenFile(p)
  BY <1>4 DEF OpenFile, IOState, Places
<1>5. CASE WriteFile(p)
  <2>1. io[p].buf \in SUBSET Sessions
    BY DEF IOState
  <2>2. file' \in SUBSET Sessions /\ orphan' \in SUBSET Sessions
    BY <1>5, <2>1, OverwriteBounds DEF WriteFile
  <2>3. io' \in [Procs -> IOState]
    BY <1>5 DEF WriteFile, NoIO, IOState, Places
  <2> QED BY <1>5, <2>2, <2>3 DEF WriteFile
<1>6. CASE UnlinkFile(p)
  <2>1. io' \in [Procs -> IOState]
    BY <1>6 DEF UnlinkFile, Redirect, IOState, Places
  <2> QED BY <1>6, <2>1 DEF UnlinkFile, Overlapped, Places
<1>7. CASE AbortIO(p)
  BY <1>7 DEF AbortIO, NoIO, IOState, Places
<1>8. CASE MountFile
  BY <1>8 DEF MountFile, Places
<1>9. CASE UnmountFile
  <2>1. io' \in [Procs -> IOState]
    BY <1>9 DEF UnmountFile, Redirect, IOState, Places
  <2> QED BY <1>9, <2>1 DEF UnmountFile, Places
<1> QED BY <1>1, <1>2, <1>3, <1>4, <1>5, <1>6, <1>7, <1>8, <1>9

\* Every step of Litterbox is one of these to the session lockfile.
LEMMA FileSteps ==
  ASSUME TypeOK, Next
  PROVE  \/ UNCHANGED fileVars
         \/ WaitAddWatch \/ WaitRead \/ WaitEvent
         \/ \E p \in Procs :
              \/ JustRead(p)
              \/ \E new \in SUBSET Sessions : ReadFor(p, new)
              \/ OpenFile(p)
              \/ WriteFile(p)
              \/ UnlinkFile(p)
              \/ AbortIO(p)
         \/ MountFile
         \/ UnmountFile
<1> DEFINE Goal == \/ UNCHANGED fileVars
                   \/ WaitAddWatch \/ WaitRead \/ WaitEvent
                   \/ \E p \in Procs :
                        \/ JustRead(p)
                        \/ \E new \in SUBSET Sessions : ReadFor(p, new)
                        \/ OpenFile(p)
                        \/ WriteFile(p)
                        \/ UnlinkFile(p)
                        \/ AbortIO(p)
                   \/ MountFile
                   \/ UnmountFile
<1>0. file \in SUBSET Sessions
  BY DEF TypeOK, FileTypeOK
<1>1. ASSUME NEW s \in Sessions, EnterStep(s) \/ ShellEnds(s) \/ KillEnter(s) PROVE Goal
  <2>0. <<"enter", s>> \in Procs /\ file \cup {s} \in SUBSET Sessions /\ file \ {s} \in SUBSET Sessions
    BY <1>0 DEF Procs
  <2>1. CASE EnterAppend(s)
    BY <2>0, <2>1 DEF EnterAppend
  <2>2. CASE EnterLeave(s)
    BY <2>0, <2>2 DEF EnterLeave
  <2>3. CASE EnterStart(s)
    BY <2>0, <2>3 DEF EnterStart, PodmanStart
  <2> QED BY <1>1, <2>0, <2>1, <2>2, <2>3 DEF EnterStep, EnterCheckDaemon, EnterStartDaemon,
             EnterHandOver, EnterFileOpen, EnterFileWrite, EnterCheckContainer, EnterExec,
             ShellEnds, KillEnter
<1>2. ASSUME NEW d \in Sessions, DaemonStep(d) \/ DaemonForeign(d) \/ KillDaemon(d) PROVE Goal
  <2>0. <<"daemon", d>> \in Procs /\ {s \in file : EnterRunning(s)} \in SUBSET Sessions
    BY <1>0 DEF Procs
  <2>1. CASE DaemonClean(d)
    BY <2>0, <2>1 DEF DaemonClean
  <2> QED BY <1>2, <2>0, <2>1 DEF DaemonStep, DaemonReadNothing, DaemonCheck, DaemonRemoveStale,
             DaemonWriteLock, DaemonNewSocket, DaemonBind, DaemonConnect, DaemonRegister,
             DaemonFails, DaemonCleanOpen, DaemonCleanWrite, DaemonPoll, DaemonRemoveSession,
             DaemonRemoveLock, DaemonExit, DaemonForeign, KillDaemon
<1>3. CASE WaitStep
  BY <1>3 DEF WaitStep, ContainerStops, WaitExit
<1>4. CASE BackgroundEnds
  BY <1>4 DEF BackgroundEnds
<1> QED BY <1>1, <1>2, <1>3, <1>4 DEF Next

LEMMA InitTypes == Init => TypeOK
<1> SUFFICES ASSUME Init PROVE TypeOK
  OBVIOUS
<1>1. HostTypeOK
  BY DEF Init, HostInit, HostTypeOK, EnterPc, DaemonPc
<1>2. FileTypeOK
  BY DEF Init, FileInit, FileTypeOK, Places, IOState, NoIO, Procs
<1>3. ContainerTypeOK
  BY DEF Init, ContainerInit, ContainerTypeOK, WaitPc
<1>4. DaemonTypeOK
  BY DEF Init, DaemonInit, DaemonTypeOK
<1> QED BY <1>1, <1>2, <1>3, <1>4 DEF TypeOK

LEMMA NextFileTypes == TypeOK /\ Next => FileTypeOK'
<1> SUFFICES ASSUME TypeOK, Next PROVE FileTypeOK'
  OBVIOUS
<1>0. FileTypeOK
  BY DEF TypeOK
<1>1. CASE WaitAddWatch \/ WaitRead \/ WaitEvent
  BY <1>0, <1>1 DEF WaitAddWatch, WaitRead, WaitEvent, FileTypeOK
<1>2. CASE UNCHANGED fileVars \/ MountFile \/ UnmountFile
  <2>1. CASE UNCHANGED fileVars
    BY <1>0, <2>1 DEF FileTypeOK, fileVars
  <2>2. CASE MountFile
    BY <1>0, <2>2 DEF FileTypeOK, MountFile, Places
  <2>3. CASE UnmountFile
    <3>1. io' \in [Procs -> IOState]
      BY <1>0, <2>3 DEF FileTypeOK, UnmountFile, Redirect, IOState, Places
    <3>2. mount' \in Places /\ orphan' \in SUBSET Sessions
      BY <2>3 DEF UnmountFile, Places
    <3> QED BY <1>0, <2>3, <3>1, <3>2 DEF FileTypeOK, UnmountFile
  <2> QED BY <1>2, <2>1, <2>2, <2>3
<1> QED BY <1>0, <1>1, <1>2, FileSteps, FileStepTypes

\* What the other variables can become.
LEMMA NextOtherTypes == TypeOK /\ Next => HostTypeOK' /\ ContainerTypeOK' /\ DaemonTypeOK'
<1> SUFFICES ASSUME TypeOK, Next PROVE HostTypeOK' /\ ContainerTypeOK' /\ DaemonTypeOK'
  OBVIOUS
<1> USE DEF TypeOK, HostTypeOK, ContainerTypeOK, DaemonTypeOK
<1>1. ASSUME NEW s \in Sessions, EnterStep(s) \/ ShellEnds(s) \/ KillEnter(s)
      PROVE  HostTypeOK' /\ ContainerTypeOK' /\ DaemonTypeOK'
  <2> USE DEF EnterGoto, DaemonGoto, EnterPc, DaemonPc, containerVars, daemonVars
  <2>1. CASE EnterCheckDaemon(s)
    BY <2>1 DEF EnterCheckDaemon
  <2>2. CASE EnterStartDaemon(s)
    BY <2>2 DEF EnterStartDaemon
  <2>3. CASE EnterAppend(s)
    BY <2>3 DEF EnterAppend
  <2>4. CASE EnterFileOpen(s)
    BY <2>4 DEF EnterFileOpen
  <2>5. CASE EnterFileWrite(s)
    BY <2>5 DEF EnterFileWrite
  <2>6. CASE EnterCheckContainer(s)
    BY <2>6 DEF EnterCheckContainer
  <2>7. CASE EnterStart(s)
    BY <2>7 DEF EnterStart, PodmanStart, WaitPc
  <2>8. CASE EnterExec(s)
    BY <2>8 DEF EnterExec
  <2>9. CASE EnterLeave(s)
    BY <2>9 DEF EnterLeave
  <2>10. CASE ShellEnds(s)
    BY <2>10 DEF ShellEnds
  <2>11. CASE KillEnter(s)
    BY <2>11 DEF KillEnter
  <2>12. CASE EnterHandOver(s)
    BY <2>12 DEF EnterHandOver
  <2> QED BY <1>1, <2>1, <2>2, <2>3, <2>4, <2>5, <2>6, <2>7, <2>8, <2>9, <2>10, <2>11, <2>12
          DEF EnterStep
<1>2. ASSUME NEW d \in Sessions, DaemonStep(d) \/ DaemonForeign(d) \/ KillDaemon(d)
      PROVE  HostTypeOK' /\ ContainerTypeOK' /\ DaemonTypeOK'
  <2> USE DEF DaemonGoto, DaemonFails, DropSocket, DaemonPc, containerVars, daemonVars
  <2>1. CASE DaemonCheck(d)
    BY <2>1 DEF DaemonCheck
  <2>2. CASE DaemonRemoveStale(d)
    BY <2>2 DEF DaemonRemoveStale
  <2>3. CASE DaemonWriteLock(d)
    BY <2>3 DEF DaemonWriteLock
  <2>4. CASE DaemonNewSocket(d)
    BY <2>4 DEF DaemonNewSocket
  <2>5. CASE DaemonBind(d)
    BY <2>5 DEF DaemonBind
  <2>6. CASE DaemonClean(d)
    BY <2>6 DEF DaemonClean
  <2>7. CASE DaemonCleanOpen(d)
    BY <2>7 DEF DaemonCleanOpen
  <2>8. CASE DaemonCleanWrite(d)
    BY <2>8 DEF DaemonCleanWrite
  <2>9. CASE DaemonPoll(d)
    BY <2>9 DEF DaemonPoll
  <2>10. CASE DaemonRemoveSession(d)
    BY <2>10 DEF DaemonRemoveSession
  <2>11. CASE DaemonRemoveLock(d)
    BY <2>11 DEF DaemonRemoveLock
  <2>12. CASE DaemonExit(d)
    BY <2>12 DEF DaemonExit
  <2>13. CASE KillDaemon(d)
    BY <2>13 DEF KillDaemon
  <2>14. CASE DaemonReadNothing(d)
    BY <2>14 DEF DaemonReadNothing
  <2>15. CASE DaemonConnect(d)
    BY <2>15 DEF DaemonConnect
  <2>16. CASE DaemonRegister(d)
    BY <2>16 DEF DaemonRegister
  <2>17. CASE DaemonForeign(d)
    BY <2>17 DEF DaemonForeign
  <2> QED BY <1>2, <2>1, <2>2, <2>3, <2>4, <2>5, <2>6, <2>7, <2>8, <2>9, <2>10, <2>11,
             <2>12, <2>13, <2>14, <2>15, <2>16, <2>17 DEF DaemonStep
<1>3. CASE WaitStep
  BY <1>3 DEF WaitStep, ContainerStops, WaitExit, WaitAddWatch, WaitRead, WaitEvent, WaitPc,
     EnterPc, daemonVars
<1>4. CASE BackgroundEnds /\ UNCHANGED <<pc, dpc, daemonVars>>
  BY <1>4 DEF BackgroundEnds, daemonVars
<1> QED BY <1>1, <1>2, <1>3, <1>4 DEF Next

\* Every variable stays in its set.
THEOREM TypeCorrect == Spec => []TypeOK
<1>1. TypeOK /\ [Next]_vars => TypeOK'
  <2> SUFFICES ASSUME TypeOK, [Next]_vars PROVE TypeOK'
    OBVIOUS
  <2>1. CASE Next
    BY <2>1, NextFileTypes, NextOtherTypes DEF TypeOK
  <2>2. CASE UNCHANGED vars
    BY <2>2 DEF vars, fileVars, containerVars, daemonVars, TypeOK, HostTypeOK, FileTypeOK,
       ContainerTypeOK, DaemonTypeOK
  <2> QED BY <2>1, <2>2
<1> QED BY <1>1, InitTypes, PTL DEF Spec

-----------------------------------------------------------------------------
(***************************************************************************)
(* One daemon.  The invariant is the lock discipline: a daemon past the    *)
(* lockfile is named in it, and while one is between looking and writing   *)
(* nobody else is between or past.                                         *)
(***************************************************************************)

LockInv ==
  ~lockRaced =>
    /\ \A d \in Sessions : Owner(d) => lock = d
    /\ \A d, e \in Sessions : Claiming(d) /\ d # e => ~Claiming(e) /\ ~Owner(e)

\* The steps of the enter processes and of the container leave the lockfile
\* alone and bring no daemon near it.
LEMMA OthersKeepLock ==
  ASSUME TypeOK, Next, \A d \in Sessions : ~DaemonStep(d) /\ ~DaemonForeign(d) /\ ~KillDaemon(d)
  PROVE  /\ UNCHANGED daemonVars
         /\ \A d \in Sessions : (Owner(d)' => Owner(d)) /\ (Claiming(d)' => Claiming(d))
<1> USE DEF TypeOK, HostTypeOK, Owner, Claiming
<1>1. ASSUME NEW s \in Sessions, EnterStep(s) \/ ShellEnds(s) \/ KillEnter(s)
      PROVE  /\ UNCHANGED daemonVars
             /\ \/ UNCHANGED dpc
                \/ \E to \in {"stdin", "check"} : dpc' = [dpc EXCEPT ![s] = to]
  BY <1>1 DEF EnterStep, ShellEnds, KillEnter, EnterCheckDaemon, EnterStartDaemon, EnterHandOver,
     EnterAppend, EnterFileOpen, EnterFileWrite, EnterCheckContainer, EnterStart, EnterExec,
     EnterLeave, DaemonGoto
<1>2. CASE WaitStep \/ (BackgroundEnds /\ UNCHANGED <<pc, dpc, daemonVars>>)
  BY <1>2 DEF WaitStep, ContainerStops
<1> QED BY <1>1, <1>2 DEF Next

LEMMA LockDiscipline == Spec => []LockInv
<1>1. Init => LockInv
  BY DEF Init, HostInit, LockInv, Owner, Claiming
<1>2. TypeOK /\ LockInv /\ [Next]_vars => LockInv'
  <2> SUFFICES ASSUME TypeOK, LockInv, [Next]_vars PROVE LockInv'
    OBVIOUS
  <2>1. CASE UNCHANGED vars
    BY <2>1 DEF LockInv, Owner, Claiming, vars, daemonVars
  <2>2. CASE Next /\ \A d \in Sessions : ~DaemonStep(d) /\ ~DaemonForeign(d) /\ ~KillDaemon(d)
    BY <2>2, OthersKeepLock DEF LockInv, daemonVars
  <2>3. ASSUME NEW d \in Sessions, DaemonStep(d) \/ DaemonForeign(d) \/ KillDaemon(d) PROVE LockInv'
    <3> USE DEF TypeOK, HostTypeOK, LockInv, Owner, Claiming, DaemonGoto, daemonVars
    <3>1. CASE DaemonCheck(d)
      <4>1. CASE lock # None /\ DaemonPidExists(lock)
        BY <3>1, <4>1 DEF DaemonCheck
      <4>2. CASE ~(lock # None /\ DaemonPidExists(lock))
        <5>1. lockRaced' = (lockRaced \/ \E e \in Sessions \ {d} : Claiming(e))
          BY <3>1, <4>2 DEF DaemonCheck
        <5>2. UNCHANGED lock /\ dpc' \in {[dpc EXCEPT ![d] = "write"], [dpc EXCEPT ![d] = "stale"]}
          BY <3>1, <4>2 DEF DaemonCheck
        <5>3. ~lockRaced => \A e \in Sessions : ~Owner(e)
          BY <4>2, ProcessNames DEF DaemonPidExists, DaemonRunning, DaemonEnded
        <5>4. ~lockRaced' => \A e \in Sessions \ {d} : ~Claiming(e)
          BY <5>1
        <5> QED BY <5>1, <5>2, <5>3, <5>4
      <4> QED BY <4>1, <4>2
    <3>2. CASE DaemonRemoveStale(d)
      BY <3>2 DEF DaemonRemoveStale
    <3>3. CASE DaemonWriteLock(d)
      BY <3>3 DEF DaemonWriteLock
    <3>4. CASE DaemonRemoveLock(d)
      BY <3>4 DEF DaemonRemoveLock
    <3>5. CASE KillDaemon(d)
      BY <3>5 DEF KillDaemon
    <3>6. CASE DaemonNewSocket(d) \/ DaemonBind(d) \/ DaemonConnect(d)
      BY <3>6 DEF DaemonNewSocket, DaemonBind, DaemonConnect, DaemonFails
    <3>7. CASE DaemonReadNothing(d) \/ DaemonRegister(d) \/ DaemonForeign(d)
      BY <3>7 DEF DaemonReadNothing, DaemonRegister, DaemonForeign, DaemonFails
    <3>8. CASE DaemonClean(d) \/ DaemonCleanOpen(d) \/ DaemonCleanWrite(d)
      BY <3>8 DEF DaemonClean, DaemonCleanOpen, DaemonCleanWrite
    <3>9. CASE DaemonPoll(d) \/ DaemonRemoveSession(d) \/ DaemonExit(d)
      BY <3>9 DEF DaemonPoll, DaemonFails, DaemonRemoveSession, DaemonExit
    <3> QED BY <2>3, <3>1, <3>2, <3>3, <3>4, <3>5, <3>6, <3>7, <3>8, <3>9 DEF DaemonStep
  <2> QED BY <2>1, <2>2, <2>3
<1> QED BY <1>1, <1>2, TypeCorrect, PTL DEF Spec

\* At most one daemon is past the lockfile, unless two looked for it at once.
THEOREM DaemonIsUnique == Spec => []UniqueDaemon
<1>1. LockInv => UniqueDaemon
  BY DEF LockInv, UniqueDaemon
<1> QED BY <1>1, LockDiscipline, PTL

\* Who may touch the socket's file.
LEMMA OthersKeepSocket ==
  ASSUME TypeOK, Next, \A d \in Sessions : ~DaemonStep(d) /\ ~DaemonForeign(d)
  PROVE  UNCHANGED sock
<1>1. ASSUME NEW s \in Sessions, EnterStep(s) \/ ShellEnds(s) \/ KillEnter(s) \/ KillDaemon(s)
      PROVE  UNCHANGED sock
  BY <1>1 DEF EnterStep, ShellEnds, KillEnter, KillDaemon, EnterCheckDaemon,
     EnterStartDaemon, EnterHandOver,
     EnterAppend, EnterFileOpen, EnterFileWrite, EnterCheckContainer, EnterStart, EnterExec,
     EnterLeave, PodmanStart, containerVars
<1>2. CASE WaitStep
  BY <1>2 DEF WaitStep, ContainerStops, WaitAddWatch, WaitRead, WaitEvent, WaitExit
<1>3. CASE BackgroundEnds
  BY <1>3 DEF BackgroundEnds
<1> QED BY <1>1, <1>2, <1>3 DEF Next

\* A serving daemon loses its socket only to a predecessor that is exiting,
\* unless two daemons raced: whoever else removes the file is past the
\* lockfile, and there is only one such daemon.
THEOREM SocketIsKept == Spec => SocketKept
<1> DEFINE Kept == \A d \in Sessions :
      sock = d /\ sock' # d /\ Serving(d) /\ Serving(d)' /\ ~lockRaced'
        => \E e \in Sessions : dpc[e] = "drop"
<1>1. TypeOK /\ LockInv /\ [Next]_vars => [Kept]_vars
  <2> SUFFICES ASSUME TypeOK, LockInv, Next,
                      NEW d \in Sessions, sock = d, sock' # d, Serving(d), Serving(d)', ~lockRaced',
                      \A e \in Sessions : dpc[e] # "drop"
               PROVE  FALSE
    OBVIOUS
  <2>1. PICK e \in Sessions : DaemonStep(e) \/ DaemonForeign(e)
    BY OthersKeepSocket
  <2> USE DEF TypeOK, HostTypeOK, Serving, DaemonGoto, daemonVars
  <2>2. CASE \/ DaemonNewSocket(e) \/ DaemonBind(e) \/ DaemonConnect(e) \/ DaemonRegister(e)
             \/ DaemonForeign(e) \/ DaemonPoll(e)
    <3>1. UNCHANGED lockRaced /\ Owner(e) /\ Owner(d)
      BY <2>2 DEF DaemonNewSocket, DaemonBind, DaemonConnect, DaemonRegister, DaemonForeign,
         DaemonPoll, Owner
    <3>2. e = d
      BY <3>1 DEF LockInv
    <3> QED BY <2>2, <3>2 DEF DaemonNewSocket, DaemonBind, DaemonConnect, DaemonRegister,
               DaemonForeign, DaemonPoll, DaemonFails
  <2>3. CASE DaemonExit(e)
    BY <2>3 DEF DaemonExit
  <2>4. CASE \/ DaemonReadNothing(e) \/ DaemonCheck(e) \/ DaemonRemoveStale(e)
             \/ DaemonWriteLock(e) \/ DaemonClean(e) \/ DaemonCleanOpen(e)
             \/ DaemonCleanWrite(e) \/ DaemonRemoveSession(e) \/ DaemonRemoveLock(e)
    BY <2>4 DEF DaemonReadNothing, DaemonCheck, DaemonRemoveStale, DaemonWriteLock, DaemonClean,
       DaemonCleanOpen, DaemonCleanWrite, DaemonRemoveSession, DaemonRemoveLock, containerVars
  <2> QED BY <2>1, <2>2, <2>3, <2>4 DEF DaemonStep
<1>2. [Kept]_vars => [Kept]_vars
  OBVIOUS
<1> QED BY <1>1, TypeCorrect, LockDiscipline, PTL DEF Spec, SocketKept

-----------------------------------------------------------------------------
(***************************************************************************)
(* Nothing is left.  While no two daemons raced, and if daemons neither    *)
(* are killed nor lose their keys, every lockfile and every socket at the  *)
(* path has a daemon that will remove it, or is from before the first      *)
(* daemon, or the lockfile is that of a daemon that failed: at connect,    *)
(* its socket taken by its predecessor, or without its terminal.           *)
(***************************************************************************)

Fresh(d) == dpc[d] \in {"none", "stdin", "check", "stale"}

StaleLock == lock = Ghost \/ (lock \in Sessions /\ dpc[lock] = "failed")

LeftInv ==
  ~lockRaced =>
    /\ lock \in Sessions => Owner(lock) \/ dpc[lock] = "failed"
    /\ lock = Ghost => \A d \in Sessions : Fresh(d)
    /\ sock # None => \/ \A d \in Sessions : Fresh(d) \/ dpc[d] = "write"
                      \/ \E d \in Sessions : Owner(d) \/ dpc[d] = "drop"
    /\ \A d \in Sessions : dpc[d] = "stale" => StaleLock
    /\ \A d \in Sessions : dpc[d] = "bind" => sock = None
    /\ \A d \in Sessions : pc[d] \in {"idle", "spawn"} => dpc[d] = "none"

\* An enter process spawns its daemon once.
LEMMA OthersSpawnOnce ==
  ASSUME TypeOK, LeftInv, ~lockRaced, Next,
         \A d \in Sessions : ~DaemonStep(d) /\ ~DaemonForeign(d) /\ ~KillDaemon(d)
  PROVE  /\ \A d \in Sessions : \/ dpc'[d] = dpc[d]
                                \/ dpc[d] = "none" /\ dpc'[d] = "stdin"
                                \/ dpc[d] = "stdin" /\ dpc'[d] = "check"
         /\ \A d \in Sessions : pc'[d] \in {"idle", "spawn"} => dpc'[d] = "none"
<1> USE DEF TypeOK, HostTypeOK, LeftInv
<1>1. ASSUME NEW s \in Sessions, EnterStep(s) \/ ShellEnds(s) \/ KillEnter(s)
      PROVE  \/ /\ UNCHANGED dpc
                /\ \A d \in Sessions : pc'[d] \in {"idle", "spawn"} => pc[d] \in {"idle", "spawn"}
             \/ /\ pc[s] = "spawn" /\ dpc' = [dpc EXCEPT ![s] = "stdin"]
                /\ pc' = [pc EXCEPT ![s] = "handoff"]
             \/ /\ dpc[s] = "stdin" /\ dpc' = [dpc EXCEPT ![s] = "check"]
                /\ pc' = [pc EXCEPT ![s] = "append"]
  BY <1>1 DEF EnterStep, ShellEnds, KillEnter, EnterCheckDaemon, EnterStartDaemon, EnterHandOver,
     EnterAppend, EnterFileOpen, EnterFileWrite, EnterCheckContainer, EnterStart, EnterExec,
     EnterLeave, DaemonGoto, EnterGoto
<1>2. CASE WaitStep \/ (BackgroundEnds /\ UNCHANGED <<pc, dpc, daemonVars>>)
  BY <1>2 DEF WaitStep, ContainerStops
<1> QED BY <1>1, <1>2 DEF Next

\* Daemons that are not killed hand the lock and the socket on, or fail and
\* leave their lockfile to the next one.
LEMMA LeftInvariant ==
  ASSUME Faults \subseteq {"kill_enter"}
  PROVE  Spec => []LeftInv
<1>1. Init => LeftInv
  BY ProcessNames DEF Init, HostInit, DaemonInit, ContainerInit, LeftInv, Fresh
<1>2. TypeOK /\ LockInv /\ LeftInv /\ [Next]_vars => LeftInv'
  <2> SUFFICES ASSUME TypeOK, LockInv, LeftInv, [Next]_vars, ~lockRaced' PROVE LeftInv'
    BY DEF LeftInv
  <2> USE DEF TypeOK, HostTypeOK, DaemonTypeOK, Owner, Claiming, Fresh, StaleLock, DaemonGoto,
              daemonVars
  <2>1. CASE UNCHANGED vars
    BY <2>1 DEF LeftInv, vars, containerVars
  <2>2. CASE Next /\ \A d \in Sessions : ~DaemonStep(d) /\ ~DaemonForeign(d) /\ ~KillDaemon(d)
    <3>1. UNCHANGED daemonVars /\ UNCHANGED sock
      BY <2>2, OthersKeepLock, OthersKeepSocket
    <3>2. /\ \A d \in Sessions : \/ dpc'[d] = dpc[d]
                                 \/ dpc[d] = "none" /\ dpc'[d] = "stdin"
                                 \/ dpc[d] = "stdin" /\ dpc'[d] = "check"
          /\ \A d \in Sessions : pc'[d] \in {"idle", "spawn"} => dpc'[d] = "none"
      BY <2>2, <3>1, OthersSpawnOnce
    <3> QED BY <3>1, <3>2 DEF LeftInv
  <2>3. ASSUME NEW d \in Sessions, DaemonStep(d) \/ DaemonForeign(d) \/ KillDaemon(d) PROVE LeftInv'
    <3>1. ~KillDaemon(d) /\ UNCHANGED pc
      BY <2>3 DEF DaemonForeign, KillDaemon, DaemonStep, DaemonReadNothing, DaemonCheck,
         DaemonRemoveStale, DaemonWriteLock, DaemonNewSocket, DaemonBind, DaemonConnect,
         DaemonRegister, DaemonClean, DaemonCleanOpen, DaemonCleanWrite, DaemonPoll,
         DaemonRemoveSession, DaemonRemoveLock, DaemonExit
    <3>2. ~lockRaced
      BY <2>3 DEF DaemonForeign, KillDaemon, DaemonStep, DaemonReadNothing, DaemonCheck,
         DaemonRemoveStale, DaemonWriteLock, DaemonNewSocket, DaemonBind, DaemonConnect,
         DaemonRegister, DaemonClean, DaemonCleanOpen, DaemonCleanWrite, DaemonPoll,
         DaemonRemoveSession, DaemonRemoveLock, DaemonExit
    <3>3. /\ \A e \in Sessions : Owner(e) => lock = e
          /\ \A e, f \in Sessions : Claiming(e) /\ e # f => ~Claiming(f) /\ ~Owner(f)
      BY <3>2 DEF LockInv
    <3>4. CASE DaemonCheck(d)
      <4>1. CASE lock # None /\ DaemonPidExists(lock)
        <5>1. lock \in Sessions /\ (Owner(lock) \/ dpc[lock] = "failed") /\ lock # d
          BY <3>2, <3>4, <4>1 DEF LeftInv, DaemonPidExists, DaemonCheck
        <5> QED BY <3>1, <3>2, <3>4, <4>1, <5>1, ProcessNames DEF DaemonCheck, LeftInv,
                   containerVars
      <4>2. CASE ~(lock # None /\ DaemonPidExists(lock))
        <5>1. lock = None \/ StaleLock
          BY <3>2, <4>2, ProcessNames DEF LeftInv, DaemonPidExists, DaemonRunning, DaemonEnded
        <5>2. lock = None => dpc' = [dpc EXCEPT ![d] = "write"]
          BY <3>4, <4>2 DEF DaemonCheck
        <5>3. lock # None => dpc' = [dpc EXCEPT ![d] = "stale"]
          BY <3>4, <4>2 DEF DaemonCheck
        <5>4. UNCHANGED <<lock, sock>> /\ dpc[d] = "check"
          BY <3>4, <4>2 DEF DaemonCheck, containerVars
        <5> QED BY <3>1, <3>2, <5>1, <5>2, <5>3, <5>4, ProcessNames DEF LeftInv
      <4> QED BY <4>1, <4>2
    <3>5. CASE DaemonRemoveStale(d)
      <4>1. StaleLock /\ \A e \in Sessions \ {d} : dpc[e] # "stale"
        BY <3>2, <3>3, <3>5 DEF DaemonRemoveStale, LeftInv
      <4>2. dpc' = [dpc EXCEPT ![d] = "write"] /\ lock' = None /\ UNCHANGED sock /\ dpc[d] = "stale"
        BY <3>5, <4>1, ProcessNames DEF DaemonRemoveStale, containerVars
      <4> QED BY <3>1, <3>2, <4>1, <4>2, ProcessNames DEF LeftInv
    <3>6. CASE DaemonWriteLock(d)
      BY <3>1, <3>2, <3>3, <3>6, ProcessNames DEF DaemonWriteLock, LeftInv, containerVars
    <3>7. CASE DaemonNewSocket(d)
      BY <3>1, <3>2, <3>3, <3>7, ProcessNames DEF DaemonNewSocket, DropSocket, LeftInv
    <3>8. CASE DaemonBind(d)
      <4>1. sock' = d /\ DaemonGoto(d, "connect")
        BY <3>2, <3>8 DEF DaemonBind, LeftInv
      <4>2. \A e \in Sessions \ {d} : dpc[e] # "bind"
        BY <3>3, <3>8 DEF DaemonBind
      <4> QED BY <3>1, <3>2, <3>8, <4>1, <4>2, ProcessNames DEF DaemonBind, LeftInv
    <3>9. CASE DaemonRemoveLock(d)
      <4>1. \A e \in Sessions \ {d} : dpc[e] # "stale"
        BY <3>3, <3>9 DEF DaemonRemoveLock
      <4> QED BY <3>1, <3>2, <3>9, <4>1, ProcessNames DEF DaemonRemoveLock, LeftInv, containerVars
    <3>10. CASE DaemonExit(d)
      BY <3>1, <3>2, <3>10, ProcessNames DEF DaemonExit, DropSocket, LeftInv
    <3>11. CASE DaemonPoll(d)
      BY <3>1, <3>2, <3>11, ProcessNames DEF DaemonPoll, LeftInv
    <3>12. CASE DaemonClean(d) \/ DaemonCleanOpen(d) \/ DaemonCleanWrite(d) \/ DaemonRemoveSession(d)
      BY <3>1, <3>2, <3>12 DEF DaemonClean, DaemonCleanOpen, DaemonCleanWrite, DaemonRemoveSession,
         LeftInv, containerVars
    <3>13. CASE DaemonReadNothing(d)
      BY <3>1, <3>2, <3>13 DEF DaemonReadNothing, LeftInv, containerVars
    <3>14. CASE DaemonConnect(d) \/ DaemonRegister(d) \/ DaemonForeign(d)
      <4>1. Owner(d) /\ lock = d /\ UNCHANGED lock /\ lock # Ghost
        BY <3>3, <3>14, ProcessNames DEF DaemonConnect, DaemonRegister, DaemonForeign
      <4>2. CASE DaemonFails(d)
        <5>1. sock' = None /\ dpc' = [dpc EXCEPT ![d] = "failed"]
          BY <4>2 DEF DaemonFails, DropSocket
        <5> QED BY <3>1, <3>2, <4>1, <5>1, ProcessNames DEF LeftInv
      <4>3. CASE /\ UNCHANGED sock
                 /\ \E to \in {"register", "foreign", "sleep"} : dpc' = [dpc EXCEPT ![d] = to]
        BY <3>1, <3>2, <4>1, <4>3 DEF LeftInv
      <4> QED BY <3>14, <4>2, <4>3 DEF DaemonConnect, DaemonRegister, DaemonForeign
    <3> QED BY <2>3, <3>1, <3>4, <3>5, <3>6, <3>7, <3>8, <3>9, <3>10, <3>11, <3>12, <3>13, <3>14
            DEF DaemonStep
  <2> QED BY <2>1, <2>2, <2>3 DEF Next
<1> QED BY <1>1, <1>2, TypeCorrect, LockDiscipline, PTL DEF Spec

\* If daemons are not killed and their keys load, the last one to end leaves
\* no socket, and no lockfile but that of a daemon that failed, unless two
\* raced or an update of the session lockfile was disturbed.
THEOREM NothingIsLeft ==
  ASSUME Faults \subseteq {"kill_enter"}
  PROVE  Spec => []NothingLeft
<1>1. TypeOK /\ LeftInv => NothingLeft
  BY DEF LeftInv, Fresh, NothingLeft, TypeOK, DaemonTypeOK, Calm, NoDaemon, DaemonRunning,
     DaemonEnded, Owner
<1> QED BY <1>1, TypeCorrect, LeftInvariant, PTL

-----------------------------------------------------------------------------
(***************************************************************************)
(* No lost wakeup.  Whoever empties the mounted file while it is watched   *)
(* leaves an event.                                                        *)
(***************************************************************************)

\* Writing never empties a file that lists somebody.
LEMMA OverwriteKeeps ==
  ASSUME NEW old \in SUBSET Sessions, NEW new \in SUBSET Sessions,
         NEW result \in Overwrite(old, new), old # {}
  PROVE  result # {}
<1>1. IsFiniteSet(old) /\ Cardinality({}) = 0
  BY FiniteSessions, FS_Subset, FS_EmptySet
<1>2. Cardinality(old) \in Nat /\ Cardinality(old) # 0
  BY <1>1, FS_CardinalityType, FS_EmptySet
<1>3. CASE new # {}
  BY <1>3, OverwriteBounds
<1>4. CASE new = {}
  <2>1. PICK tail \in SUBSET old : /\ result = new \cup tail
                                   /\ Cardinality(tail) = Cardinality(old)
    BY <1>1, <1>2, <1>4 DEF Overwrite
  <2> QED BY <1>1, <1>2, <2>1
<1> QED BY <1>3, <1>4

WakeInv ==
  /\ Up => mount # "none"
  /\ wpc \in {"read", "block"} => watch
  /\ NoLostWakeup

\* A step on the lockfile keeps it, whoever takes it.
LEMMA FileStepWakes ==
  ASSUME TypeOK, WakeInv, NEW p \in Procs, UNCHANGED wpc,
         \/ UNCHANGED fileVars
         \/ JustRead(p)
         \/ \E new \in SUBSET Sessions : ReadFor(p, new)
         \/ OpenFile(p)
         \/ WriteFile(p)
         \/ UnlinkFile(p)
         \/ AbortIO(p)
  PROVE  WakeInv'
<1> USE DEF WakeInv, NoLostWakeup, Up, MountedPids, TypeOK, FileTypeOK, Places
<1>1. CASE UNCHANGED fileVars \/ JustRead(p) \/ AbortIO(p)
  BY <1>1 DEF fileVars, JustRead, AbortIO
<1>2. CASE \E new \in SUBSET Sessions : ReadFor(p, new)
  BY <1>2 DEF ReadFor
<1>3. CASE OpenFile(p)
  BY <1>3 DEF OpenFile
<1>4. CASE WriteFile(p)
  <2>1. io[p].buf \in SUBSET Sessions
    BY DEF IOState
  <2>2. file # {} => file' # {}
    BY <1>4, <2>1, OverwriteKeeps DEF WriteFile
  <2>3. orphan # {} => orphan' # {}
    BY <1>4, <2>1, OverwriteKeeps DEF WriteFile
  <2> QED BY <1>4, <2>2, <2>3 DEF WriteFile
<1>5. CASE UnlinkFile(p)
  BY <1>5 DEF UnlinkFile
<1> QED BY <1>1, <1>2, <1>3, <1>4, <1>5

\* The mount, the watch and the pending events stay in step.
LEMMA WakeInvariant == Spec => []WakeInv
<1>1. Init => WakeInv
  BY DEF Init, ContainerInit, WakeInv, NoLostWakeup, Up
<1>2. TypeOK /\ WakeInv /\ [Next]_vars => WakeInv'
  <2> SUFFICES ASSUME TypeOK, WakeInv, [Next]_vars PROVE WakeInv'
    OBVIOUS
  <2>1. CASE UNCHANGED vars
    BY <2>1 DEF WakeInv, NoLostWakeup, Up, MountedPids, vars, fileVars, containerVars
  <2>2. ASSUME NEW s \in Sessions, EnterStep(s) \/ ShellEnds(s) \/ KillEnter(s) PROVE WakeInv'
    <3>0. <<"enter", s>> \in Procs /\ file \cup {s} \in SUBSET Sessions /\ file \ {s} \in SUBSET Sessions
      BY DEF Procs, TypeOK, FileTypeOK
    <3>1. CASE EnterStart(s)
      <4>1. CASE UNCHANGED <<fileVars, containerVars>>
        BY <3>0, <4>1, FileStepWakes DEF containerVars
      <4>2. CASE ~Up /\ wpc' = "watch" /\ MountFile
        BY <4>2 DEF MountFile, WakeInv, NoLostWakeup, Up
      <4> QED BY <3>1, <4>1, <4>2 DEF EnterStart, PodmanStart
    <3>2. CASE EnterAppend(s) \/ EnterLeave(s)
      BY <3>0, <3>2, FileStepWakes DEF EnterAppend, EnterLeave, containerVars
    <3>3. CASE \/ EnterCheckDaemon(s) \/ EnterStartDaemon(s) \/ EnterHandOver(s)
               \/ EnterCheckContainer(s) \/ EnterExec(s)
      BY <3>0, <3>3, FileStepWakes DEF EnterCheckDaemon, EnterStartDaemon, EnterHandOver,
         EnterCheckContainer, EnterExec, containerVars
    <3>4. CASE EnterFileOpen(s) \/ EnterFileWrite(s) \/ ShellEnds(s) \/ KillEnter(s)
      BY <3>0, <3>4, FileStepWakes DEF EnterFileOpen, EnterFileWrite, ShellEnds, KillEnter,
         containerVars
    <3> QED BY <2>2, <3>1, <3>2, <3>3, <3>4 DEF EnterStep
  <2>3. ASSUME NEW d \in Sessions, DaemonStep(d) \/ DaemonForeign(d) \/ KillDaemon(d) PROVE WakeInv'
    <3>0. <<"daemon", d>> \in Procs /\ {s \in file : EnterRunning(s)} \in SUBSET Sessions
      BY DEF Procs, TypeOK, FileTypeOK
    <3>1. CASE DaemonClean(d)
      BY <3>0, <3>1, FileStepWakes DEF DaemonClean, containerVars
    <3>2. CASE DaemonRemoveSession(d)
      BY <3>0, <3>2, FileStepWakes DEF DaemonRemoveSession, containerVars
    <3>3. CASE \/ DaemonReadNothing(d) \/ DaemonCheck(d) \/ DaemonRemoveStale(d)
               \/ DaemonWriteLock(d) \/ DaemonNewSocket(d)
      BY <3>0, <3>3, FileStepWakes DEF DaemonReadNothing, DaemonCheck, DaemonRemoveStale,
         DaemonWriteLock, DaemonNewSocket, containerVars
    <3>4. CASE \/ DaemonBind(d) \/ DaemonConnect(d) \/ DaemonRegister(d)
               \/ DaemonCleanOpen(d) \/ DaemonCleanWrite(d) \/ DaemonPoll(d)
      BY <3>0, <3>4, FileStepWakes DEF DaemonBind, DaemonConnect, DaemonRegister, DaemonFails,
         DaemonCleanOpen, DaemonCleanWrite, DaemonPoll, containerVars
    <3>5. CASE DaemonRemoveLock(d) \/ DaemonExit(d) \/ DaemonForeign(d) \/ KillDaemon(d)
      BY <3>0, <3>5, FileStepWakes DEF DaemonRemoveLock, DaemonExit, DaemonForeign, DaemonFails,
         KillDaemon, containerVars
    <3> QED BY <2>3, <3>1, <3>2, <3>3, <3>4, <3>5 DEF DaemonStep
  <2>4. CASE WaitStep
    BY <2>4 DEF WaitStep, ContainerStops, WaitExit, UnmountFile, WaitAddWatch, WaitRead, WaitEvent,
       WakeInv, NoLostWakeup, Up, MountedPids
  <2>5. CASE BackgroundEnds
    BY <2>5 DEF BackgroundEnds, fileVars, WakeInv, NoLostWakeup, Up, MountedPids
  <2> QED BY <2>1, <2>2, <2>3, <2>4, <2>5 DEF Next
<1> QED BY <1>1, <1>2, TypeCorrect, PTL DEF Spec

\* `litterbox wait` never sleeps on an empty lockfile with no event to come.
THEOREM WakeupNotLost == Spec => []NoLostWakeup
<1>1. WakeInv => NoLostWakeup
  BY DEF WakeInv
<1> QED BY <1>1, WakeInvariant, PTL

-----------------------------------------------------------------------------
(***************************************************************************)
(* No session lost.  While no update is disturbed, at most one process is  *)
(* in the middle of one, and the list it is about to write has every       *)
(* registered session; when nobody has truncated the file, the file has.   *)
(***************************************************************************)

EnterInStep(s) ==
  /\ Busy(<<"enter", s>>) <=> pc[s] \in {"appending", "leaving"}
  /\ pc[s] = "appending" => s \in io[<<"enter", s>>].buf

DaemonInStep(d) ==
  /\ Busy(<<"daemon", d>>) <=> dpc[d] = "cleaning"
  /\ pc[d] \in {"idle", "spawn"} => dpc[d] = "none"

InStep == \A s \in Sessions : EnterInStep(s) /\ DaemonInStep(s)

NobodyLost ==
  /\ Up => mount = "path"
  /\ \A p \in Procs : io[p].st = "open" => io[p].at = "path"
  /\ \A p, q \in Procs : Busy(p) /\ Busy(q) => p = q
  /\ \A p \in Procs : \A s \in Sessions : Busy(p) /\ Registered(s) => s \in io[p].buf
  /\ (\A p \in Procs : io[p].st # "open") => \A s \in Sessions : Registered(s) => s \in file

ListInv == InStep /\ (~disturbed => NobodyLost)

\* What one process has to do with a step of another on the lockfile.
SameIO(q) == io'[q].st = io[q].st /\ io'[q].buf = io[q].buf

LEMMA OthersIO ==
  ASSUME TypeOK, NEW p \in Procs,
         \/ UNCHANGED fileVars
         \/ JustRead(p)
         \/ \E new \in SUBSET Sessions : ReadFor(p, new)
         \/ OpenFile(p)
         \/ WriteFile(p)
         \/ UnlinkFile(p)
         \/ AbortIO(p)
         \/ MountFile
         \/ UnmountFile
  PROVE  \A q \in Procs \ {p} : SameIO(q)
<1> USE DEF TypeOK, FileTypeOK, SameIO
<1>1. CASE UNCHANGED fileVars \/ JustRead(p) \/ AbortIO(p) \/ MountFile
  BY <1>1 DEF fileVars, JustRead, AbortIO, MountFile
<1>2. CASE \E new \in SUBSET Sessions : ReadFor(p, new)
  BY <1>2 DEF ReadFor
<1>3. CASE OpenFile(p) \/ WriteFile(p)
  BY <1>3 DEF OpenFile, WriteFile
<1>4. CASE UnlinkFile(p) \/ UnmountFile
  BY <1>4 DEF UnlinkFile, UnmountFile, Redirect, IOState
<1> QED BY <1>1, <1>2, <1>3, <1>4

\* A step of one process has to be looked at for that process only.
LEMMA InStepFrame ==
  ASSUME TypeOK, InStep, NEW s \in Sessions, NEW kind \in {"enter", "daemon"},
         \A q \in Procs \ {<<kind, s>>} : SameIO(q),
         \A t \in Sessions \ {s} : pc'[t] = pc[t] /\ dpc'[t] = dpc[t],
         EnterInStep(s)', DaemonInStep(s)'
  PROVE  InStep'
<1>1. ASSUME NEW t \in Sessions \ {s} PROVE EnterInStep(t)' /\ DaemonInStep(t)'
  <2>1. <<"enter", t>> \in Procs \ {<<kind, s>>} /\ <<"daemon", t>> \in Procs \ {<<kind, s>>}
    BY DEF Procs
  <2>2. SameIO(<<"enter", t>>) /\ SameIO(<<"daemon", t>>)
    BY <2>1
  <2> QED BY <2>2 DEF SameIO, InStep, EnterInStep, DaemonInStep, Busy
<1> QED BY <1>1 DEF InStep

LEMMA EnterKeepsStep ==
  ASSUME TypeOK, InStep, NEW s \in Sessions, EnterStep(s) \/ ShellEnds(s) \/ KillEnter(s)
  PROVE  InStep'
<1> DEFINE e == <<"enter", s>>
           d == <<"daemon", s>>
<1>0. /\ e \in Procs /\ d \in Procs /\ d # e
      /\ file \cup {s} \in SUBSET Sessions /\ file \ {s} \in SUBSET Sessions
      /\ io[e] \in IOState
  BY DEF Procs, TypeOK, FileTypeOK
<1> USE <1>0 DEF TypeOK, HostTypeOK, FileTypeOK, InStep, EnterInStep, DaemonInStep, Busy,
                 EnterGoto, DaemonGoto
<1> HIDE DEF e, d
<1>1. CASE EnterAppend(s)
  <2>1. \A q \in Procs \ {e} : SameIO(q)
    BY <1>1, OthersIO DEF EnterAppend, e
  <2>2. EnterInStep(s)' /\ DaemonInStep(s)'
    BY <1>1, <2>1 DEF EnterAppend, JustRead, ReadFor, SameIO, e, d
  <2> QED BY <1>1, <2>1, <2>2, InStepFrame DEF EnterAppend, e
<1>2. CASE EnterLeave(s)
  <2>1. \A q \in Procs \ {e} : SameIO(q)
    BY <1>2, OthersIO DEF EnterLeave, e
  <2>2. EnterInStep(s)' /\ DaemonInStep(s)'
    BY <1>2, <2>1 DEF EnterLeave, ReadFor, SameIO, e, d
  <2> QED BY <1>2, <2>1, <2>2, InStepFrame DEF EnterLeave, e
<1>3. CASE EnterFileOpen(s)
  <2>1. \A q \in Procs \ {e} : SameIO(q)
    BY <1>3, OthersIO DEF EnterFileOpen, e
  <2>2. EnterInStep(s)' /\ DaemonInStep(s)'
    BY <1>3, <2>1 DEF EnterFileOpen, OpenFile, SameIO, e, d
  <2> QED BY <1>3, <2>1, <2>2, InStepFrame DEF EnterFileOpen, e
<1>4. CASE EnterFileWrite(s)
  <2>1. \A q \in Procs \ {e} : SameIO(q)
    BY <1>4, OthersIO DEF EnterFileWrite, e
  <2>2. EnterInStep(s)' /\ DaemonInStep(s)'
    BY <1>4, <2>1 DEF EnterFileWrite, WriteFile, NoIO, SameIO, e, d
  <2> QED BY <1>4, <2>1, <2>2, InStepFrame DEF EnterFileWrite, e
<1>5. CASE KillEnter(s)
  <2>1. \A q \in Procs \ {e} : SameIO(q)
    BY <1>5, OthersIO DEF KillEnter, e
  <2>2. EnterInStep(s)' /\ DaemonInStep(s)'
    BY <1>5, <2>1 DEF KillEnter, AbortIO, NoIO, EnterRunning, SameIO, e, d
  <2> QED BY <1>5, <2>1, <2>2, InStepFrame DEF KillEnter, e
<1>6. CASE EnterStart(s)
  <2>1. UNCHANGED io
    BY <1>6 DEF EnterStart, PodmanStart, MountFile, fileVars
  <2>2. EnterInStep(s)' /\ DaemonInStep(s)'
    BY <1>6, <2>1 DEF EnterStart
  <2> QED BY <1>6, <2>1, <2>2, InStepFrame DEF EnterStart, SameIO, e
<1>7. CASE EnterCheckDaemon(s) \/ EnterStartDaemon(s) \/ EnterHandOver(s)
  <2>1. UNCHANGED io
    BY <1>7 DEF EnterCheckDaemon, EnterStartDaemon, EnterHandOver, fileVars
  <2>2. EnterInStep(s)' /\ DaemonInStep(s)'
    BY <1>7, <2>1 DEF EnterCheckDaemon, EnterStartDaemon, EnterHandOver
  <2> QED BY <1>7, <2>1, <2>2, InStepFrame DEF EnterCheckDaemon, EnterStartDaemon, EnterHandOver,
             SameIO, e
<1>8. CASE EnterCheckContainer(s) \/ EnterExec(s) \/ ShellEnds(s)
  <2>1. UNCHANGED io
    BY <1>8 DEF EnterCheckContainer, EnterExec, ShellEnds, fileVars
  <2>2. EnterInStep(s)' /\ DaemonInStep(s)'
    BY <1>8, <2>1 DEF EnterCheckContainer, EnterExec, ShellEnds
  <2> QED BY <1>8, <2>1, <2>2, InStepFrame DEF EnterCheckContainer, EnterExec, ShellEnds, SameIO, e
<1> QED BY <1>1, <1>2, <1>3, <1>4, <1>5, <1>6, <1>7, <1>8 DEF EnterStep

LEMMA DaemonKeepsStep ==
  ASSUME TypeOK, InStep, NEW s \in Sessions,
         DaemonStep(s) \/ DaemonForeign(s) \/ KillDaemon(s)
  PROVE  InStep'
<1> DEFINE e == <<"enter", s>>
           d == <<"daemon", s>>
<1>0. /\ e \in Procs /\ d \in Procs /\ d # e
      /\ {t \in file : EnterRunning(t)} \in SUBSET Sessions
      /\ io[d] \in IOState
  BY DEF Procs, TypeOK, FileTypeOK
<1> USE <1>0 DEF TypeOK, HostTypeOK, FileTypeOK, InStep, EnterInStep, DaemonInStep, Busy,
                 DaemonGoto
<1> HIDE DEF e, d
<1>1. CASE DaemonClean(s)
  <2>1. \A q \in Procs \ {d} : SameIO(q)
    BY <1>1, OthersIO DEF DaemonClean, d
  <2>2. EnterInStep(s)' /\ DaemonInStep(s)'
    BY <1>1, <2>1 DEF DaemonClean, JustRead, ReadFor, fileVars, SameIO, e, d
  <2> QED BY <1>1, <2>1, <2>2, InStepFrame DEF DaemonClean, d
<1>2. CASE DaemonCleanOpen(s)
  <2>1. \A q \in Procs \ {d} : SameIO(q)
    BY <1>2, OthersIO DEF DaemonCleanOpen, d
  <2>2. EnterInStep(s)' /\ DaemonInStep(s)'
    BY <1>2, <2>1 DEF DaemonCleanOpen, OpenFile, SameIO, e, d
  <2> QED BY <1>2, <2>1, <2>2, InStepFrame DEF DaemonCleanOpen, d
<1>3. CASE DaemonCleanWrite(s)
  <2>1. \A q \in Procs \ {d} : SameIO(q)
    BY <1>3, OthersIO DEF DaemonCleanWrite, d
  <2>2. EnterInStep(s)' /\ DaemonInStep(s)'
    BY <1>3, <2>1 DEF DaemonCleanWrite, WriteFile, NoIO, SameIO, e, d
  <2> QED BY <1>3, <2>1, <2>2, InStepFrame DEF DaemonCleanWrite, d
<1>4. CASE KillDaemon(s)
  <2>1. \A q \in Procs \ {d} : SameIO(q)
    BY <1>4, OthersIO DEF KillDaemon, d
  <2>2. EnterInStep(s)' /\ DaemonInStep(s)'
    BY <1>4, <2>1 DEF KillDaemon, AbortIO, NoIO, DaemonRunning, SameIO, e, d
  <2> QED BY <1>4, <2>1, <2>2, InStepFrame DEF KillDaemon, d
<1>5. CASE DaemonRemoveSession(s)
  <2>1. \A q \in Procs : SameIO(q)
    BY <1>5 DEF DaemonRemoveSession, UnlinkFile, Redirect, fileVars, SameIO, IOState
  <2>2. EnterInStep(s)' /\ DaemonInStep(s)'
    BY <1>5, <2>1 DEF DaemonRemoveSession, SameIO, e, d
  <2> QED BY <1>5, <2>1, <2>2, InStepFrame DEF DaemonRemoveSession
<1>6. CASE DaemonCheck(s) \/ DaemonRemoveStale(s) \/ DaemonWriteLock(s) \/ DaemonNewSocket(s)
  <2>1. UNCHANGED io
    BY <1>6 DEF DaemonCheck, DaemonRemoveStale, DaemonWriteLock, DaemonNewSocket, fileVars
  <2>2. EnterInStep(s)' /\ DaemonInStep(s)'
    BY <1>6, <2>1 DEF DaemonCheck, DaemonRemoveStale, DaemonWriteLock, DaemonNewSocket
  <2> QED BY <1>6, <2>1, <2>2, InStepFrame DEF DaemonCheck, DaemonRemoveStale, DaemonWriteLock,
             DaemonNewSocket, SameIO
<1>7. CASE DaemonBind(s) \/ DaemonPoll(s) \/ DaemonRemoveLock(s) \/ DaemonExit(s)
  <2>1. UNCHANGED io
    BY <1>7 DEF DaemonBind, DaemonPoll, DaemonRemoveLock, DaemonExit, fileVars
  <2>2. EnterInStep(s)' /\ DaemonInStep(s)'
    BY <1>7, <2>1 DEF DaemonBind, DaemonPoll, DaemonRemoveLock, DaemonExit, DaemonFails
  <2> QED BY <1>7, <2>1, <2>2, InStepFrame DEF DaemonBind, DaemonPoll, DaemonRemoveLock,
             DaemonExit, DaemonFails, SameIO
<1>8. CASE DaemonReadNothing(s) \/ DaemonConnect(s) \/ DaemonRegister(s) \/ DaemonForeign(s)
  <2>1. UNCHANGED io
    BY <1>8 DEF DaemonReadNothing, DaemonConnect, DaemonRegister, DaemonForeign, fileVars
  <2>2. EnterInStep(s)' /\ DaemonInStep(s)'
    BY <1>8, <2>1 DEF DaemonReadNothing, DaemonConnect, DaemonRegister, DaemonForeign, DaemonFails
  <2> QED BY <1>8, <2>1, <2>2, InStepFrame DEF DaemonReadNothing, DaemonConnect, DaemonRegister,
             DaemonForeign, DaemonFails, SameIO
<1> QED BY <1>1, <1>2, <1>3, <1>4, <1>5, <1>6, <1>7, <1>8 DEF DaemonStep

\* What a step on the lockfile must not forget, for nobody to be lost.
Careful(p) ==
  \/ /\ UNCHANGED fileVars \/ OpenFile(p) \/ AbortIO(p)
     /\ \A s \in Sessions : Registered(s)' => Registered(s)
  \/ /\ JustRead(p) /\ ~Busy(p)
     /\ \A s \in Sessions : Registered(s)' => Registered(s) \/ s \in file
  \/ /\ ~Busy(p)
     /\ \E new \in SUBSET Sessions :
          /\ ReadFor(p, new)
          /\ \A s \in Sessions : Registered(s)' => Registered(s) /\ (s \in file => s \in new)
  \/ /\ WriteFile(p) /\ Busy(p)
     /\ \A s \in Sessions : Registered(s)' => Registered(s) \/ s \in io[p].buf
  \/ /\ UnlinkFile(p) /\ ~Busy(p)
     /\ \A s \in Sessions : Registered(s)' => Registered(s)

LEMMA CarefulLosesNobody ==
  ASSUME TypeOK, ~disturbed => NobodyLost, ~disturbed', NEW p \in Procs, Careful(p),
         UNCHANGED wpc
  PROVE  NobodyLost'
<1> USE DEF TypeOK, FileTypeOK, Up, Busy
<1>0. NobodyLost
  BY DEF Careful, fileVars, JustRead, ReadFor, OpenFile, WriteFile, UnlinkFile, AbortIO
<1>1. CASE UNCHANGED fileVars /\ \A s \in Sessions : Registered(s)' => Registered(s)
  BY <1>0, <1>1 DEF NobodyLost, fileVars
<1>2. CASE OpenFile(p) /\ \A s \in Sessions : Registered(s)' => Registered(s)
  BY <1>0, <1>2 DEF NobodyLost, OpenFile
<1>3. CASE AbortIO(p) /\ \A s \in Sessions : Registered(s)' => Registered(s)
  BY <1>0, <1>3 DEF NobodyLost, AbortIO, NoIO
<1>4. CASE /\ JustRead(p) /\ ~Busy(p)
           /\ \A s \in Sessions : Registered(s)' => Registered(s) \/ s \in file
  BY <1>0, <1>4 DEF NobodyLost, JustRead, Overlapped
<1>5. ASSUME ~Busy(p), NEW new \in SUBSET Sessions, ReadFor(p, new),
             \A s \in Sessions : Registered(s)' => Registered(s) /\ (s \in file => s \in new)
      PROVE  NobodyLost'
  <2>1. \A q \in Procs : ~Busy(q)
    BY <1>5 DEF ReadFor, Overlapped
  <2>2. \A s \in Sessions : Registered(s)' => s \in file /\ s \in new
    BY <1>0, <1>5, <2>1 DEF NobodyLost
  <2>3. \A q \in Procs : Busy(q)' => q = p /\ io'[q].buf = new /\ io'[q].st = "read"
    BY <1>5, <2>1 DEF ReadFor
  <2> QED BY <1>0, <1>5, <2>1, <2>2, <2>3 DEF NobodyLost, ReadFor
<1>6. CASE /\ WriteFile(p) /\ Busy(p)
           /\ \A s \in Sessions : Registered(s)' => Registered(s) \/ s \in io[p].buf
  <2>1. io[p].buf \in SUBSET Sessions /\ io[p].at = "path"
    BY <1>0, <1>6 DEF IOState, NobodyLost, WriteFile
  <2>2. io[p].buf \subseteq file'
    BY <1>6, <2>1, OverwriteBounds DEF WriteFile
  <2>3. \A s \in Sessions : Registered(s)' => s \in file'
    BY <1>0, <1>6, <2>2 DEF NobodyLost
  <2>4. \A q \in Procs : ~Busy(q)'
    BY <1>0, <1>6 DEF NobodyLost, WriteFile, NoIO
  <2> QED BY <1>0, <1>6, <2>3, <2>4 DEF NobodyLost, WriteFile
<1>7. CASE /\ UnlinkFile(p) /\ ~Busy(p)
           /\ \A s \in Sessions : Registered(s)' => Registered(s)
  <2>1. \A q \in Procs : ~Busy(q)
    BY <1>7 DEF UnlinkFile, Overlapped
  <2>2. \A s \in Sessions : ~Registered(s)'
    BY <1>0, <1>7, <2>1 DEF NobodyLost, UnlinkFile
  <2>3. \A q \in Procs : ~Busy(q)'
    BY <1>7, <2>1 DEF UnlinkFile, Redirect, IOState
  <2> QED BY <1>0, <1>7, <2>2, <2>3 DEF NobodyLost, UnlinkFile
<1> QED BY <1>1, <1>2, <1>3, <1>4, <1>5, <1>6, <1>7 DEF Careful

LEMMA EnterLosesNobody ==
  ASSUME TypeOK, ListInv, ~disturbed', NEW s \in Sessions,
         EnterStep(s) \/ ShellEnds(s) \/ KillEnter(s)
  PROVE  NobodyLost'
<1> DEFINE e == <<"enter", s>>
<1>0. /\ e \in Procs
      /\ file \cup {s} \in SUBSET Sessions /\ file \ {s} \in SUBSET Sessions
  BY DEF Procs, TypeOK, FileTypeOK
<1>1. ~disturbed => NobodyLost
  BY DEF ListInv
<1>2. EnterInStep(s)
  BY DEF ListInv, InStep
<1> HIDE DEF e
<1>3. CASE EnterStart(s)
  <2>1. CASE UNCHANGED <<fileVars, containerVars>>
    <3>1. Careful(e)
      BY <1>3, <2>1 DEF Careful, EnterStart, EnterGoto, Registered, TypeOK, HostTypeOK
    <3> QED BY <1>0, <1>1, <2>1, <3>1, CarefulLosesNobody DEF containerVars
  <2>2. CASE MountFile
    BY <1>1, <1>3, <2>2 DEF EnterStart, EnterGoto, Registered, TypeOK, HostTypeOK, MountFile,
       NobodyLost, Busy
  <2> QED BY <1>3, <2>1, <2>2 DEF EnterStart, PodmanStart
<1>4. ASSUME ~EnterStart(s) PROVE Careful(e) /\ UNCHANGED wpc
  <2> USE DEF Registered, EnterGoto, TypeOK, HostTypeOK
  <2>1. CASE EnterAppend(s)
    <3>1. ~Busy(e)
      BY <1>2, <2>1 DEF EnterAppend, EnterInStep, e
    <3>2. CASE s \in file
      BY <2>1, <3>1, <3>2 DEF EnterAppend, Careful, containerVars, e
    <3>3. CASE s \notin file
      BY <1>0, <2>1, <3>1, <3>3 DEF EnterAppend, Careful, containerVars, e
    <3> QED BY <3>2, <3>3
  <2>2. CASE EnterLeave(s)
    <3>1. ~Busy(e)
      BY <1>2, <2>2 DEF EnterLeave, EnterInStep, e
    <3>2. \A t \in Sessions : Registered(t)' => Registered(t) /\ t # s
      BY <2>2 DEF EnterLeave
    <3> HIDE DEF Registered
    <3> QED BY <1>0, <2>2, <3>1, <3>2 DEF EnterLeave, Careful, containerVars, e
  <2>3. CASE EnterFileOpen(s)
    BY <2>3 DEF EnterFileOpen, Careful, containerVars, e
  <2>4. CASE EnterFileWrite(s)
    <3>1. Busy(e) /\ (pc[s] = "appending" => s \in io[e].buf)
      BY <1>2, <2>4 DEF EnterFileWrite, EnterInStep, e
    <3>2. \A t \in Sessions : Registered(t)' => Registered(t) \/ t \in io[e].buf
      BY <2>4, <3>1 DEF EnterFileWrite
    <3> QED BY <2>4, <3>1, <3>2 DEF EnterFileWrite, Careful, containerVars, e
  <2>5. CASE EnterCheckDaemon(s) \/ EnterStartDaemon(s) \/ EnterHandOver(s) \/ EnterCheckContainer(s)
    BY <2>5 DEF EnterCheckDaemon, EnterStartDaemon, EnterHandOver, EnterCheckContainer, Careful,
       containerVars
  <2>6. CASE EnterExec(s) \/ ShellEnds(s)
    BY <2>6 DEF EnterExec, ShellEnds, Careful, containerVars
  <2>7. CASE KillEnter(s)
    BY <2>7 DEF KillEnter, Careful, containerVars, e
  <2> QED BY <1>4, <2>1, <2>2, <2>3, <2>4, <2>5, <2>6, <2>7 DEF EnterStep
<1> QED BY <1>0, <1>1, <1>3, <1>4, CarefulLosesNobody

LEMMA DaemonLosesNobody ==
  ASSUME TypeOK, ListInv, ~disturbed', NEW s \in Sessions,
         DaemonStep(s) \/ DaemonForeign(s) \/ KillDaemon(s)
  PROVE  NobodyLost'
<1> DEFINE d == <<"daemon", s>>
<1>0. /\ d \in Procs
      /\ {t \in file : EnterRunning(t)} \in SUBSET Sessions
  BY DEF Procs, TypeOK, FileTypeOK
<1>1. DaemonInStep(s)
  BY DEF ListInv, InStep
<1> HIDE DEF d
<1>2. UNCHANGED <<pc, wpc>>
  BY DEF DaemonStep, DaemonReadNothing, DaemonCheck, DaemonRemoveStale, DaemonWriteLock,
     DaemonNewSocket, DaemonBind, DaemonConnect, DaemonRegister, DaemonFails, DaemonClean,
     DaemonCleanOpen, DaemonCleanWrite, DaemonPoll, DaemonRemoveSession, DaemonRemoveLock,
     DaemonExit, DaemonForeign, KillDaemon, containerVars
<1>3. \A t \in Sessions : Registered(t)' <=> Registered(t)
  BY <1>2 DEF Registered
<1>4. Careful(d)
  <2>1. CASE DaemonClean(s)
    <3>1. ~Busy(d)
      BY <1>1, <2>1 DEF DaemonClean, DaemonInStep, d
    <3>2. \A t \in Sessions : Registered(t) /\ t \in file => t \in {u \in file : EnterRunning(u)}
      BY DEF Registered, EnterRunning
    <3> QED BY <1>0, <1>3, <2>1, <3>1, <3>2 DEF DaemonClean, Careful, d
  <2>2. CASE DaemonCleanOpen(s)
    BY <1>3, <2>2 DEF DaemonCleanOpen, Careful, d
  <2>3. CASE DaemonCleanWrite(s)
    BY <1>1, <1>3, <2>3 DEF DaemonCleanWrite, DaemonInStep, Careful, d
  <2>4. CASE DaemonRemoveSession(s)
    BY <1>1, <1>3, <2>4 DEF DaemonRemoveSession, DaemonInStep, Careful, d
  <2>5. CASE KillDaemon(s)
    BY <1>3, <2>5 DEF KillDaemon, Careful, d
  <2>6. CASE DaemonCheck(s) \/ DaemonRemoveStale(s) \/ DaemonWriteLock(s) \/ DaemonNewSocket(s)
    BY <1>3, <2>6 DEF DaemonCheck, DaemonRemoveStale, DaemonWriteLock, DaemonNewSocket, Careful
  <2>7. CASE DaemonBind(s) \/ DaemonPoll(s) \/ DaemonRemoveLock(s) \/ DaemonExit(s)
    BY <1>3, <2>7 DEF DaemonBind, DaemonPoll, DaemonRemoveLock, DaemonExit, Careful
  <2>8. CASE DaemonReadNothing(s) \/ DaemonConnect(s) \/ DaemonRegister(s) \/ DaemonForeign(s)
    BY <1>3, <2>8 DEF DaemonReadNothing, DaemonConnect, DaemonRegister, DaemonForeign, Careful
  <2> QED BY <2>1, <2>2, <2>3, <2>4, <2>5, <2>6, <2>7, <2>8 DEF DaemonStep
<1> QED BY <1>0, <1>2, <1>4, CarefulLosesNobody DEF ListInv

LEMMA ContainerKeepsStep ==
  ASSUME TypeOK, InStep, WaitStep \/ (BackgroundEnds /\ UNCHANGED <<pc, dpc, daemonVars>>)
  PROVE  InStep'
<1> USE DEF TypeOK, HostTypeOK
<1>1. \A q \in Procs : SameIO(q)
  BY DEF WaitStep, WaitAddWatch, WaitRead, WaitEvent, ContainerStops, WaitExit, UnmountFile,
     Redirect, BackgroundEnds, fileVars, SameIO, FileTypeOK, IOState
<1>2. UNCHANGED dpc
  BY DEF WaitStep, ContainerStops
<1>3. ASSUME NEW s \in Sessions
      PROVE  pc'[s] = pc[s] \/ (pc[s] = "shell" /\ pc'[s] = "leave")
  BY DEF WaitStep, ContainerStops
<1>4. ASSUME NEW s \in Sessions PROVE EnterInStep(s)' /\ DaemonInStep(s)'
  <2>1. <<"enter", s>> \in Procs /\ <<"daemon", s>> \in Procs
    BY DEF Procs
  <2>2. EnterInStep(s) /\ DaemonInStep(s)
    BY DEF InStep
  <2>3. SameIO(<<"enter", s>>) /\ SameIO(<<"daemon", s>>)
    BY <1>1, <2>1
  <2> QED BY <1>2, <1>3, <2>2, <2>3 DEF EnterInStep, DaemonInStep, SameIO, Busy
<1> QED BY <1>4 DEF InStep

LEMMA ContainerLosesNobody ==
  ASSUME TypeOK, ListInv, ~disturbed',
         WaitStep \/ (BackgroundEnds /\ UNCHANGED <<pc, dpc, daemonVars>>)
  PROVE  NobodyLost'
<1> USE DEF TypeOK, HostTypeOK, FileTypeOK, Up, Busy
<1>1. ~disturbed /\ NobodyLost
  BY DEF WaitStep, WaitAddWatch, WaitRead, WaitEvent, ContainerStops, WaitExit, UnmountFile,
     BackgroundEnds, fileVars, ListInv
<1>2. CASE ContainerStops
  <2>1. \A p \in Procs : io'[p].st = io[p].st /\ io'[p].buf = io[p].buf
    BY <1>2 DEF ContainerStops, WaitExit, UnmountFile, Redirect, IOState
  <2>2. \A p \in Procs : io[p].at = "path" => io'[p].at = "path"
    BY <1>2 DEF ContainerStops, WaitExit, UnmountFile, Redirect, IOState
  <2>3. \A s \in Sessions : Registered(s)' => Registered(s)
    BY <1>2 DEF ContainerStops, Registered
  <2>4. wpc' = "off" /\ UNCHANGED file
    BY <1>2 DEF ContainerStops, WaitExit, UnmountFile
  <2> HIDE DEF Registered
  <2> QED BY <1>1, <2>1, <2>2, <2>3, <2>4 DEF NobodyLost
<1>3. CASE WaitAddWatch /\ UNCHANGED pc
  BY <1>1, <1>3 DEF WaitAddWatch, NobodyLost, Registered
<1>4. CASE WaitRead /\ UNCHANGED pc
  BY <1>1, <1>4 DEF WaitRead, NobodyLost, Registered
<1>5. CASE WaitEvent /\ UNCHANGED pc
  BY <1>1, <1>5 DEF WaitEvent, NobodyLost, Registered
<1>6. CASE BackgroundEnds /\ UNCHANGED pc
  BY <1>1, <1>6 DEF BackgroundEnds, fileVars, NobodyLost, Registered
<1> QED BY <1>2, <1>3, <1>4, <1>5, <1>6 DEF WaitStep

\* The invariant of the section.
LEMMA ListInvariant == Spec => [](TypeOK /\ ListInv)
<1>1. Init => ListInv
  BY DEF Init, HostInit, FileInit, ContainerInit, ListInv, InStep, EnterInStep, DaemonInStep,
     NobodyLost, NoIO, Busy, Up, Registered, Procs
<1>2. TypeOK /\ ListInv /\ [Next]_vars => ListInv'
  <2> SUFFICES ASSUME TypeOK, ListInv, [Next]_vars PROVE ListInv'
    OBVIOUS
  <2>1. CASE UNCHANGED vars
    BY <2>1 DEF vars, fileVars, containerVars, ListInv, InStep, EnterInStep, DaemonInStep,
       NobodyLost, Busy, Up, Registered
  <2>2. CASE Next
    <3>1. InStep'
      BY <2>2, EnterKeepsStep, DaemonKeepsStep, ContainerKeepsStep DEF Next, ListInv
    <3>2. ~disturbed' => NobodyLost'
      BY <2>2, EnterLosesNobody, DaemonLosesNobody, ContainerLosesNobody DEF Next
    <3> QED BY <3>1, <3>2 DEF ListInv
  <2> QED BY <2>1, <2>2
<1> QED BY <1>1, <1>2, TypeCorrect, PTL DEF Spec

\* Whoever is registered is listed, until an update is disturbed.
THEOREM NoSessionIsLost == Spec => []SessionsListed
<1>1. TypeOK /\ ListInv => SessionsListed
  BY DEF ListInv, NobodyLost, SessionsListed, Listed, Busy, TypeOK, FileTypeOK, IOState
<1> QED BY <1>1, ListInvariant, PTL

\* The container is closed only when nobody is registered.
THEOREM ExitIsSound == Spec => ExitDecisionSound
<1>1. TypeOK /\ ListInv /\ [Next]_vars =>
        (wpc = "read" /\ wpc' = "reap" => disturbed' \/ \A s \in Sessions : ~Registered(s))
  <2> SUFFICES ASSUME TypeOK, ListInv, [Next]_vars, wpc = "read", wpc' = "reap", ~disturbed'
               PROVE  \A s \in Sessions : ~Registered(s)
    OBVIOUS
  <2>1. WaitRead
    BY DEF vars, containerVars, Next, EnterStep, EnterCheckDaemon, EnterStartDaemon, EnterHandOver,
       EnterAppend, EnterFileOpen, EnterFileWrite, EnterCheckContainer, EnterStart, PodmanStart,
       EnterExec, EnterLeave, ShellEnds, KillEnter, DaemonStep, DaemonReadNothing, DaemonCheck,
       DaemonRemoveStale, DaemonWriteLock, DaemonNewSocket, DaemonBind, DaemonConnect,
       DaemonRegister, DaemonFails, DaemonClean, DaemonCleanOpen, DaemonCleanWrite, DaemonPoll,
       DaemonRemoveSession, DaemonRemoveLock, DaemonExit, DaemonForeign, KillDaemon, WaitStep,
       WaitAddWatch, WaitEvent, ContainerStops, WaitExit, BackgroundEnds
  <2>2. ~disturbed /\ MountedPids = {} /\ \A p \in Procs : io[p].st # "open"
    BY <2>1 DEF WaitRead
  <2>3. NobodyLost /\ file = {}
    BY <2>1, <2>2 DEF ListInv, NobodyLost, Up, MountedPids
  <2> QED BY <2>2, <2>3 DEF NobodyLost
<1>2. TypeOK /\ ListInv /\ [Next]_vars =>
        [wpc = "read" /\ wpc' = "reap" => disturbed' \/ \A s \in Sessions : ~Registered(s)]_vars
  BY <1>1
<1> QED BY <1>2, ListInvariant, PTL DEF Spec, ExitDecisionSound

-----------------------------------------------------------------------------
(***************************************************************************)
(* The Litterbox is a SharedContainer.                                     *)
(***************************************************************************)

Users == {s \in Sessions : Registered(s)}

\* A step that disturbs nothing changes who is registered and where the
\* container is in one of the ways of SharedContainer.
LEMMA StepIsShared ==
  ASSUME TypeOK, ListInv, Next, ~disturbed'
  PROVE  \/ UNCHANGED <<Users, Phase>>
         \/ \E s \in Sessions \ Users : Users' = Users \cup {s} /\ UNCHANGED Phase
         \/ \E s \in Sessions : Users' = Users \ {s} /\ UNCHANGED Phase
         \/ Phase = "off" /\ Users # {} /\ Phase' = "up" /\ UNCHANGED Users
         \/ Phase = "up" /\ Users = {} /\ Phase' = "closing" /\ UNCHANGED Users
         \/ Phase = "closing" /\ Phase' = "off" /\ UNCHANGED Users
<1> DEFINE Goal ==
         \/ UNCHANGED <<Users, Phase>>
         \/ \E s \in Sessions \ Users : Users' = Users \cup {s} /\ UNCHANGED Phase
         \/ \E s \in Sessions : Users' = Users \ {s} /\ UNCHANGED Phase
         \/ Phase = "off" /\ Users # {} /\ Phase' = "up" /\ UNCHANGED Users
         \/ Phase = "up" /\ Users = {} /\ Phase' = "closing" /\ UNCHANGED Users
         \/ Phase = "closing" /\ Phase' = "off" /\ UNCHANGED Users
<1> USE DEF TypeOK, HostTypeOK
<1>1. ASSUME NEW s \in Sessions, EnterStep(s) \/ ShellEnds(s) \/ KillEnter(s) PROVE Goal
  <2>1. \A t \in Sessions \ {s} : Registered(t)' <=> Registered(t)
    BY <1>1 DEF Registered, EnterGoto, EnterStep, ShellEnds, KillEnter, EnterCheckDaemon,
       EnterStartDaemon, EnterHandOver, EnterAppend, EnterFileOpen, EnterFileWrite,
       EnterCheckContainer, EnterStart, EnterExec, EnterLeave
  <2>2. CASE EnterStart(s)
    <3>1. Registered(s)
      BY <2>2 DEF EnterStart, Registered
    <3>2. CASE UNCHANGED <<fileVars, containerVars>>
      <4>1. UNCHANGED Phase
        BY <3>2 DEF containerVars, Phase
      <4>2. CASE Registered(s)'
        BY <2>1, <3>1, <4>1, <4>2 DEF Users
      <4>3. CASE ~Registered(s)'
        <5>1. Users' = Users \ {s}
          BY <2>1, <4>3 DEF Users
        <5> QED BY <4>1, <5>1
      <4> QED BY <4>2, <4>3
    <3>3. CASE ~Up /\ wpc' = "watch" /\ EnterGoto(s, "exec")
      <4>1. Phase = "off" /\ Phase' = "up"
        BY <3>3 DEF Up, Phase
      <4>2. Users' = Users /\ Users # {}
        BY <2>1, <3>1, <3>3 DEF Users, EnterGoto, Registered
      <4> QED BY <4>1, <4>2
    <3> QED BY <2>2, <3>2, <3>3 DEF EnterStart, PodmanStart
  <2>3. CASE ~EnterStart(s)
    <3>1. UNCHANGED Phase
      BY <1>1, <2>3 DEF Phase, containerVars, EnterStep, ShellEnds, KillEnter, EnterCheckDaemon,
         EnterStartDaemon, EnterHandOver, EnterAppend, EnterFileOpen, EnterFileWrite,
         EnterCheckContainer, EnterExec, EnterLeave
    <3>2. Users' = Users \/ (s \notin Users /\ Users' = Users \cup {s}) \/ Users' = Users \ {s}
      BY <2>1 DEF Users
    <3> QED BY <3>1, <3>2
  <2> QED BY <2>2, <2>3
<1>2. ASSUME NEW d \in Sessions, DaemonStep(d) \/ DaemonForeign(d) \/ KillDaemon(d) PROVE Goal
  BY <1>2 DEF Users, Registered, Phase, DaemonStep, DaemonReadNothing, DaemonCheck,
     DaemonRemoveStale, DaemonWriteLock, DaemonNewSocket, DaemonBind, DaemonConnect,
     DaemonRegister, DaemonFails, DaemonClean, DaemonCleanOpen, DaemonCleanWrite, DaemonPoll,
     DaemonRemoveSession, DaemonRemoveLock, DaemonExit, DaemonForeign, KillDaemon, containerVars
<1>3. CASE WaitStep
  <2>1. CASE ContainerStops
    <3>1. \A t \in Sessions : Registered(t)' <=> Registered(t)
      BY <2>1 DEF ContainerStops, Registered
    <3> QED BY <2>1, <3>1 DEF ContainerStops, WaitExit, Phase, Users
  <2>2. CASE WaitRead /\ UNCHANGED pc
    <3>1. CASE wpc' = "block"
      BY <2>2, <3>1 DEF WaitRead, Phase, Users, Registered
    <3>2. CASE MountedPids = {} /\ wpc' = "reap"
      <4>1. ~disturbed /\ NobodyLost /\ \A p \in Procs : io[p].st # "open"
        BY <2>2 DEF WaitRead, ListInv
      <4>2. Users = {}
        BY <2>2, <3>2, <4>1 DEF WaitRead, NobodyLost, Up, MountedPids, Users
      <4> QED BY <2>2, <3>2, <4>2 DEF WaitRead, Phase, Users, Registered
    <3> QED BY <2>2, <3>1, <3>2 DEF WaitRead
  <2>3. CASE (WaitAddWatch \/ WaitEvent) /\ UNCHANGED pc
    BY <2>3 DEF WaitAddWatch, WaitEvent, Phase, Users, Registered
  <2> QED BY <1>3, <2>1, <2>2, <2>3 DEF WaitStep
<1>4. CASE BackgroundEnds /\ UNCHANGED pc
  BY <1>4 DEF BackgroundEnds, Phase, Users, Registered
<1> QED BY <1>1, <1>2, <1>3, <1>4 DEF Next

\* A disturbance is not forgotten.
LEMMA NextRemembers == TypeOK /\ Next /\ disturbed => disturbed'
BY FileSteps DEF fileVars, WaitAddWatch, WaitRead, WaitEvent, JustRead, ReadFor, OpenFile,
   WriteFile, UnlinkFile, AbortIO, MountFile, UnmountFile

\* Sessions share one container that is started for a session and closed when
\* there is none, until an update of the lockfile is disturbed.
THEOREM LitterboxIsShared == Spec => SharedContainerSpec
<1>1. Init => Shared!Init
  BY DEF Init, HostInit, FileInit, ContainerInit, Shared!Init, Registered, Phase
<1>2. TypeOK /\ ListInv /\ [Next]_vars => [Shared!Next]_(Shared!vars)
  <2> SUFFICES ASSUME TypeOK, ListInv, [Next]_vars
               PROVE  Shared!Next \/ UNCHANGED Shared!vars
    BY DEF Shared!vars
  <2>1. CASE UNCHANGED vars
    BY <2>1 DEF vars, fileVars, containerVars, Shared!vars, Registered, Phase
  <2>2. CASE Next /\ disturbed'
    <3>1. Phase' \in Shared!Phases
      BY DEF Phase, Shared!Phases
    <3> QED BY <2>2, <3>1 DEF Shared!Next, Shared!Break, TypeOK, FileTypeOK
  <2>3. CASE Next /\ ~disturbed'
    <3>1. UNCHANGED disturbed
      <4>1. disturbed \in BOOLEAN /\ disturbed' \in BOOLEAN
        BY <2>3, NextFileTypes DEF TypeOK, FileTypeOK
      <4>2. ~disturbed /\ ~disturbed'
        BY <2>3, NextRemembers
      <4> QED BY <4>1, <4>2
    <3>2. CASE UNCHANGED <<Users, Phase>>
      BY <3>1, <3>2 DEF Users, Shared!vars
    <3>3. CASE \E s \in Sessions \ Users : Users' = Users \cup {s} /\ UNCHANGED Phase
      BY <3>1, <3>3 DEF Users, Shared!Next, Shared!Join
    <3>4. CASE \E s \in Sessions : Users' = Users \ {s} /\ UNCHANGED Phase
      BY <3>1, <3>4 DEF Users, Shared!Next, Shared!Leave
    <3>5. CASE Phase = "off" /\ Users # {} /\ Phase' = "up" /\ UNCHANGED Users
      BY <3>1, <3>5 DEF Users, Shared!Next, Shared!Start
    <3>6. CASE Phase = "up" /\ Users = {} /\ Phase' = "closing" /\ UNCHANGED Users
      BY <3>1, <3>6 DEF Users, Shared!Next, Shared!Close
    <3>7. CASE Phase = "closing" /\ Phase' = "off" /\ UNCHANGED Users
      BY <3>1, <3>7 DEF Users, Shared!Next, Shared!Stop
    <3> QED BY <2>3, <3>2, <3>3, <3>4, <3>5, <3>6, <3>7, StepIsShared
  <2> QED BY <2>1, <2>2, <2>3
<1> QED BY <1>1, <1>2, ListInvariant, PTL DEF Spec, SharedContainerSpec, Shared!Spec
=============================================================================
