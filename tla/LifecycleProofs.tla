--------------------------- MODULE LifecycleProofs ---------------------------
(***************************************************************************)
(* Proofs about the commands of Lifecycle.tla, for any number of them.     *)
(***************************************************************************)
EXTENDS Lifecycle, SettingsProofs, FiniteSetTheorems

LEMMA OnlyOne ==
  ASSUME NEW things \in SUBSET Commands, Unique(things)
  PROVE  Only(things) \in things /\ things = {Only(things)}
<1>1. IsFiniteSet(things)
  BY CommandsAssumption, FS_Subset
<1>2. PICK t : things = {t}
  BY <1>1, FS_Singleton DEF Unique
<1> QED
  BY <1>2 DEF Only

LEMMA OneIsUnique == ASSUME NEW t PROVE Unique({t})
  BY FS_Singleton DEF Unique

LEMMA AtMostOne ==
  ASSUME NEW things \in SUBSET Commands, \A t, u \in things : t = u
  PROVE  Cardinality(things) <= 1
<1>1. CASE things = {}
  BY <1>1, FS_EmptySet
<1>2. CASE things # {}
  <2>1. PICK t : things = {t}
    BY <1>2
  <2> QED
    BY <2>1, FS_Singleton
<1> QED
  BY <1>1, <1>2

-----------------------------------------------------------------------------
\* What a command remembers, at the places where it needs it.

HeldAt(at, m) ==
  /\ at \in {"dockerfile", "buildtemplate", "builddefining", "podmanbuild", "home", "sock",
             "settings", "prompt", "save", "saving", "lockfile", "create"} => m.name \in Commands
  /\ at \in {"prompt", "save", "saving", "lockfile", "create"} => m.settings \in LitterboxSettings
  /\ at = "mknod" => \E path \in Paths : m.node = <<path, DevType(path)>>

Held == \A c \in Commands : HeldAt(pc[c], mem[c])

TypeInv == TypeOK /\ Held

\* A command goes to `to` and remembers m.
Moves(c, to, m) == pc' = [pc EXCEPT ![c] = to] /\ mem' = [mem EXCEPT ![c] = m]

Dones == EndPc \cup {"idle"}

LEMMA BlankHeld ==
  /\ Blank \in Memory
  /\ \A to \in Dones : HeldAt(to, Blank)
  BY DEF Blank, Memory, HeldAt, Dones, EndPc

LEMMA MovesHeld ==
  ASSUME TypeInv, NEW c \in Commands, NEW to \in CommandPc, NEW m \in Memory, HeldAt(to, m),
         Moves(c, to, m)
  PROVE  pc' \in [Commands -> CommandPc] /\ mem' \in [Commands -> Memory] /\ Held'
<1>1. pc \in [Commands -> CommandPc] /\ mem \in [Commands -> Memory]
  BY DEF TypeInv, TypeOK
<1>2. ASSUME NEW d \in Commands
      PROVE  HeldAt(pc'[d], mem'[d])
  <2>1. CASE d = c
    BY <1>1, <2>1 DEF Moves
  <2>2. CASE d # c
    BY <1>1, <2>2 DEF Moves, TypeInv, Held
  <2> QED
    BY <2>1, <2>2
<1>3. Held'
  BY <1>2 DEF Held
<1> QED
  BY <1>1, <1>3 DEF Moves

\* Every step of a command is a move, to the places below.
Steps(c, targets) == \E to \in targets : \E m \in Memory : HeldAt(to, m) /\ Moves(c, to, m)

LEMMA GotoMoves ==
  ASSUME TypeInv, NEW c \in Commands, NEW to, Goto(c, to)
  PROVE  Moves(c, to, mem[c]) /\ mem[c] \in Memory
  BY DEF Goto, Moves, TypeInv, TypeOK

LEMMA NameMoves ==
  ASSUME TypeInv, NEW c \in Commands, NEW to, NEW n \in Commands, Go(c, to), Name(c, n)
  PROVE  /\ Moves(c, to, [mem[c] EXCEPT !.name = n]) /\ [mem[c] EXCEPT !.name = n] \in Memory
         /\ [mem[c] EXCEPT !.name = n].name = n
  BY DEF Go, Name, Moves, TypeInv, TypeOK, Memory

LEMMA EndMoves ==
  ASSUME TypeInv, NEW c \in Commands, NEW how \in EndPc, End(c, how)
  PROVE  Moves(c, how, Blank) /\ Steps(c, {how}) /\ HeldAt(how, Blank)
  BY BlankHeld DEF End, Go, Moves, Steps, Dones

\* TypeOK without where the commands are.
ThingsOK ==
  /\ images \in SUBSET Commands /\ containers \in SUBSET Commands
  /\ running \in Commands \cup {None}
  /\ options = None \/ \E s \in LitterboxSettings : \E h \in SUBSET Hardware : options = PodmanArgs(s, h)
  /\ dockerfile \in Commands \cup {None} \cup Unreadable
  /\ settings \in LitterboxSettings \cup {None} \cup Unreadable
  /\ home \in {"none", "bare", "dev"} /\ nodes \in SUBSET Nodes
  /\ lockfile \in BOOLEAN /\ sock \in BOOLEAN
  /\ host \in SUBSET Hardware
  /\ overlapped \in BOOLEAN /\ spoiled \in BOOLEAN

LEMMA Typed ==
  ASSUME TypeInv, NEW c \in Commands, Steps(c, CommandPc), ThingsOK'
  PROVE  TypeInv'
<1>1. PICK to \in CommandPc, m \in Memory : HeldAt(to, m) /\ Moves(c, to, m)
  BY DEF Steps
<1>2. pc' \in [Commands -> CommandPc] /\ mem' \in [Commands -> Memory] /\ Held'
  BY <1>1, MovesHeld
<1> QED
  BY <1>2 DEF TypeInv, TypeOK, ThingsOK

LEMMA StartTyped == ASSUME TypeInv, NEW c \in Commands, Start(c) PROVE TypeInv'
<1>1. PICK to \in {"define", "image", "delete", "attach"} : Goto(c, to)
  BY DEF Start
<1>2. Steps(c, CommandPc)
  BY <1>1, GotoMoves DEF Steps, HeldAt, CommandPc, DefinePc, ImagePc, DeletePc, DevicePc
<1>3. ThingsOK'
  BY DEF Start, ThingsOK, TypeInv, TypeOK, podmanVars, fileVars, homeVars
<1> QED
  BY <1>2, <1>3, Typed

LEMMA CommandTyped == ASSUME TypeInv, NEW c \in Commands, CommandStep(c) PROVE TypeInv'
<1> USE DEF CommandPc, DefinePc, ImagePc, BoxPc, DeletePc, DevicePc, EndPc
<1>0. HeldAt(pc[c], mem[c]) /\ mem[c] \in Memory
  BY DEF TypeInv, TypeOK, Held
<1>1. CASE DefineCheck(c)
  <2>1. Steps(c, CommandPc)
    BY <1>0, <1>1, GotoMoves, EndMoves, BlankHeld DEF DefineCheck, Fail, Steps, HeldAt
  <2>2. ThingsOK'
    BY <1>0, <1>1 DEF DefineCheck, ThingsOK, TypeInv, TypeOK, HeldAt, podmanVars, fileVars, homeVars, history
  <2> QED
    BY <2>1, <2>2, Typed
<1>26. CASE DefineTruncate(c)
  <2>1. Steps(c, CommandPc)
    BY <1>0, <1>26, GotoMoves DEF DefineTruncate, Steps, HeldAt
  <2>2. ThingsOK'
    BY <1>26 DEF DefineTruncate, Unreadable, ThingsOK, TypeInv, TypeOK, podmanVars, homeVars, history
  <2> QED
    BY <2>1, <2>2, Typed
<1>2. CASE DefineWrite(c)
  <2>1. Steps(c, CommandPc)
    BY <1>0, <1>2, GotoMoves, EndMoves, BlankHeld DEF DefineWrite, Fail, Steps, HeldAt
  <2>2. ThingsOK'
    BY <1>0, <1>2 DEF DefineWrite, Unreadable, ThingsOK, TypeInv, TypeOK, HeldAt, podmanVars, fileVars, homeVars, history
  <2> QED
    BY <2>1, <2>2, Typed
<1>3. CASE FindImage(c)
  <2>0. /\ images \in SUBSET Commands
        /\ Unique(images) => Only(images) \in Commands
    BY OnlyOne DEF TypeInv, TypeOK
  <2>1. Steps(c, CommandPc)
    <3>1. ASSUME NEW n \in Commands, Go(c, "dockerfile"), Name(c, n)
          PROVE  Steps(c, CommandPc)
      <4> DEFINE m == [mem[c] EXCEPT !.name = n]
      <4>1. Moves(c, "dockerfile", m) /\ m \in Memory /\ m.name = n
        BY <3>1, NameMoves
      <4>2. HeldAt("dockerfile", m)
        BY <4>1 DEF HeldAt
      <4> QED
        BY <4>1, <4>2 DEF Steps
    <3>2. CASE Goto(c, "findimage")
      BY <1>0, <3>2, GotoMoves DEF Steps, HeldAt
    <3>3. CASE Fail(c)
      BY <3>3, EndMoves DEF Fail, Steps
    <3> QED
      BY <1>3, <2>0, <3>1, <3>2, <3>3 DEF FindImage, GeneratedName
  <2>2. ThingsOK'
    BY <1>0, <1>3 DEF FindImage, ThingsOK, TypeInv, TypeOK, HeldAt, podmanVars, fileVars, homeVars, history
  <2> QED
    BY <2>1, <2>2, Typed
<1>4. CASE PodmanBuild(c)
  <2>1. Steps(c, CommandPc)
    BY <1>0, <1>4, GotoMoves, EndMoves, BlankHeld DEF PodmanBuild, Fail, Steps, HeldAt
  <2>2. ThingsOK'
    BY <1>0, <1>4 DEF PodmanBuild, ThingsOK, TypeInv, TypeOK, HeldAt, podmanVars, fileVars, homeVars, history
  <2> QED
    BY <2>1, <2>2, Typed
<1>5. CASE FindBuiltImage(c)
  <2>1. Steps(c, CommandPc)
    BY <1>0, <1>5, GotoMoves, EndMoves, BlankHeld DEF FindBuiltImage, Fail, Steps, HeldAt
  <2>2. ThingsOK'
    BY <1>0, <1>5 DEF FindBuiltImage, ThingsOK, TypeInv, TypeOK, HeldAt, podmanVars, fileVars, homeVars, history
  <2> QED
    BY <2>1, <2>2, Typed
<1>6. CASE FindContainer(c)
  <2>0. /\ containers \in SUBSET Commands
        /\ Unique(containers) => Only(containers) \in Commands
    BY OnlyOne DEF TypeInv, TypeOK
  <2>1. Steps(c, CommandPc)
    <3>1. ASSUME NEW n \in Commands, Go(c, "home"), Name(c, n)
          PROVE  Steps(c, CommandPc)
      <4> DEFINE m == [mem[c] EXCEPT !.name = n]
      <4>1. Moves(c, "home", m) /\ m \in Memory /\ m.name = n
        BY <3>1, NameMoves
      <4>2. HeldAt("home", m)
        BY <4>1 DEF HeldAt
      <4> QED
        BY <4>1, <4>2 DEF Steps
    <3>2. CASE Fail(c)
      BY <3>2, EndMoves DEF Fail, Steps
    <3> QED
      BY <1>6, <2>0, <3>1, <3>2 DEF FindContainer, GeneratedName
  <2>2. ThingsOK'
    BY <1>0, <1>6 DEF FindContainer, ThingsOK, TypeInv, TypeOK, HeldAt, podmanVars, fileVars, homeVars, history
  <2> QED
    BY <2>1, <2>2, Typed
<1>7. CASE MakeHome(c)
  <2>1. Steps(c, CommandPc)
    BY <1>0, <1>7, GotoMoves, EndMoves, BlankHeld DEF MakeHome, Fail, Steps, HeldAt
  <2>2. ThingsOK'
    BY <1>0, <1>7 DEF MakeHome, ThingsOK, TypeInv, TypeOK, HeldAt, podmanVars, fileVars, homeVars, history
  <2> QED
    BY <2>1, <2>2, Typed
<1>8. CASE MakePlaceholder(c)
  <2>1. Steps(c, CommandPc)
    BY <1>0, <1>8, GotoMoves, EndMoves, BlankHeld DEF MakePlaceholder, Fail, Steps, HeldAt
  <2>2. ThingsOK'
    BY <1>0, <1>8 DEF MakePlaceholder, ThingsOK, TypeInv, TypeOK, HeldAt, podmanVars, fileVars, homeVars, history
  <2> QED
    BY <2>1, <2>2, Typed
<1>9. CASE LoadSettings(c)
  <2>1. Steps(c, CommandPc)
    <3>1. ASSUME NEW s \in LitterboxSettings, NEW to \in {"prompt", "save"},
                 Go(c, to), mem' = [mem EXCEPT ![c].settings = s]
          PROVE  Steps(c, CommandPc)
      <4>1. HeldAt(to, [mem[c] EXCEPT !.settings = s]) /\ [mem[c] EXCEPT !.settings = s] \in Memory
        BY <1>0, <1>9 DEF HeldAt, Memory, LoadSettings
      <4>2. Moves(c, to, [mem[c] EXCEPT !.settings = s])
        BY <3>1 DEF Go, Moves
      <4> QED
        BY <4>1, <4>2 DEF Steps
    <3>2. CASE Fail(c)
      BY <3>2, EndMoves DEF Fail, Steps
    <3> QED
      BY <1>9, <3>1, <3>2, DefaultsType DEF LoadSettings
  <2>2. ThingsOK'
    BY <1>0, <1>9 DEF LoadSettings, ThingsOK, TypeInv, TypeOK, HeldAt, podmanVars, fileVars, homeVars, history
  <2> QED
    BY <2>1, <2>2, Typed
<1>10. CASE PromptSettings(c)
  <2>1. Steps(c, CommandPc)
    <3>1. PICK answers \in Answers :
            mem' = [mem EXCEPT ![c].settings = Prompt(mem[c].settings, host, answers)]
      BY <1>10 DEF PromptSettings
    <3> DEFINE m == [mem[c] EXCEPT !.settings = Prompt(mem[c].settings, host, answers)]
    <3>2. mem[c].settings \in LitterboxSettings
      BY <1>0, <1>10 DEF HeldAt, PromptSettings
    <3>3. Prompt(mem[c].settings, host, answers) \in LitterboxSettings
      BY <3>2, PromptType
    <3>4. HeldAt("save", m) /\ m \in Memory
      BY <1>0, <1>10, <3>3 DEF HeldAt, Memory, PromptSettings
    <3>5. Moves(c, "save", m)
      BY <1>10, <3>1 DEF PromptSettings, Go, Moves
    <3> QED
      BY <3>4, <3>5 DEF Steps
  <2>2. ThingsOK'
    BY <1>0, <1>10 DEF PromptSettings, ThingsOK, TypeInv, TypeOK, HeldAt, podmanVars, fileVars, homeVars, history
  <2> QED
    BY <2>1, <2>2, Typed
<1>11. CASE TruncateSettings(c)
  <2>1. Steps(c, CommandPc)
    BY <1>0, <1>11, GotoMoves, EndMoves, BlankHeld DEF TruncateSettings, Fail, Steps, HeldAt
  <2>2. ThingsOK'
    BY <1>0, <1>11 DEF TruncateSettings, Unreadable, ThingsOK, TypeInv, TypeOK, HeldAt, podmanVars, fileVars, homeVars, history
  <2> QED
    BY <2>1, <2>2, Typed
<1>12. CASE WriteSettings(c)
  <2>1. Steps(c, CommandPc)
    BY <1>0, <1>12, GotoMoves, EndMoves, BlankHeld DEF WriteSettings, Fail, Steps, HeldAt
  <2>2. ThingsOK'
    BY <1>0, <1>12 DEF WriteSettings, Unreadable, ThingsOK, TypeInv, TypeOK, HeldAt, podmanVars, fileVars, homeVars, history
  <2> QED
    BY <2>1, <2>2, Typed
<1>13. CASE MakeLockfile(c)
  <2>1. Steps(c, CommandPc)
    BY <1>0, <1>13, GotoMoves, EndMoves, BlankHeld DEF MakeLockfile, Fail, Steps, HeldAt
  <2>2. ThingsOK'
    BY <1>0, <1>13 DEF MakeLockfile, ThingsOK, TypeInv, TypeOK, HeldAt, podmanVars, fileVars, homeVars, history
  <2> QED
    BY <2>1, <2>2, Typed
<1>14. CASE PodmanCreate(c)
  <2>1. Steps(c, CommandPc)
    BY <1>0, <1>14, GotoMoves, EndMoves, BlankHeld DEF PodmanCreate, Fail, Steps, HeldAt
  <2>2. ThingsOK'
    BY <1>0, <1>14 DEF PodmanCreate, ThingsOK, TypeInv, TypeOK, HeldAt, podmanVars, fileVars, homeVars, history
  <2> QED
    BY <2>1, <2>2, Typed
<1>15. CASE FindDeleted(c)
  <2>0. Unique(containers) => Only(containers) \in Commands
    BY OnlyOne DEF TypeInv, TypeOK
  <2>1. Steps(c, CommandPc)
    <3>1. CASE Unique(containers) /\ Go(c, "rm") /\ Name(c, Only(containers))
      BY <2>0, <3>1, NameMoves DEF Steps, HeldAt
    <3>2. CASE Fail(c) \/ End(c, "kept")
      BY <3>2, EndMoves DEF Fail, Steps
    <3> QED
      BY <1>15, <3>1, <3>2 DEF FindDeleted
  <2>2. ThingsOK'
    BY <1>0, <1>15 DEF FindDeleted, ThingsOK, TypeInv, TypeOK, HeldAt, podmanVars, fileVars, homeVars, history
  <2> QED
    BY <2>1, <2>2, Typed
<1>16. CASE PodmanRm(c)
  <2>1. Steps(c, CommandPc)
    BY <1>0, <1>16, GotoMoves, EndMoves, BlankHeld DEF PodmanRm, Fail, Steps, HeldAt
  <2>2. ThingsOK'
    BY <1>0, <1>16 DEF PodmanRm, ThingsOK, TypeInv, TypeOK, HeldAt, podmanVars, fileVars, homeVars, history
  <2> QED
    BY <2>1, <2>2, Typed
<1>17. CASE FindDeletedImage(c)
  <2>0. Unique(images) => Only(images) \in Commands
    BY OnlyOne DEF TypeInv, TypeOK
  <2>1. Steps(c, CommandPc)
    <3>1. CASE Unique(images) /\ Go(c, "imagerm") /\ Name(c, Only(images))
      BY <2>0, <3>1, NameMoves DEF Steps, HeldAt
    <3>2. CASE Fail(c)
      BY <3>2, EndMoves DEF Fail, Steps
    <3> QED
      BY <1>17, <3>1, <3>2 DEF FindDeletedImage
  <2>2. ThingsOK'
    BY <1>0, <1>17 DEF FindDeletedImage, ThingsOK, TypeInv, TypeOK, HeldAt, podmanVars, fileVars, homeVars, history
  <2> QED
    BY <2>1, <2>2, Typed
<1>18. CASE PodmanImageRm(c)
  <2>1. Steps(c, CommandPc)
    BY <1>0, <1>18, GotoMoves, EndMoves, BlankHeld DEF PodmanImageRm, Fail, Steps, HeldAt
  <2>2. ThingsOK'
    BY <1>0, <1>18 DEF PodmanImageRm, ThingsOK, TypeInv, TypeOK, HeldAt, podmanVars, fileVars, homeVars, history
  <2> QED
    BY <2>1, <2>2, Typed
<1>19. CASE RemoveHome(c)
  <2>1. Steps(c, CommandPc)
    BY <1>0, <1>19, GotoMoves, EndMoves, BlankHeld DEF RemoveHome, Fail, Steps, HeldAt
  <2>2. ThingsOK'
    BY <1>0, <1>19 DEF RemoveHome, ThingsOK, TypeInv, TypeOK, HeldAt, podmanVars, fileVars, homeVars, history
  <2> QED
    BY <2>1, <2>2, Typed
<1>20. CASE RemoveDockerfile(c)
  <2>1. Steps(c, CommandPc)
    BY <1>0, <1>20, GotoMoves, EndMoves, BlankHeld DEF RemoveDockerfile, Fail, Steps, HeldAt
  <2>2. ThingsOK'
    BY <1>0, <1>20 DEF RemoveDockerfile, ThingsOK, TypeInv, TypeOK, HeldAt, podmanVars, fileVars, homeVars, history
  <2> QED
    BY <2>1, <2>2, Typed
<1>21. CASE RemoveSettings(c)
  <2>1. Steps(c, CommandPc)
    BY <1>0, <1>21, GotoMoves, EndMoves, BlankHeld DEF RemoveSettings, Fail, Steps, HeldAt
  <2>2. ThingsOK'
    BY <1>0, <1>21 DEF RemoveSettings, ThingsOK, TypeInv, TypeOK, HeldAt, podmanVars, fileVars, homeVars, history
  <2> QED
    BY <2>1, <2>2, Typed
<1>22. CASE StatDevice(c)
  <2>1. Steps(c, CommandPc)
    <3>1. PICK path \in Paths : mem' = [mem EXCEPT ![c].node = <<path, DevType(path)>>]
      BY <1>22 DEF StatDevice
    <3> DEFINE m == [mem[c] EXCEPT !.node = <<path, DevType(path)>>]
    <3>2. DevType(path) \in {"b", "c", "unknown"}
      BY DEF DevType
    <3>3. HeldAt("mknod", m) /\ m \in Memory
      BY <1>0, <3>2 DEF HeldAt, Memory
    <3>4. Moves(c, "mknod", m)
      BY <1>22, <3>1 DEF StatDevice, Go, Moves
    <3> QED
      BY <3>3, <3>4 DEF Steps
  <2>2. ThingsOK'
    BY <1>0, <1>22 DEF StatDevice, ThingsOK, TypeInv, TypeOK, HeldAt, podmanVars, fileVars, homeVars, history
  <2> QED
    BY <2>1, <2>2, Typed
<1>23. CASE Mknod(c)
  <2>1. Steps(c, CommandPc)
    BY <1>0, <1>23, GotoMoves, EndMoves, BlankHeld DEF Mknod, Fail, Steps, HeldAt
  <2>2. ThingsOK'
    BY <1>0, <1>23 DEF Mknod, ThingsOK, TypeInv, TypeOK, HeldAt, podmanVars, fileVars, homeVars, history
  <2> QED
    BY <2>1, <2>2, Typed
<1>24. CASE StepFails(c)
  <2>1. Steps(c, CommandPc)
    BY <1>0, <1>24, GotoMoves, EndMoves, BlankHeld DEF StepFails, Fail, Steps, HeldAt
  <2>2. ThingsOK'
    BY <1>0, <1>24 DEF StepFails, LeaveDockerfile, Unreadable, ThingsOK, TypeInv, TypeOK, HeldAt, podmanVars, fileVars, homeVars, history
  <2> QED
    BY <2>1, <2>2, Typed
<1>25. CASE Killed(c)
  <2>1. Steps(c, CommandPc)
    BY <1>0, <1>25, GotoMoves, EndMoves, BlankHeld DEF Killed, Fail, Steps, HeldAt
  <2>2. ThingsOK'
    BY <1>0, <1>25 DEF Killed, LeaveDockerfile, Unreadable, ThingsOK, TypeInv, TypeOK, HeldAt, podmanVars, fileVars, homeVars, history
  <2> QED
    BY <2>1, <2>2, Typed
<1> QED
  BY <1>1, <1>2, <1>3, <1>4, <1>5, <1>6, <1>7, <1>8, <1>9, <1>10, <1>11, <1>12, <1>13, <1>14, <1>15, <1>16, <1>17, <1>18, <1>19, <1>20, <1>21, <1>22, <1>23, <1>24, <1>25, <1>26 DEF CommandStep

LEMMA InitTyped == ASSUME Init PROVE TypeInv
<1> USE DEF Init
<1>1. /\ pc \in [Commands -> CommandPc]
      /\ mem \in [Commands -> Memory]
      /\ Held
  BY BlankHeld DEF CommandPc, Held, Dones
<1>2. ThingsOK
  BY DEF ThingsOK
<1> QED
  BY <1>1, <1>2 DEF TypeInv, TypeOK, ThingsOK

LEMMA NextTyped == ASSUME TypeInv, [Next]_vars PROVE TypeInv'
<1> USE DEF vars, podmanVars, fileVars, homeVars, history
<1>1. ASSUME NEW c \in Commands, Start(c) \/ CommandStep(c)
      PROVE  TypeInv'
  BY <1>1, StartTyped, CommandTyped
<1>2. ASSUME UNCHANGED <<pc, mem>>, ThingsOK'
      PROVE  TypeInv'
  BY <1>2 DEF TypeInv, TypeOK, ThingsOK, Held
<1>3. CASE SessionsBegin
  <2>1. Unique(containers) => Only(containers) \in Commands
    BY OnlyOne DEF TypeInv, TypeOK
  <2> QED
    BY <1>2, <1>3, <2>1 DEF SessionsBegin, ThingsOK, TypeInv, TypeOK
<1>4. CASE SessionsEnd
  BY <1>2, <1>4 DEF SessionsEnd, ThingsOK, TypeInv, TypeOK
<1>5. CASE HostChanges
  BY <1>2, <1>5 DEF HostChanges, ThingsOK, TypeInv, TypeOK
<1>6. CASE UNCHANGED vars
  BY <1>2, <1>6 DEF ThingsOK, TypeInv, TypeOK
<1> QED
  BY <1>1, <1>3, <1>4, <1>5, <1>6 DEF Next

LEMMA TypeInvCorrect == Spec => []TypeInv
  BY InitTyped, NextTyped, PTL DEF Spec

\* Type correctness, for any number of commands.
THEOREM TypeCorrect == Spec => []TypeOK
  BY TypeInvCorrect, PTL DEF TypeInv

-----------------------------------------------------------------------------
\* A node that is made is the one that was looked at.

LEMMA DevTypeSound ==
  ASSUME NEW path
  PROVE  /\ DevType(path) = "b" => path \in BlockDevices
         /\ DevType(path) = "c" => path \in CharDevices
<1>1. 14 \notin S_IFCHR /\ 13 \notin S_IFREG /\ 14 \notin S_IFREG
  BY DEF S_IFCHR, S_IFREG
<1>2. 13 \in S_IFBLK /\ 14 \in S_IFBLK /\ 13 \in S_IFCHR
  BY DEF S_IFBLK, S_IFCHR
<1> QED
  BY <1>1, <1>2 DEF DevType, Mode

LEMMA NodesCame ==
  ASSUME [Next]_vars
  PROVE  nodes' \in {nodes, {}} \/ \E c \in Commands : Mknod(c)
<1> USE DEF vars, podmanVars, fileVars, homeVars, history
<1>1. ASSUME NEW c \in Commands, CommandStep(c), ~Mknod(c)
      PROVE  nodes' \in {nodes, {}}
  <2>1. CASE RemoveHome(c)
    BY <2>1 DEF RemoveHome
  <2>2. CASE DefineCheck(c) \/ DefineTruncate(c) \/ DefineWrite(c) \/ FindImage(c) \/ PodmanBuild(c)
             \/ FindBuiltImage(c) \/ FindContainer(c) \/ MakeHome(c) \/ MakePlaceholder(c)
    BY <2>2 DEF DefineCheck, DefineTruncate, DefineWrite, FindImage, PodmanBuild, FindBuiltImage, FindContainer,
                MakeHome, MakePlaceholder
  <2>3. CASE LoadSettings(c) \/ PromptSettings(c) \/ TruncateSettings(c) \/ WriteSettings(c)
             \/ MakeLockfile(c) \/ PodmanCreate(c) \/ StatDevice(c) \/ StepFails(c) \/ Killed(c)
    BY <2>3 DEF LoadSettings, PromptSettings, TruncateSettings, WriteSettings, MakeLockfile,
                PodmanCreate, StatDevice, StepFails, Killed
  <2>4. CASE FindDeleted(c) \/ PodmanRm(c) \/ FindDeletedImage(c) \/ PodmanImageRm(c)
             \/ RemoveDockerfile(c) \/ RemoveSettings(c)
    BY <2>4 DEF FindDeleted, PodmanRm, FindDeletedImage, PodmanImageRm, RemoveDockerfile,
                RemoveSettings
  <2> QED
    BY <1>1, <2>1, <2>2, <2>3, <2>4 DEF CommandStep
<1> QED
  BY <1>1 DEF Next, Start, SessionsBegin, SessionsEnd, HostChanges

\* devices.rs:48, the node of a device has its type although the bits of a
\* block device contain those of a character device, whatever is deleted or
\* attached between the look at the device and mknod.
THEOREM NodesAreFaithful == Spec => []NodesFaithful
<1>1. Init => NodesFaithful
  BY DEF Init, NodesFaithful
<1>2. TypeInv /\ NodesFaithful /\ [Next]_vars => NodesFaithful'
  <2> SUFFICES ASSUME TypeInv, NodesFaithful, [Next]_vars
               PROVE  NodesFaithful'
    OBVIOUS
  <2>1. ASSUME NEW c \in Commands, Mknod(c)
        PROVE  NodesFaithful'
    <3>1. PICK path \in Paths : mem[c].node = <<path, DevType(path)>>
      BY <2>1 DEF TypeInv, Held, HeldAt, Mknod
    <3>2. DevType(path) \in {"b", "c"} /\ nodes' = nodes \cup {<<path, DevType(path)>>}
      BY <2>1, <3>1 DEF Mknod, Nodes
    <3> QED
      BY <3>2, DevTypeSound DEF NodesFaithful
  <2>2. CASE nodes' \in {nodes, {}}
    BY <2>2 DEF NodesFaithful
  <2> QED
    BY <2>1, <2>2, NodesCame
<1> QED
  BY <1>1, <1>2, TypeInvCorrect, PTL DEF Spec

-----------------------------------------------------------------------------
\* Commands that run one after the other.  What a command in flight has found
\* or left is still so when it comes to use it.

Boxing == {"home", "sock", "settings", "prompt", "save", "saving", "lockfile", "create"}
Unboxed == {"finddeleted", "imagerm", "rmhome", "rmdefinition", "rmsettings"}

SerialAt(at, m) ==
  /\ at \in {"template", "buildtemplate"} => dockerfile = None
  /\ at \in {"defining", "builddefining"} => dockerfile = Empty
  /\ at \in {"dockerfile", "buildtemplate", "builddefining", "podmanbuild"}
       => images \subseteq {m.name}
  /\ at \in Boxing \cup {"findcontainer"} => images # {}
  /\ at \in Boxing \cup {"rm"} => containers \subseteq {m.name}
  /\ at \in Boxing \ {"home"} => home # "none"
  /\ at = "saving" => settings = Empty
  /\ at \in {"lockfile", "create"} => settings = m.settings
  /\ at \in Unboxed => containers = {}
  /\ at = "imagerm" => images \subseteq {m.name}
  /\ at \in {"rmhome", "rmdefinition", "rmsettings"} => images = {}

Single ==
  /\ \A n, o \in images : n = o
  /\ \A n, o \in containers : n = o
  /\ images # {} => dockerfile \notin NoDefinition

Alone == \A c, d \in Commands : InFlight(c) /\ InFlight(d) => c = d

Unspoiled == settings \in Unreadable => spoiled \/ \E c \in Commands : pc[c] = "saving"

Serial == Alone /\ Single /\ Unspoiled /\ \A c \in Commands : SerialAt(pc[c], mem[c])

SerialInv == ~overlapped => Serial

\* How a command moves on its own.
SerialMove(c, to, m) ==
  /\ Moves(c, to, m)
  /\ SerialAt(to, m)'
  /\ settings' \in Unreadable => spoiled' \/ to = "saving"

LEMMA SerialMoved ==
  ASSUME TypeInv, Serial, NEW c \in Commands, InFlight(c), Single',
         \E to \in CommandPc \ {"idle"}, m \in Memory : SerialMove(c, to, m)
  PROVE  Serial'
<1>1. PICK to \in CommandPc \ {"idle"}, m \in Memory : SerialMove(c, to, m)
  OBVIOUS
<1>2. pc' = [pc EXCEPT ![c] = to] /\ mem' = [mem EXCEPT ![c] = m]
  BY <1>1 DEF SerialMove, Moves
<1>3. pc'[c] = to /\ mem'[c] = m
  BY <1>2 DEF TypeInv, TypeOK
<1>4. \A d \in Commands : d # c => pc'[d] = pc[d] /\ pc[d] \in Dones
  BY <1>2 DEF TypeInv, TypeOK, Serial, Alone, InFlight, Dones
<1>5. Alone'
  BY <1>4 DEF Alone, InFlight, Dones
<1>6. ASSUME NEW d \in Commands
      PROVE  SerialAt(pc[d], mem[d])'
  <2>1. CASE d = c
    BY <1>1, <1>3, <2>1 DEF SerialMove, SerialAt
  <2>2. CASE d # c
    BY <1>4, <2>2 DEF SerialAt, Dones, EndPc, Boxing, Unboxed
  <2> QED
    BY <2>1, <2>2
<1>7. Unspoiled'
  BY <1>1, <1>3 DEF SerialMove, Unspoiled
<1> QED
  BY <1>5, <1>6, <1>7 DEF Serial

LEMMA StartSerial ==
  ASSUME TypeInv, SerialInv, NEW c \in Commands, Start(c)
  PROVE  SerialInv'
<1> SUFFICES ASSUME ~overlapped'
             PROVE  Serial'
  BY DEF SerialInv
<1>1. ~overlapped /\ \A d \in Commands : pc[d] \in Dones
  BY DEF Start, TypeInv, TypeOK, InFlight, Dones
<1>2. PICK to \in {"define", "image", "delete", "attach"} : Goto(c, to)
  BY DEF Start
<1>3. \A d \in Commands : d # c => pc'[d] \in Dones
  BY <1>1, <1>2 DEF Goto, TypeInv, TypeOK
<1>4. pc'[c] = to
  BY <1>2 DEF Goto, TypeInv, TypeOK
<1>5. UNCHANGED <<images, containers, dockerfile, settings, home, spoiled>>
  BY DEF Start, podmanVars, fileVars, homeVars
<1>6. Alone'
  BY <1>3 DEF Alone, InFlight, Dones
<1>7. \A d \in Commands : SerialAt(pc[d], mem[d])'
  BY <1>3, <1>4 DEF SerialAt, Dones, EndPc, Boxing, Unboxed
<1>8. Unspoiled'
  <2>1. \A d \in Commands : pc[d] # "saving"
    BY <1>1 DEF Dones, EndPc
  <2> QED
    BY <1>1, <1>5, <2>1 DEF SerialInv, Serial, Unspoiled
<1> QED
  BY <1>1, <1>5, <1>6, <1>7, <1>8 DEF SerialInv, Serial, Single

LEMMA CommandSerial ==
  ASSUME TypeInv, SerialInv, NEW c \in Commands, CommandStep(c)
  PROVE  SerialInv'
<1> USE DEF CommandPc, DefinePc, ImagePc, BoxPc, DeletePc, DevicePc, EndPc
<1>a. overlapped' = overlapped
  BY DEF CommandStep, DefineCheck, DefineTruncate, DefineWrite, FindImage, PodmanBuild, FindBuiltImage, FindContainer, MakeHome, MakePlaceholder, LoadSettings, PromptSettings, TruncateSettings, WriteSettings, MakeLockfile, PodmanCreate, FindDeleted, PodmanRm, FindDeletedImage, PodmanImageRm, RemoveHome, RemoveDockerfile, RemoveSettings, StatDevice, Mknod, StepFails, Killed, history
<1> SUFFICES ASSUME ~overlapped, Serial
             PROVE  Serial'
  BY <1>a DEF SerialInv
<1>b. /\ HeldAt(pc[c], mem[c]) /\ SerialAt(pc[c], mem[c]) /\ mem[c] \in Memory
      /\ images \in SUBSET Commands /\ containers \in SUBSET Commands
  BY DEF TypeInv, TypeOK, Held, Serial
<1>c. InFlight(c)
  BY DEF CommandStep, InFlight, DefineCheck, DefineTruncate, DefineWrite, FindImage, PodmanBuild, FindBuiltImage, FindContainer, MakeHome, MakePlaceholder, LoadSettings, PromptSettings, TruncateSettings, WriteSettings, MakeLockfile, PodmanCreate, FindDeleted, PodmanRm, FindDeletedImage, PodmanImageRm, RemoveHome, RemoveDockerfile, RemoveSettings, StatDevice, Mknod, StepFails, Killed
<1>d. \A to \in EndPc : SerialAt(to, Blank)'
  BY DEF SerialAt, Boxing, Unboxed
<1>e. settings \in Unreadable => spoiled \/ pc[c] = "saving"
  BY <1>c DEF Serial, Unspoiled, Alone, InFlight
<1>f. None \notin Unreadable /\ Defaults \notin Unreadable /\ \A t \in LitterboxSettings : t \notin Unreadable
  BY NoSettings, DefaultsType
<1>g. Single
  BY DEF Serial
<1>1. CASE DefineCheck(c)
  <2>1. \E to \in CommandPc \ {"idle"}, m \in Memory : SerialMove(c, to, m)
    BY <1>b, <1>d, <1>e, <1>f, <1>1, GotoMoves, EndMoves, BlankHeld
       DEF DefineCheck, Fail, SerialMove, SerialAt, HeldAt, Boxing, Unboxed, podmanVars, fileVars, homeVars, history
  <2>2. Single'
    BY <1>b, <1>g, <1>1 DEF DefineCheck, Single, SerialAt, Boxing, Unboxed, podmanVars, fileVars, homeVars, history
  <2> QED
    BY <1>c, <2>1, <2>2, SerialMoved
<1>26. CASE DefineTruncate(c)
  <2>1. \E to \in CommandPc \ {"idle"}, m \in Memory : SerialMove(c, to, m)
    BY <1>b, <1>e, <1>26, GotoMoves
       DEF DefineTruncate, SerialMove, SerialAt, Boxing, Unboxed, podmanVars, homeVars, history
  <2>2. Single'
    BY <1>b, <1>g, <1>26 DEF DefineTruncate, Single, SerialAt, NoDefinition, podmanVars
  <2> QED
    BY <1>c, <2>1, <2>2, SerialMoved
<1>2. CASE DefineWrite(c)
  <2>1. \E to \in CommandPc \ {"idle"}, m \in Memory : SerialMove(c, to, m)
    BY <1>b, <1>d, <1>e, <1>2, CommandsAssumption, GotoMoves, EndMoves, BlankHeld
       DEF DefineWrite, Fail, SerialMove, SerialAt, HeldAt, Boxing, Unboxed, podmanVars, fileVars, homeVars, history
  <2>2. Single'
    BY <1>b, <1>g, <1>2 DEF DefineWrite, Single, SerialAt, NoDefinition, Boxing, Unboxed, podmanVars, fileVars, homeVars, history
  <2> QED
    BY <1>c, <2>1, <2>2, SerialMoved
<1>3. CASE FindImage(c)
  <2>1. \E to \in CommandPc \ {"idle"}, m \in Memory : SerialMove(c, to, m)
    <3>1. ASSUME NEW n \in Commands, images \subseteq {n}, Go(c, "dockerfile"), Name(c, n)
          PROVE  \E to \in CommandPc \ {"idle"}, m \in Memory : SerialMove(c, to, m)
      <4> DEFINE m == [mem[c] EXCEPT !.name = n]
      <4>1. Moves(c, "dockerfile", m) /\ m \in Memory /\ m.name = n
        BY <3>1, NameMoves
      <4>2. SerialMove(c, "dockerfile", m)
        BY <1>b, <1>e, <1>3, <3>1, <4>1 DEF FindImage, Fail, SerialMove, SerialAt, Boxing, Unboxed, podmanVars, fileVars, homeVars, history
      <4> QED
        BY <4>1, <4>2
    <3>2. CASE Goto(c, "findimage")
      BY <1>b, <1>e, <1>3, <3>2, GotoMoves DEF FindImage, Fail, SerialMove, SerialAt, Boxing, Unboxed, podmanVars, fileVars, homeVars, history
    <3>3. CASE Fail(c)
      BY <1>d, <1>e, <1>3, <3>3, EndMoves, BlankHeld DEF FindImage, Fail, SerialMove, SerialAt, Boxing, Unboxed, podmanVars, fileVars, homeVars, history
    <3> QED
      BY <1>b, <1>3, <3>1, <3>2, <3>3, OnlyOne DEF FindImage, GeneratedName
  <2>2. Single'
    BY <1>b, <1>g, <1>3 DEF FindImage, Single, SerialAt, Boxing, Unboxed, podmanVars, fileVars, homeVars, history
  <2> QED
    BY <1>c, <2>1, <2>2, SerialMoved
<1>4. CASE PodmanBuild(c)
  <2>1. \E to \in CommandPc \ {"idle"}, m \in Memory : SerialMove(c, to, m)
    BY <1>b, <1>d, <1>e, <1>f, <1>4, GotoMoves, EndMoves, BlankHeld
       DEF PodmanBuild, Fail, SerialMove, SerialAt, HeldAt, Boxing, Unboxed, podmanVars, fileVars, homeVars, history
  <2>2. Single'
    BY <1>b, <1>g, <1>4 DEF PodmanBuild, Single, SerialAt, Boxing, Unboxed, podmanVars, fileVars, homeVars, history
  <2> QED
    BY <1>c, <2>1, <2>2, SerialMoved
<1>5. CASE FindBuiltImage(c)
  <2>1. \E to \in CommandPc \ {"idle"}, m \in Memory : SerialMove(c, to, m)
    <3>1. CASE Unique(images) /\ Goto(c, "findcontainer")
      <4>1. images # {}
        BY <1>b, <3>1, OnlyOne
      <4> QED
        BY <1>b, <1>e, <1>5, <3>1, <4>1, GotoMoves DEF FindBuiltImage, Fail, SerialMove, SerialAt, Boxing, Unboxed, podmanVars, fileVars, homeVars, history
    <3>2. CASE Fail(c)
      BY <1>d, <1>e, <1>5, <3>2, EndMoves, BlankHeld DEF FindBuiltImage, Fail, SerialMove, SerialAt, Boxing, Unboxed, podmanVars, fileVars, homeVars, history
    <3> QED
      BY <1>5, <3>1, <3>2 DEF FindBuiltImage
  <2>2. Single'
    BY <1>b, <1>g, <1>5 DEF FindBuiltImage, Single, SerialAt, Boxing, Unboxed, podmanVars, fileVars, homeVars, history
  <2> QED
    BY <1>c, <2>1, <2>2, SerialMoved
<1>6. CASE FindContainer(c)
  <2>1. \E to \in CommandPc \ {"idle"}, m \in Memory : SerialMove(c, to, m)
    <3>1. ASSUME NEW n \in Commands, containers \subseteq {n}, Go(c, "home"), Name(c, n)
          PROVE  \E to \in CommandPc \ {"idle"}, m \in Memory : SerialMove(c, to, m)
      <4> DEFINE m == [mem[c] EXCEPT !.name = n]
      <4>1. Moves(c, "home", m) /\ m \in Memory /\ m.name = n
        BY <3>1, NameMoves
      <4>2. SerialMove(c, "home", m)
        BY <1>b, <1>e, <1>6, <3>1, <4>1 DEF FindContainer, Fail, SerialMove, SerialAt, Boxing, Unboxed, podmanVars, fileVars, homeVars, history
      <4> QED
        BY <4>1, <4>2
    <3>2. CASE Fail(c)
      BY <1>d, <1>e, <1>6, <3>2, EndMoves, BlankHeld DEF FindContainer, Fail, SerialMove, SerialAt, Boxing, Unboxed, podmanVars, fileVars, homeVars, history
    <3> QED
      BY <1>b, <1>6, <3>1, <3>2, OnlyOne DEF FindContainer, GeneratedName
  <2>2. Single'
    BY <1>b, <1>g, <1>6 DEF FindContainer, Single, SerialAt, Boxing, Unboxed, podmanVars, fileVars, homeVars, history
  <2> QED
    BY <1>c, <2>1, <2>2, SerialMoved
<1>7. CASE MakeHome(c)
  <2>1. \E to \in CommandPc \ {"idle"}, m \in Memory : SerialMove(c, to, m)
    BY <1>b, <1>d, <1>e, <1>f, <1>7, GotoMoves, EndMoves, BlankHeld
       DEF MakeHome, Fail, SerialMove, SerialAt, HeldAt, Boxing, Unboxed, podmanVars, fileVars, homeVars, history
  <2>2. Single'
    BY <1>b, <1>g, <1>7 DEF MakeHome, Single, SerialAt, Boxing, Unboxed, podmanVars, fileVars, homeVars, history
  <2> QED
    BY <1>c, <2>1, <2>2, SerialMoved
<1>8. CASE MakePlaceholder(c)
  <2>1. \E to \in CommandPc \ {"idle"}, m \in Memory : SerialMove(c, to, m)
    BY <1>b, <1>d, <1>e, <1>f, <1>8, GotoMoves, EndMoves, BlankHeld
       DEF MakePlaceholder, Fail, SerialMove, SerialAt, HeldAt, Boxing, Unboxed, podmanVars, fileVars, homeVars, history
  <2>2. Single'
    BY <1>b, <1>g, <1>8 DEF MakePlaceholder, Single, SerialAt, Boxing, Unboxed, podmanVars, fileVars, homeVars, history
  <2> QED
    BY <1>c, <2>1, <2>2, SerialMoved
<1>9. CASE LoadSettings(c)
  <2>1. \E to \in CommandPc \ {"idle"}, m \in Memory : SerialMove(c, to, m)
    <3>1. ASSUME NEW t \in LitterboxSettings, NEW next \in {"prompt", "save"},
                 Go(c, next), mem' = [mem EXCEPT ![c].settings = t]
          PROVE  \E to \in CommandPc \ {"idle"}, m \in Memory : SerialMove(c, to, m)
      <4> DEFINE m == [mem[c] EXCEPT !.settings = t]
      <4>1. Moves(c, next, m) /\ m \in Memory /\ m.name = mem[c].name
        BY <1>b, <3>1 DEF Go, Moves, Memory
      <4>2. /\ pc[c] = "settings"
            /\ UNCHANGED <<images, containers, dockerfile, settings, home, spoiled>>
        BY <1>9 DEF LoadSettings, podmanVars, homeVars, history
      <4>3. PICK k \in Memory : k = m
        BY <4>1
      <4>4. SerialMove(c, next, k)
        BY <1>b, <1>e, <4>1, <4>2, <4>3 DEF SerialMove, SerialAt, Boxing, Unboxed
      <4> QED
        BY <4>4
    <3>2. CASE Fail(c)
      BY <1>d, <1>e, <1>9, <3>2, EndMoves, BlankHeld DEF LoadSettings, Fail, SerialMove, SerialAt, Boxing, Unboxed, podmanVars, fileVars, homeVars, history
    <3> QED
      BY <1>9, <3>1, <3>2, DefaultsType DEF LoadSettings
  <2>2. Single'
    BY <1>b, <1>g, <1>9 DEF LoadSettings, Single, SerialAt, Boxing, Unboxed, podmanVars, fileVars, homeVars, history
  <2> QED
    BY <1>c, <2>1, <2>2, SerialMoved
<1>10. CASE PromptSettings(c)
  <2>1. \E to \in CommandPc \ {"idle"}, m \in Memory : SerialMove(c, to, m)
    <3>1. PICK answers \in Answers :
            mem' = [mem EXCEPT ![c].settings = Prompt(mem[c].settings, host, answers)]
      BY <1>10 DEF PromptSettings
    <3> DEFINE t == Prompt(mem[c].settings, host, answers)
               m == [mem[c] EXCEPT !.settings = t]
    <3>2. t \in LitterboxSettings
      BY <1>b, <1>10, PromptType DEF HeldAt, PromptSettings
    <3> HIDE DEF t
    <3>3. Moves(c, "save", m) /\ m \in Memory /\ m.name = mem[c].name
      BY <1>b, <1>10, <3>1, <3>2 DEF PromptSettings, Go, Moves, Memory, t
    <3>4. SerialMove(c, "save", m)
      BY <1>b, <1>e, <1>10, <3>3 DEF PromptSettings, Fail, SerialMove, SerialAt, Boxing, Unboxed, podmanVars, fileVars, homeVars, history
    <3> QED
      BY <3>3, <3>4
  <2>2. Single'
    BY <1>b, <1>g, <1>10 DEF PromptSettings, Single, SerialAt, Boxing, Unboxed, podmanVars, fileVars, homeVars, history
  <2> QED
    BY <1>c, <2>1, <2>2, SerialMoved
<1>11. CASE TruncateSettings(c)
  <2>1. \E to \in CommandPc \ {"idle"}, m \in Memory : SerialMove(c, to, m)
    BY <1>b, <1>d, <1>e, <1>f, <1>11, GotoMoves, EndMoves, BlankHeld
       DEF TruncateSettings, Fail, SerialMove, SerialAt, HeldAt, Boxing, Unboxed, podmanVars, fileVars, homeVars, history
  <2>2. Single'
    BY <1>b, <1>g, <1>11 DEF TruncateSettings, Single, SerialAt, Boxing, Unboxed, podmanVars, fileVars, homeVars, history
  <2> QED
    BY <1>c, <2>1, <2>2, SerialMoved
<1>12. CASE WriteSettings(c)
  <2>1. \E to \in CommandPc \ {"idle"}, m \in Memory : SerialMove(c, to, m)
    <3>1. settings = Empty /\ mem[c].settings \in LitterboxSettings
      BY <1>b, <1>12 DEF WriteSettings, SerialAt, HeldAt
    <3>2. settings' = mem[c].settings /\ settings' \notin Unreadable
      BY <1>f, <1>12, <3>1 DEF WriteSettings, Unreadable
    <3>3. /\ pc[c] = "saving" /\ Moves(c, "lockfile", mem[c])
          /\ UNCHANGED <<images, containers, dockerfile, home>>
      BY <1>12, GotoMoves DEF WriteSettings, podmanVars, homeVars
    <3>4. PICK k \in Memory : k = mem[c]
      BY <1>b
    <3>5. SerialMove(c, "lockfile", k)
      BY <1>b, <3>2, <3>3, <3>4 DEF SerialMove, SerialAt, Boxing, Unboxed
    <3> QED
      BY <3>5
  <2>2. Single'
    BY <1>b, <1>g, <1>12 DEF WriteSettings, Single, SerialAt, Boxing, Unboxed, podmanVars, fileVars, homeVars, history
  <2> QED
    BY <1>c, <2>1, <2>2, SerialMoved
<1>13. CASE MakeLockfile(c)
  <2>1. \E to \in CommandPc \ {"idle"}, m \in Memory : SerialMove(c, to, m)
    BY <1>b, <1>d, <1>e, <1>f, <1>13, GotoMoves, EndMoves, BlankHeld
       DEF MakeLockfile, Fail, SerialMove, SerialAt, HeldAt, Boxing, Unboxed, podmanVars, fileVars, homeVars, history
  <2>2. Single'
    BY <1>b, <1>g, <1>13 DEF MakeLockfile, Single, SerialAt, Boxing, Unboxed, podmanVars, fileVars, homeVars, history
  <2> QED
    BY <1>c, <2>1, <2>2, SerialMoved
<1>14. CASE PodmanCreate(c)
  <2>1. \E to \in CommandPc \ {"idle"}, m \in Memory : SerialMove(c, to, m)
    BY <1>b, <1>d, <1>e, <1>f, <1>14, GotoMoves, EndMoves, BlankHeld
       DEF PodmanCreate, Fail, SerialMove, SerialAt, HeldAt, Boxing, Unboxed, podmanVars, fileVars, homeVars, history
  <2>2. Single'
    BY <1>b, <1>g, <1>14 DEF PodmanCreate, Single, SerialAt, Boxing, Unboxed, podmanVars, fileVars, homeVars, history
  <2> QED
    BY <1>c, <2>1, <2>2, SerialMoved
<1>15. CASE FindDeleted(c)
  <2>1. \E to \in CommandPc \ {"idle"}, m \in Memory : SerialMove(c, to, m)
    <3>1. CASE Unique(containers) /\ Go(c, "rm") /\ Name(c, Only(containers))
      <4> DEFINE m == [mem[c] EXCEPT !.name = Only(containers)]
      <4>1. Only(containers) \in Commands /\ containers = {Only(containers)}
        BY <1>b, <3>1, OnlyOne
      <4>2. Moves(c, "rm", m) /\ m \in Memory /\ m.name = Only(containers)
        BY <3>1, <4>1, NameMoves
      <4>3. SerialMove(c, "rm", m)
        BY <1>b, <1>e, <1>15, <4>1, <4>2 DEF FindDeleted, Fail, SerialMove, SerialAt, Boxing, Unboxed, podmanVars, fileVars, homeVars, history
      <4> QED
        BY <4>2, <4>3
    <3>2. CASE Fail(c) \/ End(c, "kept")
      BY <1>d, <1>e, <1>15, <3>2, EndMoves, BlankHeld DEF FindDeleted, Fail, SerialMove, SerialAt, Boxing, Unboxed, podmanVars, fileVars, homeVars, history
    <3> QED
      BY <1>15, <3>1, <3>2 DEF FindDeleted
  <2>2. Single'
    BY <1>b, <1>g, <1>15 DEF FindDeleted, Single, SerialAt, Boxing, Unboxed, podmanVars, fileVars, homeVars, history
  <2> QED
    BY <1>c, <2>1, <2>2, SerialMoved
<1>16. CASE PodmanRm(c)
  <2>1. \E to \in CommandPc \ {"idle"}, m \in Memory : SerialMove(c, to, m)
    BY <1>b, <1>d, <1>e, <1>f, <1>16, GotoMoves, EndMoves, BlankHeld
       DEF PodmanRm, Fail, SerialMove, SerialAt, HeldAt, Boxing, Unboxed, podmanVars, fileVars, homeVars, history
  <2>2. Single'
    BY <1>b, <1>g, <1>16 DEF PodmanRm, Single, SerialAt, Boxing, Unboxed, podmanVars, fileVars, homeVars, history
  <2> QED
    BY <1>c, <2>1, <2>2, SerialMoved
<1>17. CASE FindDeletedImage(c)
  <2>1. \E to \in CommandPc \ {"idle"}, m \in Memory : SerialMove(c, to, m)
    <3>1. CASE Unique(images) /\ Go(c, "imagerm") /\ Name(c, Only(images))
      <4> DEFINE m == [mem[c] EXCEPT !.name = Only(images)]
      <4>1. Only(images) \in Commands /\ images = {Only(images)}
        BY <1>b, <3>1, OnlyOne
      <4>2. Moves(c, "imagerm", m) /\ m \in Memory /\ m.name = Only(images)
        BY <3>1, <4>1, NameMoves
      <4>3. SerialMove(c, "imagerm", m)
        BY <1>b, <1>e, <1>17, <4>1, <4>2 DEF FindDeletedImage, Fail, SerialMove, SerialAt, Boxing, Unboxed, podmanVars, fileVars, homeVars, history
      <4> QED
        BY <4>2, <4>3
    <3>2. CASE Fail(c)
      BY <1>d, <1>e, <1>17, <3>2, EndMoves, BlankHeld DEF FindDeletedImage, Fail, SerialMove, SerialAt, Boxing, Unboxed, podmanVars, fileVars, homeVars, history
    <3> QED
      BY <1>17, <3>1, <3>2 DEF FindDeletedImage
  <2>2. Single'
    BY <1>b, <1>g, <1>17 DEF FindDeletedImage, Single, SerialAt, Boxing, Unboxed, podmanVars, fileVars, homeVars, history
  <2> QED
    BY <1>c, <2>1, <2>2, SerialMoved
<1>18. CASE PodmanImageRm(c)
  <2>1. \E to \in CommandPc \ {"idle"}, m \in Memory : SerialMove(c, to, m)
    BY <1>b, <1>d, <1>e, <1>f, <1>18, GotoMoves, EndMoves, BlankHeld
       DEF PodmanImageRm, Fail, SerialMove, SerialAt, HeldAt, Boxing, Unboxed, podmanVars, fileVars, homeVars, history
  <2>2. Single'
    BY <1>b, <1>g, <1>18 DEF PodmanImageRm, Single, SerialAt, Boxing, Unboxed, podmanVars, fileVars, homeVars, history
  <2> QED
    BY <1>c, <2>1, <2>2, SerialMoved
<1>19. CASE RemoveHome(c)
  <2>1. \E to \in CommandPc \ {"idle"}, m \in Memory : SerialMove(c, to, m)
    BY <1>b, <1>d, <1>e, <1>f, <1>19, GotoMoves, EndMoves, BlankHeld
       DEF RemoveHome, Fail, SerialMove, SerialAt, HeldAt, Boxing, Unboxed, podmanVars, fileVars, homeVars, history
  <2>2. Single'
    BY <1>b, <1>g, <1>19 DEF RemoveHome, Single, SerialAt, Boxing, Unboxed, podmanVars, fileVars, homeVars, history
  <2> QED
    BY <1>c, <2>1, <2>2, SerialMoved
<1>20. CASE RemoveDockerfile(c)
  <2>1. \E to \in CommandPc \ {"idle"}, m \in Memory : SerialMove(c, to, m)
    BY <1>b, <1>d, <1>e, <1>f, <1>20, GotoMoves, EndMoves, BlankHeld
       DEF RemoveDockerfile, Fail, SerialMove, SerialAt, HeldAt, Boxing, Unboxed, podmanVars, fileVars, homeVars, history
  <2>2. Single'
    BY <1>b, <1>g, <1>20 DEF RemoveDockerfile, Single, SerialAt, Boxing, Unboxed, podmanVars, fileVars, homeVars, history
  <2> QED
    BY <1>c, <2>1, <2>2, SerialMoved
<1>21. CASE RemoveSettings(c)
  <2>1. \E to \in CommandPc \ {"idle"}, m \in Memory : SerialMove(c, to, m)
    BY <1>b, <1>d, <1>e, <1>f, <1>21, GotoMoves, EndMoves, BlankHeld
       DEF RemoveSettings, Fail, SerialMove, SerialAt, HeldAt, Boxing, Unboxed, podmanVars, fileVars, homeVars, history
  <2>2. Single'
    BY <1>b, <1>g, <1>21 DEF RemoveSettings, Single, SerialAt, Boxing, Unboxed, podmanVars, fileVars, homeVars, history
  <2> QED
    BY <1>c, <2>1, <2>2, SerialMoved
<1>22. CASE StatDevice(c)
  <2>1. \E to \in CommandPc \ {"idle"}, m \in Memory : SerialMove(c, to, m)
    <3>1. PICK path \in Paths : mem' = [mem EXCEPT ![c].node = <<path, DevType(path)>>]
      BY <1>22 DEF StatDevice
    <3> DEFINE m == [mem[c] EXCEPT !.node = <<path, DevType(path)>>]
    <3>2. m \in Memory
      BY <1>b DEF Memory, DevType
    <3>3. Moves(c, "mknod", m)
      BY <1>22, <3>1 DEF StatDevice, Go, Moves
    <3>4. SerialMove(c, "mknod", m)
      BY <1>b, <1>e, <1>22, <3>3 DEF StatDevice, Fail, SerialMove, SerialAt, Boxing, Unboxed, podmanVars, fileVars, homeVars, history
    <3> QED
      BY <3>2, <3>4
  <2>2. Single'
    BY <1>b, <1>g, <1>22 DEF StatDevice, Single, SerialAt, Boxing, Unboxed, podmanVars, fileVars, homeVars, history
  <2> QED
    BY <1>c, <2>1, <2>2, SerialMoved
<1>23. CASE Mknod(c)
  <2>1. \E to \in CommandPc \ {"idle"}, m \in Memory : SerialMove(c, to, m)
    BY <1>b, <1>d, <1>e, <1>f, <1>23, GotoMoves, EndMoves, BlankHeld
       DEF Mknod, Fail, SerialMove, SerialAt, HeldAt, Boxing, Unboxed, podmanVars, fileVars, homeVars, history
  <2>2. Single'
    BY <1>b, <1>g, <1>23 DEF Mknod, Single, SerialAt, Boxing, Unboxed, podmanVars, fileVars, homeVars, history
  <2> QED
    BY <1>c, <2>1, <2>2, SerialMoved
<1>24. CASE StepFails(c)
  <2>1. \E to \in CommandPc \ {"idle"}, m \in Memory : SerialMove(c, to, m)
    BY <1>b, <1>d, <1>e, <1>f, <1>24, GotoMoves, EndMoves, BlankHeld
       DEF StepFails, LeaveDockerfile, Fail, SerialMove, SerialAt, HeldAt, Boxing, Unboxed, podmanVars, fileVars, homeVars, history
  <2>2. Single'
    BY <1>b, <1>g, <1>24 DEF StepFails, LeaveDockerfile, NoDefinition, Single, SerialAt, Boxing, Unboxed, podmanVars, fileVars, homeVars, history
  <2> QED
    BY <1>c, <2>1, <2>2, SerialMoved
<1>25. CASE Killed(c)
  <2>1. \E to \in CommandPc \ {"idle"}, m \in Memory : SerialMove(c, to, m)
    BY <1>b, <1>d, <1>e, <1>f, <1>25, GotoMoves, EndMoves, BlankHeld
       DEF Killed, LeaveDockerfile, Fail, SerialMove, SerialAt, HeldAt, Boxing, Unboxed, podmanVars, fileVars, homeVars, history
  <2>2. Single'
    BY <1>b, <1>g, <1>25 DEF Killed, LeaveDockerfile, NoDefinition, Single, SerialAt, Boxing, Unboxed, podmanVars, fileVars, homeVars, history
  <2> QED
    BY <1>c, <2>1, <2>2, SerialMoved
<1> QED
  BY <1>1, <1>2, <1>3, <1>4, <1>5, <1>6, <1>7, <1>8, <1>9, <1>10, <1>11, <1>12, <1>13, <1>14, <1>15, <1>16, <1>17, <1>18, <1>19, <1>20, <1>21, <1>22, <1>23, <1>24, <1>25, <1>26 DEF CommandStep

LEMMA NextSerial == ASSUME TypeInv, SerialInv, [Next]_vars PROVE SerialInv'
<1>1. ASSUME NEW c \in Commands, Start(c) \/ CommandStep(c)
      PROVE  SerialInv'
  BY <1>1, StartSerial, CommandSerial
<1>2. ASSUME UNCHANGED <<pc, mem, images, containers, dockerfile, settings, home, history>>
      PROVE  SerialInv'
  BY <1>2 DEF SerialInv, Serial, Single, Alone, Unspoiled, SerialAt, InFlight, history
<1>3. CASE SessionsBegin \/ SessionsEnd \/ HostChanges \/ UNCHANGED vars
  BY <1>2, <1>3 DEF SessionsBegin, SessionsEnd, HostChanges, vars, podmanVars, fileVars, homeVars
<1> QED
  BY <1>1, <1>3 DEF Next

LEMMA InitSerial == ASSUME Init PROVE SerialInv
  BY NoSettings DEF Init, SerialInv, Serial, Single, Alone, Unspoiled, SerialAt, InFlight, Boxing, Unboxed

LEMMA SerialCorrect == Spec => [](TypeInv /\ SerialInv)
  BY InitTyped, NextTyped, InitSerial, NextSerial, PTL DEF Spec

\* Commands that do not overlap make one image and one container at most, for
\* any number of commands, wherever each fails or is killed.
THEOREM OneOfEachCorrect == Spec => []OneOfEach
<1>1. TypeInv /\ SerialInv => OneOfEach
  BY AtMostOne DEF TypeInv, TypeOK, SerialInv, Serial, Single, OneOfEach
<1> QED
  BY <1>1, SerialCorrect, PTL

\* settings.rs:119, a settings file that does not parse is being written, or
\* comes of a command that ended in the middle or of two that overlapped.
THEOREM SettingsAreReadable == Spec => []SettingsReadable
<1>1. SerialInv => SettingsReadable
  BY DEF SerialInv, Serial, Unspoiled, SettingsReadable
<1> QED
  BY <1>1, SerialCorrect, PTL

-----------------------------------------------------------------------------
\* Sessions run a container that there is.

RunsThere == running \in containers \cup {None}

LEMMA NextRuns == ASSUME TypeInv, RunsThere, [Next]_vars PROVE RunsThere'
<1> USE DEF RunsThere, vars, podmanVars, fileVars, homeVars, history
<1>1. ASSUME NEW c \in Commands, CommandStep(c)
      PROVE  RunsThere'
  <2>1. CASE PodmanCreate(c)
    BY <2>1 DEF PodmanCreate
  <2>2. CASE PodmanRm(c)
    BY <2>2 DEF PodmanRm
  <2>3. CASE PodmanImageRm(c) \/ PodmanBuild(c)
    BY <2>3 DEF PodmanImageRm, PodmanBuild
  <2>4. CASE DefineCheck(c) \/ DefineTruncate(c) \/ DefineWrite(c) \/ FindImage(c)
             \/ FindBuiltImage(c) \/ FindContainer(c) \/ MakeHome(c) \/ MakePlaceholder(c)
    BY <2>4 DEF DefineCheck, DefineTruncate, DefineWrite, FindImage, FindBuiltImage, FindContainer,
                MakeHome, MakePlaceholder
  <2>5. CASE LoadSettings(c) \/ PromptSettings(c) \/ TruncateSettings(c) \/ WriteSettings(c)
             \/ MakeLockfile(c) \/ StatDevice(c) \/ Mknod(c) \/ StepFails(c) \/ Killed(c)
    BY <2>5 DEF LoadSettings, PromptSettings, TruncateSettings, WriteSettings, MakeLockfile,
                StatDevice, Mknod, StepFails, Killed
  <2>6. CASE FindDeleted(c) \/ FindDeletedImage(c) \/ RemoveHome(c)
             \/ RemoveDockerfile(c) \/ RemoveSettings(c)
    BY <2>6 DEF FindDeleted, FindDeletedImage, RemoveHome, RemoveDockerfile, RemoveSettings
  <2> QED
    BY <1>1, <2>1, <2>2, <2>3, <2>4, <2>5, <2>6 DEF CommandStep
<1>2. CASE SessionsBegin
  BY <1>2, OnlyOne DEF SessionsBegin, TypeInv, TypeOK
<1> QED
  BY <1>1, <1>2 DEF Next, Start, SessionsEnd, HostChanges

\* podman.rs:326, while sessions run only a build whose user agreed to replace
\* their container has begun to change its files, and no delete has got past
\* podman rm.
THEOREM SessionsAreRespected == Spec => []SessionsRespected
<1>1. Init => RunsThere
  BY DEF Init, RunsThere
<1>2. SerialInv /\ RunsThere => SessionsRespected
  <2> SUFFICES ASSUME Serial, RunsThere, running # None, NEW c \in Commands
               PROVE  /\ pc[c] \in Boxing => mem[c].name = running
                      /\ pc[c] \notin Unboxed
    BY DEF SerialInv, SessionsRespected, BoxPc, DeletePc, Boxing, Unboxed
  <2>1. SerialAt(pc[c], mem[c]) /\ running \in containers
    BY DEF Serial, RunsThere
  <2> QED
    BY <2>1 DEF SerialAt
<1> QED
  BY <1>1, <1>2, NextRuns, SerialCorrect, PTL DEF Spec

-----------------------------------------------------------------------------
\* Where the commands' reports come from.

LEMMA Reports ==
  ASSUME TypeInv, NEW c \in Commands, CommandStep(c)
  PROVE  /\ \A d \in Commands \ {c} : pc'[d] = pc[d]
         /\ Ends(c, "built") => PodmanCreate(c)
         /\ Ends(c, "deleted") => RemoveDockerfile(c) \/ RemoveSettings(c)
         /\ Ends(c, "kept") => FindDeleted(c)
         /\ UNCHANGED overlapped
<1> DEFINE Report(to) ==
      /\ pc' = [pc EXCEPT ![c] = to]
      /\ to = "built" => PodmanCreate(c)
      /\ to = "deleted" => RemoveDockerfile(c) \/ RemoveSettings(c)
      /\ to = "kept" => FindDeleted(c)
<1> USE DEF Goto, Go, End, Fail, history
<1>1. CASE DefineCheck(c) \/ DefineTruncate(c) \/ DefineWrite(c) \/ FindImage(c)
              \/ PodmanBuild(c) \/ FindBuiltImage(c) \/ FindContainer(c) \/ MakeHome(c)
  <2>1. UNCHANGED overlapped
    BY <1>1 DEF DefineCheck, DefineTruncate, DefineWrite, FindImage, PodmanBuild, FindBuiltImage, FindContainer, MakeHome
  <2>2. \E to : Report(to)
    BY <1>1 DEF DefineCheck, DefineTruncate, DefineWrite, FindImage, PodmanBuild, FindBuiltImage, FindContainer, MakeHome
  <2> QED
    BY <2>1, <2>2 DEF Ends, TypeInv, TypeOK
<1>2. CASE MakePlaceholder(c) \/ LoadSettings(c) \/ PromptSettings(c)
              \/ TruncateSettings(c) \/ WriteSettings(c) \/ MakeLockfile(c) \/ PodmanCreate(c)
  <2>1. UNCHANGED overlapped
    BY <1>2 DEF MakePlaceholder, LoadSettings, PromptSettings, TruncateSettings, WriteSettings, MakeLockfile, PodmanCreate
  <2>2. \E to : Report(to)
    BY <1>2 DEF MakePlaceholder, LoadSettings, PromptSettings, TruncateSettings, WriteSettings, MakeLockfile, PodmanCreate
  <2> QED
    BY <2>1, <2>2 DEF Ends, TypeInv, TypeOK
<1>3. CASE FindDeleted(c) \/ PodmanRm(c) \/ FindDeletedImage(c)
              \/ PodmanImageRm(c) \/ RemoveHome(c)
  <2>1. UNCHANGED overlapped
    BY <1>3 DEF FindDeleted, PodmanRm, FindDeletedImage, PodmanImageRm, RemoveHome
  <2>2. \E to : Report(to)
    BY <1>3 DEF FindDeleted, PodmanRm, FindDeletedImage, PodmanImageRm, RemoveHome
  <2> QED
    BY <2>1, <2>2 DEF Ends, TypeInv, TypeOK
<1>4. CASE RemoveDockerfile(c) \/ RemoveSettings(c) \/ StatDevice(c)
              \/ Mknod(c) \/ StepFails(c) \/ Killed(c)
  <2>1. UNCHANGED overlapped
    BY <1>4 DEF RemoveDockerfile, RemoveSettings, StatDevice, Mknod, StepFails, Killed
  <2>2. \E to : Report(to)
    BY <1>4 DEF RemoveDockerfile, RemoveSettings, StatDevice, Mknod, StepFails, Killed
  <2> QED
    BY <2>1, <2>2 DEF Ends, TypeInv, TypeOK
<1> QED
  BY <1>1, <1>2, <1>3, <1>4 DEF CommandStep

LEMMA StartReports ==
  ASSUME TypeInv, NEW c \in Commands, Start(c), NEW d \in Commands
  PROVE  pc'[d] = pc[d] \/ pc'[d] \in {"define", "image", "delete", "attach"}
  BY DEF Start, Goto, TypeInv, TypeOK

LEMMA WhoReports ==
  ASSUME TypeInv, [Next]_vars, NEW c \in Commands, NEW end \in {"built", "deleted", "kept"}, Ends(c, end)
  PROVE  /\ UNCHANGED overlapped
         /\ end = "built" => PodmanCreate(c)
         /\ end = "deleted" => RemoveDockerfile(c) \/ RemoveSettings(c)
         /\ end = "kept" => FindDeleted(c)
<1>1. ASSUME NEW d \in Commands, CommandStep(d) PROVE d = c /\ CommandStep(c)
  BY <1>1, Reports DEF Ends
<1>2. ASSUME NEW d \in Commands, Start(d) PROVE FALSE
  BY <1>2, StartReports DEF Ends
<1>3. CASE SessionsBegin \/ SessionsEnd \/ HostChanges \/ UNCHANGED vars
  BY <1>3 DEF SessionsBegin, SessionsEnd, HostChanges, vars, Ends
<1> QED
  BY <1>1, <1>2, <1>3, Reports DEF Next

\* A build that reports success leaves one image, one container that is what
\* the settings file says on this host, the home and the Dockerfile.
THEOREM BuildsDeliver == Spec => BuildDelivers
<1> DEFINE Delivered(c) ==
      /\ Unique(images') /\ Unique(containers') /\ home' # "none"
      /\ dockerfile' \notin NoDefinition
      /\ settings' \in LitterboxSettings /\ options' = PodmanArgs(settings', host')
<1>1. ASSUME TypeInv, SerialInv, [Next]_vars, NEW c \in Commands, Ends(c, "built"), ~overlapped
      PROVE  Delivered(c)
  <2>1. PodmanCreate(c)
    BY <1>1, WhoReports
  <2>2. /\ Single /\ SerialAt("create", mem[c]) /\ HeldAt("create", mem[c])
        /\ images \in SUBSET Commands
    BY <1>1, <2>1 DEF SerialInv, Serial, TypeInv, TypeOK, Held, PodmanCreate
  <2>3. /\ pc' # [pc EXCEPT ![c] = "failed"]
        /\ containers' = containers \cup {mem[c].name}
        /\ options' = PodmanArgs(mem[c].settings, host)
        /\ UNCHANGED <<images, dockerfile, settings, home, host>>
    BY <1>1, <2>1 DEF PodmanCreate, Fail, End, Go, Ends, TypeInv, TypeOK, homeVars
  <2>4. /\ images # {} /\ containers \subseteq {mem[c].name} /\ home # "none"
        /\ settings = mem[c].settings /\ settings \in LitterboxSettings
    BY <2>2 DEF SerialAt, HeldAt, Boxing
  <2>5. Unique(images)
    <3>0. \A n, o \in images : n = o
      BY <2>2 DEF Single
    <3>a. PICK n \in images : TRUE
      BY <2>4
    <3>1. images = {n}
      BY <3>0, <3>a
    <3> QED
      BY <3>1, OneIsUnique
  <2>6. containers' = {mem[c].name}
    BY <2>3, <2>4
  <2>7. Unique(containers')
    BY <2>6, OneIsUnique
  <2>8. dockerfile \notin NoDefinition
    BY <2>2, <2>4 DEF Single
  <2> QED
    BY <2>3, <2>4, <2>5, <2>7, <2>8 DEF Unique
<1>2. TypeInv /\ SerialInv /\ [Next]_vars =>
        [\A c \in Commands : Ends(c, "built") /\ ~overlapped => Delivered(c)]_vars
  BY <1>1
<1> QED
  BY <1>2, SerialCorrect, PTL DEF Spec, BuildDelivers

\* podman.rs:503, a delete that ends without an error leaves neither an image
\* nor a container, or all as it was, if the user did not say yes.
THEOREM DeletesDeliver == Spec => DeleteDelivers
<1>1. ASSUME TypeInv, SerialInv, [Next]_vars, NEW c \in Commands, Ends(c, "deleted"), ~overlapped
      PROVE  images' = {} /\ containers' = {}
  <2>1. RemoveDockerfile(c) \/ RemoveSettings(c)
    BY <1>1, WhoReports
  <2>2. SerialAt(pc[c], mem[c]) /\ pc[c] \in {"rmdefinition", "rmsettings"}
    BY <1>1, <2>1 DEF SerialInv, Serial, RemoveDockerfile, RemoveSettings
  <2>3. images = {} /\ containers = {}
    BY <2>2 DEF SerialAt, Unboxed
  <2> QED
    BY <2>1, <2>3 DEF RemoveDockerfile, RemoveSettings, podmanVars
<1>2. ASSUME TypeInv, [Next]_vars, NEW c \in Commands, Ends(c, "kept")
      PROVE  UNCHANGED <<podmanVars, fileVars>>
  BY <1>2, WhoReports DEF FindDeleted
<1>3. TypeInv /\ SerialInv /\ [Next]_vars =>
        [\A c \in Commands : ~overlapped =>
           /\ Ends(c, "deleted") => images' = {} /\ containers' = {}
           /\ Ends(c, "kept") => UNCHANGED <<podmanVars, fileVars>>]_vars
  BY <1>1, <1>2
<1> QED
  BY <1>3, SerialCorrect, PTL DEF Spec, DeleteDelivers

\* podman.rs:207, a Dockerfile is not overwritten by commands that do not
\* overlap.
THEOREM DefinitionIsKept == Spec => DefinitionKept
<1>1. ASSUME TypeInv, SerialInv, [Next]_vars, ~overlapped, dockerfile \notin NoDefinition
      PROVE  dockerfile' \in {dockerfile, None}
  <2> USE DEF fileVars
  <2>1. ASSUME NEW c \in Commands, CommandStep(c)
        PROVE  dockerfile' \in {dockerfile, None}
    <3>1. SerialAt(pc[c], mem[c])
      BY <1>1 DEF SerialInv, Serial
    <3>2. ~DefineTruncate(c) /\ ~DefineWrite(c)
      BY <1>1, <3>1 DEF SerialAt, DefineTruncate, DefineWrite, NoDefinition
    <3>3. CASE DefineCheck(c) \/ FindImage(c) \/ PodmanBuild(c)
                  \/ FindBuiltImage(c) \/ FindContainer(c) \/ MakeHome(c)
      BY <3>3 DEF DefineCheck, FindImage, PodmanBuild, FindBuiltImage, FindContainer, MakeHome
    <3>4. CASE MakePlaceholder(c) \/ LoadSettings(c) \/ PromptSettings(c)
                  \/ TruncateSettings(c) \/ WriteSettings(c) \/ MakeLockfile(c) \/ PodmanCreate(c)
      BY <3>4 DEF MakePlaceholder, LoadSettings, PromptSettings, TruncateSettings, WriteSettings, MakeLockfile, PodmanCreate
    <3>5. CASE FindDeleted(c) \/ PodmanRm(c) \/ FindDeletedImage(c)
                  \/ PodmanImageRm(c) \/ RemoveHome(c)
      BY <3>5 DEF FindDeleted, PodmanRm, FindDeletedImage, PodmanImageRm, RemoveHome
    <3>6. CASE RemoveDockerfile(c) \/ RemoveSettings(c) \/ StatDevice(c) \/ Mknod(c)
      BY <3>6 DEF RemoveDockerfile, RemoveSettings, StatDevice, Mknod
    <3>7. CASE StepFails(c) \/ Killed(c)
      <4>1. pc[c] \notin {"defining", "builddefining"}
        BY <1>1, <3>1 DEF SerialAt, NoDefinition
      <4> QED
        BY <3>7, <4>1 DEF StepFails, Killed, LeaveDockerfile
    <3> QED
      BY <2>1, <3>2, <3>3, <3>4, <3>5, <3>6, <3>7 DEF CommandStep
  <2>2. CASE \E c \in Commands : Start(c)
    BY <2>2 DEF Start
  <2>3. CASE SessionsBegin \/ SessionsEnd \/ HostChanges \/ UNCHANGED vars
    BY <2>3 DEF SessionsBegin, SessionsEnd, HostChanges, vars
  <2> QED
    BY <1>1, <2>1, <2>2, <2>3 DEF Next
<1>2. TypeInv /\ SerialInv /\ [Next]_vars =>
        [~overlapped /\ dockerfile \notin NoDefinition => dockerfile' \in {dockerfile, None}]_vars
  BY <1>1
<1> QED
  BY <1>2, SerialCorrect, PTL DEF Spec, DefinitionKept

-----------------------------------------------------------------------------
\* The Litterbox in stages.

ImageNow == TheOnly(images)
BoxNow   == TheOnly(containers)
PhaseNow == [c \in Commands |-> StageOf(pc[c])]

LEMMA TheOnlyIs ==
  ASSUME NEW things \in SUBSET Commands, \A t, u \in things : t = u
  PROVE  \/ things = {} /\ TheOnly(things) = None
         \/ \E n \in Commands : n # None /\ things = {n} /\ TheOnly(things) = n
<1>1. CASE things = {}
  BY <1>1, FS_EmptySet DEF TheOnly, Unique
<1>2. CASE things # {}
  <2>1. PICK n \in Commands : things = {n}
    BY <1>2
  <2>2. Unique(things)
    BY <2>1, OneIsUnique
  <2>3. Only(things) = n
    BY <2>1, <2>2, OnlyOne
  <2> QED BY <2>1, <2>2, <2>3, CommandsAssumption DEF TheOnly
<1> QED BY <1>1, <1>2

LEMMA StageOfPlaces ==
  /\ \A at \in {"define", "template"} : StageOf(at) = "define"
  /\ \A at \in (ImagePc \ {"builddefining"}) \cup BoxPc : StageOf(at) = "build"
  /\ \A at \in {"delete", "rm"} : StageOf(at) = "delete"
  /\ \A at \in {"finddeleted", "imagerm"} : StageOf(at) = "unboxed"
  /\ \A at \in {"rmhome", "rmdefinition", "rmsettings"} : StageOf(at) = "unimaged"
  /\ \A at \in DevicePc : StageOf(at) = "device"
  /\ \A at \in EndPc \ {"failed", "kept"} : StageOf(at) = "done"
  /\ \A at \in {"idle", "defining", "builddefining", "kept", "failed"} : StageOf(at) = at
  BY DEF StageOf, DefinePc, ImagePc, BoxPc, DevicePc, EndPc

\* Every place of a command in flight is in a stage in which it may fail.
LEMMA StagesInFlight ==
  ASSUME NEW at \in CommandPc
  PROVE  IF at \in EndPc \cup {"idle"} THEN StageOf(at) \in Staged!Idle
           ELSE StageOf(at) \in Staged!Steps
  BY StageOfPlaces
     DEF Staged!Idle, Staged!Steps, Staged!Tasks, CommandPc, DefinePc, ImagePc, BoxPc, DeletePc, DevicePc, EndPc

LEMMA PhaseGoes ==
  ASSUME TypeInv, NEW c \in Commands, NEW to, Go(c, to), UNCHANGED overlapped
  PROVE  /\ Staged!Become(c, StageOf(pc[c]), StageOf(to))
         /\ StageOf(to) = StageOf(pc[c]) => PhaseNow' = PhaseNow
<1>1. PhaseNow' = [PhaseNow EXCEPT ![c] = StageOf(to)]
  BY DEF Go, PhaseNow, TypeInv, TypeOK
<1>2. PhaseNow[c] = StageOf(pc[c])
  BY DEF PhaseNow
<1>3. StageOf(to) = StageOf(pc[c]) => PhaseNow' = PhaseNow
  BY <1>1, <1>2 DEF PhaseNow
<1> QED BY <1>1, <1>2, <1>3 DEF Staged!Become, PhaseNow

\* What a Litterbox is, and whether there is a home and a session.
ThingsStay ==
  /\ UNCHANGED <<dockerfile, images, containers>>
  /\ (home' # "none") = (home # "none")
  /\ (running' # None) = (running # None)

LEMMA HiddenStep ==
  ASSUME TypeInv, NEW c \in Commands, NEW to, Go(c, to), StageOf(to) = StageOf(pc[c]),
         UNCHANGED overlapped, ThingsStay
  PROVE  UNCHANGED Staged!vars
<1>1. PhaseNow' = PhaseNow
  BY PhaseGoes
<1>2. ImageNow' = ImageNow /\ BoxNow' = BoxNow
  BY DEF ThingsStay, ImageNow, BoxNow
<1> QED BY <1>1, <1>2 DEF ThingsStay, Staged!vars, Staged!things, PhaseNow, ImageNow, BoxNow

LEMMA FailedStep ==
  ASSUME TypeInv, NEW c \in Commands, InFlight(c), Go(c, "failed"), UNCHANGED overlapped, ThingsStay
  PROVE  Staged!Fail(c)
<1>1. ImageNow' = ImageNow /\ BoxNow' = BoxNow
  BY DEF ThingsStay, ImageNow, BoxNow
<1>2. StageOf(pc[c]) \in Staged!Steps
  BY StagesInFlight DEF InFlight, TypeInv, TypeOK
<1>3. Staged!Become(c, StageOf(pc[c]), "failed")
  BY PhaseGoes, StageOfPlaces
<1> QED BY <1>1, <1>2, <1>3 DEF ThingsStay, Staged!Fail, Staged!things, ImageNow, BoxNow

LEMMA DeclinedStep ==
  ASSUME TypeInv, NEW c \in Commands, pc[c] = "delete", Go(c, "kept"), UNCHANGED overlapped, ThingsStay
  PROVE  Staged!Decline(c)
<1>1. ImageNow' = ImageNow /\ BoxNow' = BoxNow
  BY DEF ThingsStay, ImageNow, BoxNow
<1>2. Staged!Become(c, "delete", "kept")
  BY PhaseGoes, StageOfPlaces
<1> QED BY <1>1, <1>2 DEF ThingsStay, Staged!Decline, Staged!things, ImageNow, BoxNow

LEMMA EndedStep ==
  ASSUME TypeInv, NEW c \in Commands, NEW to \in {"deleted", "attached"}, Go(c, to),
         StageOf(pc[c]) \in {"unimaged", "device"}, UNCHANGED overlapped, ThingsStay
  PROVE  Staged!End(c)
<1>1. ImageNow' = ImageNow /\ BoxNow' = BoxNow
  BY DEF ThingsStay, ImageNow, BoxNow
<1>2. Staged!Become(c, StageOf(pc[c]), "done")
  BY PhaseGoes, StageOfPlaces DEF EndPc
<1> QED BY <1>1, <1>2 DEF ThingsStay, Staged!End, Staged!things, ImageNow, BoxNow

StagedStep(c) ==
  \/ Staged!Begin(c) \/ Staged!BeginDefinition(c) \/ Staged!Define(c) \/ Staged!CutDefinition(c)
  \/ Staged!MakeImage(c) \/ Staged!MakeHome(c)
  \/ Staged!Deliver(c) \/ Staged!Lose(c) \/ Staged!Decline(c) \/ Staged!RemoveBox(c) \/ Staged!RemoveImage(c)
  \/ Staged!RemoveRest(c) \/ Staged!End(c) \/ Staged!Fail(c)
  \/ UNCHANGED Staged!vars

\* The steps that only look, ask or write files which are in no stage.
LEMMA LooksAreHidden ==
  ASSUME TypeInv, NEW c \in Commands,
         \/ DefineCheck(c) \/ FindImage(c) \/ FindBuiltImage(c) \/ FindContainer(c)
         \/ MakePlaceholder(c) \/ LoadSettings(c) \/ PromptSettings(c) \/ TruncateSettings(c)
         \/ WriteSettings(c) \/ MakeLockfile(c) \/ FindDeleted(c) \/ FindDeletedImage(c)
         \/ (StepFails(c) \/ Killed(c)) /\ UNCHANGED dockerfile
  PROVE  StagedStep(c)
<1> DEFINE Defining == {"define", "template"}
           Building == (ImagePc \ {"builddefining"}) \cup BoxPc
<1> USE DEF Goto, End, Fail, Go, history, podmanVars, fileVars, homeVars
<1>1. UNCHANGED overlapped /\ ThingsStay /\ InFlight(c)
  BY DEF ThingsStay, InFlight, EndPc, DefineCheck, FindImage, FindBuiltImage, FindContainer,
     MakePlaceholder, LoadSettings, PromptSettings, TruncateSettings, WriteSettings, MakeLockfile,
     FindDeleted, FindDeletedImage, StepFails, Killed
<1>2. \/ Go(c, "failed")
      \/ \E to \in Defining : pc[c] \in Defining /\ Go(c, to)
      \/ \E to \in Building : pc[c] \in Building /\ Go(c, to)
      \/ pc[c] = "delete" /\ (Go(c, "rm") \/ Go(c, "kept"))
      \/ pc[c] = "finddeleted" /\ Go(c, "imagerm")
  <2> USE DEF DefinePc, ImagePc, BoxPc
  <2>1. CASE DefineCheck(c) \/ FindImage(c) \/ FindBuiltImage(c) \/ FindContainer(c)
    BY <2>1 DEF DefineCheck, FindImage, FindBuiltImage, FindContainer
  <2>2. CASE MakePlaceholder(c) \/ LoadSettings(c) \/ PromptSettings(c) \/ TruncateSettings(c)
             \/ WriteSettings(c) \/ MakeLockfile(c)
    BY <2>2 DEF MakePlaceholder, LoadSettings, PromptSettings, TruncateSettings, WriteSettings, MakeLockfile
  <2>3. CASE FindDeleted(c) \/ FindDeletedImage(c) \/ StepFails(c) \/ Killed(c)
    BY <2>3 DEF FindDeleted, FindDeletedImage, StepFails, Killed
  <2> QED BY <2>1, <2>2, <2>3
<1> HIDE DEF Go
<1>3. CASE Go(c, "failed")
  BY <1>1, <1>3, FailedStep DEF StagedStep
<1>4. CASE \E to : Go(c, to) /\ StageOf(to) = StageOf(pc[c])
  BY <1>1, <1>4, HiddenStep DEF StagedStep
<1>5. CASE pc[c] = "delete" /\ Go(c, "kept")
  BY <1>1, <1>5, DeclinedStep DEF StagedStep
<1> QED BY <1>2, <1>3, <1>4, <1>5, StageOfPlaces

\* What commands that do not overlap find.
LEMMA SerialFacts ==
  ASSUME TypeInv, Serial, RunsThere, NEW c \in Commands
  PROVE  /\ SerialAt(pc[c], mem[c]) /\ HeldAt(pc[c], mem[c]) /\ mem[c] \in Memory
         /\ \/ images = {} /\ ImageNow = None
            \/ \E n \in Commands : n # None /\ images = {n} /\ ImageNow = n
         /\ \/ containers = {} /\ BoxNow = None /\ running = None
            \/ \E n \in Commands : n # None /\ containers = {n} /\ BoxNow = n /\ running \in {n, None}
<1>1. images \in SUBSET Commands /\ containers \in SUBSET Commands
  BY DEF TypeInv, TypeOK
<1>2. (\A t, u \in images : t = u) /\ (\A t, u \in containers : t = u)
  BY DEF Serial, Single
<1> QED BY <1>1, <1>2, TheOnlyIs DEF ImageNow, BoxNow, RunsThere, Serial, TypeInv, TypeOK, Held

LEMMA MakesStages ==
  ASSUME TypeInv, Serial, RunsThere, NEW c \in Commands,
         \/ DefineTruncate(c) \/ DefineWrite(c)
         \/ (StepFails(c) \/ Killed(c)) /\ dockerfile' # dockerfile
         \/ PodmanBuild(c) \/ MakeHome(c) \/ PodmanCreate(c) \/ StatDevice(c)
  PROVE  StagedStep(c)
<1> USE DEF history, podmanVars, fileVars, homeVars, StagedStep
<1>0. /\ SerialAt(pc[c], mem[c]) /\ HeldAt(pc[c], mem[c]) /\ mem[c] \in Memory
      /\ \/ images = {} /\ ImageNow = None
         \/ \E n \in Commands : n # None /\ images = {n} /\ ImageNow = n
      /\ \/ containers = {} /\ BoxNow = None /\ running = None
         \/ \E n \in Commands : n # None /\ containers = {n} /\ BoxNow = n /\ running \in {n, None}
  BY SerialFacts
<1>6. CASE DefineTruncate(c)
  <2>1. dockerfile = None /\ dockerfile' = Empty /\ UNCHANGED <<images, containers, home, running, overlapped>>
    BY <1>0, <1>6 DEF DefineTruncate, SerialAt
  <2>2. Staged!Become(c, "define", "defining") \/ Staged!Become(c, "build", "builddefining")
    <3>1. CASE pc[c] = "template" /\ Go(c, "defining")
      BY <2>1, <3>1, PhaseGoes, StageOfPlaces
    <3>2. CASE pc[c] = "buildtemplate" /\ Go(c, "builddefining")
      BY <2>1, <3>2, PhaseGoes, StageOfPlaces DEF ImagePc
    <3> QED BY <1>6, <3>1, <3>2 DEF DefineTruncate, Goto, Go
  <2> QED BY <2>1, <2>2 DEF Staged!BeginDefinition, ImageNow, BoxNow
<1>7. CASE (StepFails(c) \/ Killed(c)) /\ dockerfile' # dockerfile
  <2>1. /\ pc[c] \in {"defining", "builddefining"} /\ dockerfile' = Torn /\ Go(c, "failed")
        /\ UNCHANGED <<images, containers, home, running, overlapped>>
    BY <1>7 DEF StepFails, Killed, LeaveDockerfile, Fail, End
  <2>2. dockerfile = Empty
    BY <1>0, <2>1 DEF SerialAt
  <2>3. Staged!Become(c, "defining", "failed") \/ Staged!Become(c, "builddefining", "failed")
    BY <2>1, PhaseGoes, StageOfPlaces
  <2> QED BY <2>1, <2>2, <2>3 DEF Staged!CutDefinition, ImageNow, BoxNow
<1>1. CASE DefineWrite(c)
  <2>1. dockerfile = Empty /\ dockerfile' = c /\ UNCHANGED <<images, containers, home, running, overlapped>>
    <3>1. dockerfile = Empty
      BY <1>0, <1>1 DEF DefineWrite, SerialAt
    <3>2. Empty # None
      BY NoSettings DEF Unreadable
    <3> QED BY <1>1, <3>1, <3>2 DEF DefineWrite
  <2>2. Staged!Become(c, "defining", "done") \/ Staged!Become(c, "builddefining", "build")
    <3>1. CASE pc[c] = "defining"
      BY <1>1, <2>1, <3>1, PhaseGoes, StageOfPlaces DEF DefineWrite, End, EndPc
    <3>2. CASE pc[c] = "builddefining"
      <4>1. Go(c, "podmanbuild")
        BY <1>1, <3>2 DEF DefineWrite, Goto, Go
      <4> QED BY <2>1, <3>2, <4>1, PhaseGoes, StageOfPlaces DEF ImagePc
    <3> QED BY <1>1, <3>1, <3>2 DEF DefineWrite
  <2> QED BY <2>1, <2>2 DEF Staged!Define, ImageNow, BoxNow
<1>2. CASE PodmanBuild(c)
  <2>1. /\ pc[c] = "podmanbuild" /\ Go(c, "findimage") /\ images' = images \cup {mem[c].name}
        /\ UNCHANGED <<dockerfile, containers, home, running, overlapped>>
    BY <1>2 DEF PodmanBuild, Goto, Go
  <2>2. dockerfile \notin {None, Empty} /\ images \subseteq {mem[c].name} /\ mem[c].name \in Commands
    BY <1>0, <1>2, <2>1 DEF SerialAt, HeldAt, PodmanBuild, NoDefinition
  <2>3. Staged!Become(c, "build", "build") /\ StageOf("findimage") = StageOf(pc[c])
    BY <2>1, PhaseGoes, StageOfPlaces DEF ImagePc, BoxPc
  <2>4. CASE images = {}
    <3>1. images' = {mem[c].name}
      BY <2>1, <2>4
    <3>2. ImageNow' # None
      <4>1. \A n \in Commands : TheOnly({n}) = n
        BY TheOnlyIs
      <4> QED BY <2>2, <3>1, <4>1, CommandsAssumption DEF ImageNow
    <3> QED BY <1>0, <2>1, <2>2, <2>3, <2>4, <3>2 DEF Staged!MakeImage, ImageNow, BoxNow
  <2>5. CASE images # {}
    <3>1. images' = images
      BY <2>1, <2>2, <2>5
    <3> QED BY <2>1, <2>3, <3>1, HiddenStep DEF ThingsStay
  <2> QED BY <2>4, <2>5
<1>3. CASE MakeHome(c)
  <2>1. /\ pc[c] = "home" /\ Go(c, "sock") /\ home' # "none"
        /\ UNCHANGED <<dockerfile, images, containers, running, overlapped>>
    BY <1>3 DEF MakeHome, Goto, Go
  <2>2. Staged!Become(c, "build", "build")
    BY <2>1, PhaseGoes, StageOfPlaces DEF BoxPc
  <2> QED BY <2>1, <2>2 DEF Staged!MakeHome
<1>4. CASE StatDevice(c)
  <2>1. /\ pc[c] = "attach" /\ Go(c, "mknod") /\ home' # "none"
        /\ UNCHANGED <<dockerfile, images, containers, running, overlapped>>
    BY <1>4 DEF StatDevice
  <2>2. Staged!Become(c, "device", "device")
    BY <2>1, PhaseGoes, StageOfPlaces DEF DevicePc
  <2> QED BY <2>1, <2>2 DEF Staged!MakeHome
<1>5. CASE PodmanCreate(c)
  <2>1. /\ pc[c] = "create" /\ UNCHANGED <<dockerfile, images, home, overlapped>>
        /\ running' = IF running = mem[c].name THEN None ELSE running
        /\ \/ images # {} /\ home # "none" /\ containers' = containers \cup {mem[c].name} /\ Go(c, "built")
           \/ containers' = containers \ {mem[c].name} /\ Go(c, "failed")
    BY <1>5 DEF PodmanCreate, End, Fail
  <2>2. containers \subseteq {mem[c].name} /\ mem[c].name \in Commands
    BY <1>0, <2>1 DEF SerialAt, HeldAt, Boxing
  <2>3. running' = None
    BY <1>0, <2>1, <2>2
  <2>4. CASE containers' = containers \cup {mem[c].name} /\ images # {} /\ home # "none" /\ Go(c, "built")
    <3>1. containers' = {mem[c].name}
      BY <2>2, <2>4
    <3>2. BoxNow' = mem[c].name /\ mem[c].name # None
      <4>1. \A n \in Commands : TheOnly({n}) = n
        BY TheOnlyIs
      <4> QED BY <2>2, <3>1, <4>1, CommandsAssumption DEF BoxNow
    <3>3. IF BoxNow = None THEN BoxNow' # None ELSE BoxNow' = BoxNow
      BY <1>0, <2>2, <3>2
    <3>4. Staged!Become(c, "build", "done")
      BY <2>1, <2>4, PhaseGoes, StageOfPlaces DEF BoxPc, EndPc
    <3> QED BY <1>0, <2>1, <2>3, <2>4, <3>3, <3>4 DEF Staged!Deliver, ImageNow, BoxNow
  <2>5. CASE containers' = containers \ {mem[c].name} /\ Go(c, "failed")
    <3>1. containers' = {}
      BY <2>2, <2>5
    <3>2. BoxNow' = None
      BY <3>1, TheOnlyIs DEF BoxNow
    <3>3. Staged!Become(c, "build", "failed")
      BY <2>1, <2>5, PhaseGoes, StageOfPlaces DEF BoxPc
    <3> QED BY <2>1, <2>3, <3>2, <3>3 DEF Staged!Lose, ImageNow, BoxNow
  <2> QED BY <2>1, <2>4, <2>5
<1> QED BY <1>1, <1>2, <1>3, <1>4, <1>5, <1>6, <1>7

LEMMA RemovesStages ==
  ASSUME TypeInv, Serial, RunsThere, NEW c \in Commands,
         PodmanRm(c) \/ PodmanImageRm(c) \/ RemoveHome(c) \/ RemoveDockerfile(c) \/ RemoveSettings(c) \/ Mknod(c)
  PROVE  StagedStep(c)
<1> USE DEF history, podmanVars, fileVars, homeVars, StagedStep
<1>0. /\ SerialAt(pc[c], mem[c])
      /\ \/ images = {} /\ ImageNow = None
         \/ \E n \in Commands : n # None /\ images = {n} /\ ImageNow = n
      /\ \/ containers = {} /\ BoxNow = None /\ running = None
         \/ \E n \in Commands : n # None /\ containers = {n} /\ BoxNow = n /\ running \in {n, None}
  BY SerialFacts
<1>a. TheOnly({}) = None
  BY TheOnlyIs
<1>1. CASE PodmanRm(c)
  <2>1. /\ pc[c] = "rm" /\ InFlight(c) /\ UNCHANGED <<dockerfile, images, home, running, overlapped>>
        /\ \/ mem[c].name \in containers /\ running # mem[c].name
              /\ containers' = containers \ {mem[c].name} /\ Go(c, "finddeleted")
           \/ containers' = containers /\ Go(c, "failed")
    BY <1>1 DEF PodmanRm, Goto, Go, Fail, End, InFlight, EndPc
  <2>2. CASE containers' = containers /\ Go(c, "failed")
    BY <2>1, <2>2, FailedStep DEF ThingsStay
  <2>3. CASE mem[c].name \in containers /\ running # mem[c].name
             /\ containers' = containers \ {mem[c].name} /\ Go(c, "finddeleted")
    <3>1. containers' = {} /\ BoxNow # None /\ running = None
      BY <1>0, <2>3
    <3>2. BoxNow' = None
      BY <1>a, <3>1 DEF BoxNow
    <3>3. Staged!Become(c, "delete", "unboxed")
      BY <2>1, <2>3, PhaseGoes, StageOfPlaces
    <3> QED BY <2>1, <3>1, <3>2, <3>3 DEF Staged!RemoveBox, ImageNow, BoxNow
  <2> QED BY <2>1, <2>2, <2>3
<1>2. CASE PodmanImageRm(c)
  <2>1. /\ pc[c] = "imagerm" /\ InFlight(c) /\ UNCHANGED <<dockerfile, containers, home, running, overlapped>>
        /\ \/ mem[c].name \in images /\ containers = {}
              /\ images' = images \ {mem[c].name} /\ Go(c, "rmhome")
           \/ images' = images /\ Go(c, "failed")
    BY <1>2 DEF PodmanImageRm, Goto, Go, Fail, End, InFlight, EndPc
  <2>2. CASE images' = images /\ Go(c, "failed")
    BY <2>1, <2>2, FailedStep DEF ThingsStay
  <2>3. CASE mem[c].name \in images /\ containers = {}
             /\ images' = images \ {mem[c].name} /\ Go(c, "rmhome")
    <3>1. images' = {} /\ ImageNow # None /\ BoxNow = None
      BY <1>0, <2>3
    <3>2. ImageNow' = None
      BY <1>a, <3>1 DEF ImageNow
    <3>3. Staged!Become(c, "unboxed", "unimaged")
      BY <2>1, <2>3, PhaseGoes, StageOfPlaces
    <3> QED BY <2>1, <3>1, <3>2, <3>3 DEF Staged!RemoveImage, ImageNow, BoxNow
  <2> QED BY <2>1, <2>2, <2>3
<1>3. CASE RemoveHome(c) \/ RemoveDockerfile(c)
  <2>1. /\ pc[c] \in {"rmhome", "rmdefinition"}
        /\ UNCHANGED <<images, containers, running, overlapped>>
        /\ \/ Go(c, "deleted") /\ UNCHANGED <<dockerfile, home>>
           \/ /\ Go(c, "rmdefinition") \/ Go(c, "rmsettings")
              /\ \/ UNCHANGED <<dockerfile, home>>
                 \/ home' = "none" /\ UNCHANGED dockerfile
                 \/ dockerfile' = None /\ UNCHANGED home
    BY <1>3 DEF RemoveHome, RemoveDockerfile, Goto, Go, End
  <2>2. images = {} /\ containers = {} /\ ImageNow = None /\ BoxNow = None
    BY <1>0, <2>1 DEF SerialAt, Unboxed
  <2>3. StageOf(pc[c]) = "unimaged"
    BY <2>1, StageOfPlaces
  <2>4. CASE Go(c, "deleted") /\ UNCHANGED <<dockerfile, home>>
    BY <2>1, <2>3, <2>4, EndedStep DEF ThingsStay
  <2>5. CASE Go(c, "rmdefinition") \/ Go(c, "rmsettings")
    <3>1. Staged!Become(c, "unimaged", "unimaged")
      BY <2>1, <2>3, <2>5, PhaseGoes, StageOfPlaces
    <3>2. CASE UNCHANGED <<dockerfile, home>>
      BY <2>1, <2>3, <2>5, <3>2, HiddenStep, StageOfPlaces DEF ThingsStay
    <3>3. CASE \/ home' = "none" /\ UNCHANGED dockerfile
               \/ dockerfile' = None /\ UNCHANGED home
      BY <2>1, <2>2, <3>1, <3>3 DEF Staged!RemoveRest, ImageNow, BoxNow
    <3>4. \/ UNCHANGED <<dockerfile, home>>
          \/ home' = "none" /\ UNCHANGED dockerfile
          \/ dockerfile' = None /\ UNCHANGED home
      BY <2>1
    <3> QED BY <3>2, <3>3, <3>4
  <2> QED BY <2>1, <2>4, <2>5
<1>4. CASE RemoveSettings(c) \/ Mknod(c)
  <2>1. /\ UNCHANGED <<dockerfile, images, containers, home, running, overlapped>>
        /\ \/ pc[c] = "rmsettings" /\ Go(c, "deleted")
           \/ pc[c] = "mknod" /\ Go(c, "attached")
    BY <1>4 DEF RemoveSettings, Mknod, End
  <2>2. StageOf(pc[c]) \in {"unimaged", "device"}
    BY <2>1, StageOfPlaces DEF DevicePc
  <2> QED BY <2>1, <2>2, EndedStep DEF ThingsStay
<1> QED BY <1>1, <1>2, <1>3, <1>4

LEMMA StartBegins ==
  ASSUME TypeInv, NEW c \in Commands, Start(c), ~overlapped'
  PROVE  Staged!Begin(c)
<1>1. /\ pc[c] = "idle" /\ \A d \in Commands : ~InFlight(d)
      /\ UNCHANGED <<dockerfile, images, containers, home, running, overlapped>>
  BY DEF Start, podmanVars, fileVars, homeVars, TypeInv, TypeOK
<1>2. PICK to \in {"define", "image", "delete", "attach"} : Go(c, to)
  BY DEF Start, Goto, Go
<1>3. StageOf(to) \in Staged!Tasks /\ StageOf(pc[c]) = "idle"
  BY <1>1, StageOfPlaces DEF Staged!Tasks, ImagePc, DevicePc
<1>4. Staged!Become(c, "idle", StageOf(to))
  BY <1>1, <1>2, <1>3, PhaseGoes
<1>5. \A d \in Commands : PhaseNow[d] \in Staged!Idle
  <2> SUFFICES ASSUME NEW d \in Commands PROVE StageOf(pc[d]) \in Staged!Idle
    BY DEF PhaseNow
  <2> QED BY <1>1, StagesInFlight DEF InFlight, TypeInv, TypeOK
<1> QED BY <1>1, <1>3, <1>4, <1>5 DEF Staged!Begin, Staged!things, PhaseNow

\* podman.rs:196-540, define, build and delete that do not overlap make the
\* Litterbox in stages and take it down in the reverse order, for any number of
\* them, wherever each fails or is killed, with sessions that come and go.
THEOREM LitterboxesMadeInStages == Spec => MadeInStages
<1>1. Init => Staged!Init
  <2>1. TheOnly({}) = None
    BY TheOnlyIs
  <2> QED BY <2>1, StageOfPlaces DEF Init, Staged!Init
<1>2. TypeInv /\ SerialInv /\ RunsThere /\ [Next]_vars => [Staged!Next]_(Staged!vars)
  <2> SUFFICES ASSUME TypeInv, SerialInv, RunsThere, [Next]_vars
               PROVE  Staged!Next \/ UNCHANGED Staged!vars
    BY DEF Staged!vars
  <2>0. SerialInv' /\ overlapped \in BOOLEAN /\ overlapped' \in BOOLEAN /\ (overlapped => overlapped')
    <3>1. TypeInv' /\ SerialInv'
      BY NextTyped, NextSerial
    <3>2. ASSUME NEW c \in Commands, CommandStep(c) PROVE UNCHANGED overlapped
      BY <3>2, Reports
    <3>3. overlapped => overlapped'
      BY <3>2 DEF Next, Start, SessionsBegin, SessionsEnd, HostChanges, vars, history
    <3> QED BY <3>1, <3>3 DEF TypeInv, TypeOK
  <2>1. CASE overlapped'
    BY <2>0, <2>1 DEF Staged!Next, Staged!Break
  <2>2. CASE ~overlapped'
    <3>0. Serial
      BY <2>0, <2>2 DEF SerialInv
    <3>1. ASSUME NEW c \in Commands, Start(c) PROVE Staged!Next
      BY <2>2, <3>1, StartBegins DEF Staged!Next
    <3>2. ASSUME NEW c \in Commands, CommandStep(c) PROVE StagedStep(c)
      <4>1. CASE StepFails(c) \/ Killed(c)
        BY <3>0, <4>1, LooksAreHidden, MakesStages
      <4> QED BY <3>0, <3>2, <4>1, LooksAreHidden, MakesStages, RemovesStages DEF CommandStep
    <3>3. ASSUME NEW c \in Commands, CommandStep(c) PROVE Staged!Next \/ UNCHANGED Staged!vars
      BY <3>2, <3>3 DEF StagedStep, Staged!Next
    <3>4. CASE SessionsBegin \/ SessionsEnd
      <4>1. /\ UNCHANGED <<dockerfile, images, containers, home, pc, overlapped>>
            /\ (running' # None) = ~(running # None)
            /\ containers # {}
        BY <3>4, OnlyOne, CommandsAssumption DEF SessionsBegin, SessionsEnd, RunsThere, TypeInv, TypeOK, homeVars, history
      <4>2. BoxNow # None
        <5>1. \A t, u \in containers : t = u
          BY <3>0 DEF Serial, Single
        <5> QED BY <4>1, <5>1, TheOnlyIs DEF BoxNow, TypeInv, TypeOK
      <4> QED BY <4>1, <4>2 DEF Staged!Next, Staged!Use, BoxNow
    <3>5. CASE HostChanges \/ UNCHANGED vars
      BY <3>5 DEF HostChanges, vars, podmanVars, fileVars, homeVars, history, Staged!vars, Staged!things
    <3> QED BY <3>1, <3>3, <3>4, <3>5 DEF Next
  <2> QED BY <2>1, <2>2
<1>3. Init => RunsThere
  BY DEF Init, RunsThere
<1> QED BY <1>1, <1>2, <1>3, NextRuns, SerialCorrect, PTL DEF Spec, MadeInStages, Staged!Spec

\* No command takes a stage away from under another: it is a consequence of the
\* abstract specification alone, and so of all that implements it.
THEOREM StagesAreLayered == Spec => []NothingUnderneathGone
<1>1. Staged!Init => NothingUnderneathGone
  BY DEF Staged!Init, NothingUnderneathGone, Staged!Layered
<1>2. NothingUnderneathGone /\ [Staged!Next]_(Staged!vars) => NothingUnderneathGone'
  <2> USE DEF NothingUnderneathGone, Staged!Layered, Staged!Become, Staged!things
  <2> SUFFICES ASSUME NothingUnderneathGone, [Staged!Next]_(Staged!vars), ~overlapped'
               PROVE  NothingUnderneathGone'
    OBVIOUS
  <2>1. CASE UNCHANGED Staged!vars
    BY <2>1 DEF Staged!vars
  <2>2. CASE Staged!Break \/ Staged!Use
    BY <2>2 DEF Staged!Break, Staged!Use
  <2>3. ASSUME NEW c \in Commands,
               \/ Staged!BeginDefinition(c) \/ Staged!Define(c) \/ Staged!CutDefinition(c)
               \/ Staged!MakeImage(c) \/ Staged!MakeHome(c) \/ Staged!Deliver(c) \/ Staged!Lose(c)
        PROVE  NothingUnderneathGone'
    BY <2>3 DEF Staged!BeginDefinition, Staged!Define, Staged!CutDefinition, Staged!MakeImage, Staged!MakeHome, Staged!Deliver, Staged!Lose
  <2>4. ASSUME NEW c \in Commands,
               Staged!RemoveBox(c) \/ Staged!RemoveImage(c) \/ Staged!RemoveRest(c)
        PROVE  NothingUnderneathGone'
    BY <2>4 DEF Staged!RemoveBox, Staged!RemoveImage, Staged!RemoveRest
  <2>5. ASSUME NEW c \in Commands, Staged!Begin(c) \/ Staged!Decline(c) \/ Staged!End(c) \/ Staged!Fail(c)
        PROVE  NothingUnderneathGone'
    BY <2>5 DEF Staged!Begin, Staged!Decline, Staged!End, Staged!Fail
  <2> QED BY <2>1, <2>2, <2>3, <2>4, <2>5 DEF Staged!Next
<1>3. Staged!Spec => []NothingUnderneathGone
  BY <1>1, <1>2, PTL DEF Staged!Spec
<1> QED BY <1>3, LitterboxesMadeInStages DEF MadeInStages
=============================================================================
