------------------------------ MODULE Lifecycle ------------------------------
(***************************************************************************)
(* The commands that make and delete one Litterbox: `litterbox define`,    *)
(* `build` and `delete` (podman.rs) with the settings file (settings.rs),  *)
(* and `device` (devices.rs).  Each is a sequence of steps on podman's     *)
(* images and containers and on files under ~/Litterbox, any of which may  *)
(* fail and leave what came before.  Nothing keeps two commands apart.     *)
(*                                                                         *)
(* Images and containers carry the label work.litterbox.name and a name    *)
(* that build generates.  Sessions are the environment: they run the       *)
(* container, and the daemon has its socket at the path that build uses    *)
(* too (see Litterbox.tla).  So is the host, whose devices come and go.    *)
(***************************************************************************)
EXTENDS Integers, FiniteSets, Settings, DeviceNode

CONSTANTS
  Commands,  \* the processes
  Hardware,  \* the paths that exist when a device is plugged in, or PipeWire runs
  None,
  Empty, Torn  \* a file that was truncated; a part of one, or what two writes left

Unreadable == {Empty, Torn}
NoDefinition == {None, Empty}

ASSUME CommandsAssumption == IsFiniteSet(Commands) /\ None \notin Commands
ASSUME NoSettings == /\ Unreadable \cap (LitterboxSettings \cup Commands) = {}
                     /\ None \notin LitterboxSettings \cup Unreadable
                     /\ Empty # Torn

VARIABLES
  images,      \* the names of the images with the label that are not dangling
  containers,  \* the names of the containers with the label
  running,     \* the container that runs, or None
  dockerfile,  \* the command that wrote the Dockerfile, None, Empty or Torn
  settings,    \* the settings file: the settings, None, Empty or Torn
  home,        \* the home directory: "none", "bare" or with the directory "dev"
  nodes,       \* the device nodes below home/dev
  lockfile,    \* there is a session lockfile
  sock,        \* there is a file at the SSH socket's path
  options,     \* history: the arguments the last container was created with, or None
  host,        \* the paths of Hardware that exist now
  pc,          \* pc[c]: where command c is
  mem,         \* mem[c]: the image or container, the settings and the node it is about
  overlapped,  \* history: two commands have run at the same time
  spoiled      \* history: a command has ended between truncating and writing settings

podmanVars == <<images, containers, running, options>>
homeVars   == <<home, nodes>>
fileVars   == <<dockerfile, settings, homeVars, lockfile, sock>>
history    == <<overlapped, spoiled>>
vars       == <<podmanVars, fileVars, host, pc, mem, history>>

DefinePc == {"define", "template", "defining"}
ImagePc  == {"image", "dockerfile", "buildtemplate", "builddefining", "podmanbuild"}
BoxPc    == {"findimage", "findcontainer", "home", "sock", "settings", "prompt", "save", "saving",
             "lockfile", "create"}
DeletePc == {"delete", "rm", "finddeleted", "imagerm", "rmhome", "rmdefinition", "rmsettings"}
DevicePc == {"attach", "mknod"}
EndPc    == {"defined", "built", "deleted", "kept", "attached", "failed"}
CommandPc == {"idle"} \cup DefinePc \cup ImagePc \cup BoxPc \cup DeletePc \cup DevicePc \cup EndPc

InFlight(c) == pc[c] \notin EndPc \cup {"idle"}

Blank  == [name |-> None, settings |-> None, node |-> None]
Memory == [name : Commands \cup {None}, settings : LitterboxSettings \cup {None},
           node : (Paths \X {"b", "c", "unknown"}) \cup {None}]

Goto(c, to) == pc' = [pc EXCEPT ![c] = to] /\ UNCHANGED mem
Name(c, n)  == mem' = [mem EXCEPT ![c].name = n]
Go(c, to)   == pc' = [pc EXCEPT ![c] = to]
End(c, how) == Go(c, how) /\ mem' = [mem EXCEPT ![c] = Blank]
Fail(c)     == End(c, "failed")

\* get_image and get_container fail if there are several.
Only(things) == CHOOSE t \in things : things = {t}

Unique(things) == Cardinality(things) = 1

\* names::Generator: two names that are generated are taken to differ.
GeneratedName(c) == c

Start(c) ==
  /\ pc[c] = "idle"
  /\ \E to \in {"define", "image", "delete", "attach"} : Goto(c, to)
  /\ overlapped' = (overlapped \/ \E d \in Commands : InFlight(d))
  /\ UNCHANGED <<podmanVars, fileVars, host, spoiled>>

-----------------------------------------------------------------------------
\* define_litterbox: it is an error if there is a Dockerfile; the user selects
\* a template; fs::write truncates or creates the Dockerfile and writes it.
\* build calls it too.

DefineCheck(c) ==
  /\ pc[c] \in {"define", "dockerfile"}
  /\ IF dockerfile = None
       THEN Goto(c, IF pc[c] = "define" THEN "template" ELSE "buildtemplate")
       ELSE IF pc[c] = "define" THEN Fail(c) ELSE Goto(c, "podmanbuild")
  /\ UNCHANGED <<podmanVars, fileVars, host, history>>

DefineTruncate(c) ==
  /\ \/ pc[c] = "template" /\ Goto(c, "defining")
     \/ pc[c] = "buildtemplate" /\ Goto(c, "builddefining")
  /\ dockerfile' = Empty
  /\ UNCHANGED <<podmanVars, settings, homeVars, lockfile, sock, host, history>>

\* One that was written meanwhile may be longer; one that was removed stays so.
DefineWrite(c) ==
  /\ \/ pc[c] = "defining" /\ End(c, "defined")
     \/ pc[c] = "builddefining" /\ Goto(c, "podmanbuild")
  /\ dockerfile' \in CASE dockerfile = Empty -> {c}
                       [] dockerfile = None  -> {None}
                       [] OTHER              -> {c, Torn}
  /\ UNCHANGED <<podmanVars, settings, homeVars, lockfile, sock, host, history>>

-----------------------------------------------------------------------------
\* build_image

\* Mutant of FindImage: the image is given a new name when it is rebuilt.
FindNoImage(c) ==
  /\ pc[c] = "image"
  /\ \/ Go(c, "dockerfile") /\ Name(c, GeneratedName(c))
     \/ Unique(images) /\ Goto(c, "findimage")
  /\ UNCHANGED <<podmanVars, fileVars, host, history>>

\* The user may keep the image that there is, or have it built again.
FindImage(c) ==
  /\ pc[c] = "image"
  /\ \/ images = {} /\ Go(c, "dockerfile") /\ Name(c, GeneratedName(c))
     \/ Unique(images) /\ Go(c, "dockerfile") /\ Name(c, Only(images))
     \/ Unique(images) /\ Goto(c, "findimage")
     \/ Cardinality(images) > 1 /\ Fail(c)
  /\ UNCHANGED <<podmanVars, fileVars, host, history>>

\* Of nothing podman builds no image; of a part of a Dockerfile it may.
PodmanBuild(c) ==
  /\ pc[c] = "podmanbuild"
  /\ dockerfile \notin NoDefinition
  /\ images' = images \cup {mem[c].name}
  /\ Goto(c, "findimage")
  /\ UNCHANGED <<containers, running, options, fileVars, host, history>>

-----------------------------------------------------------------------------
\* build_litterbox

FindBuiltImage(c) ==
  /\ pc[c] = "findimage"
  /\ IF Unique(images) THEN Goto(c, "findcontainer") ELSE Fail(c)
  /\ UNCHANGED <<podmanVars, fileVars, host, history>>

\* Mutant of FindContainer: the container is called as its Litterbox.
FindContainerUnnamed(c) ==
  /\ pc[c] = "findcontainer"
  /\ Go(c, "home") /\ Name(c, "litterbox")
  /\ UNCHANGED <<podmanVars, fileVars, host, history>>

\* A container that there is is replaced, or it is an error.
FindContainer(c) ==
  /\ pc[c] = "findcontainer"
  /\ \/ containers = {} /\ Go(c, "home") /\ Name(c, GeneratedName(c))
     \/ Unique(containers) /\ Go(c, "home") /\ Name(c, Only(containers))
     \/ containers # {} /\ Fail(c)
  /\ UNCHANGED <<podmanVars, fileVars, host, history>>

MakeHome(c) ==
  /\ pc[c] = "home"
  /\ home' = IF home = "none" THEN "bare" ELSE home
  /\ Goto(c, "sock")
  /\ UNCHANGED <<podmanVars, dockerfile, settings, nodes, lockfile, sock, host, history>>

\* SshSockFile::new: a file at the path is removed; only if there was none the
\* placeholder is created.
MakePlaceholder(c) ==
  /\ pc[c] = "sock"
  /\ sock' = ~sock
  /\ Goto(c, "settings")
  /\ UNCHANGED <<podmanVars, dockerfile, settings, homeVars, lockfile, host, history>>

\* load_or_prompt: the settings that there are, if the user does not want to
\* change them, or else a prompt that starts from them.
LoadSettings(c) ==
  /\ pc[c] = "settings"
  /\ \/ settings = None /\ Go(c, "prompt") /\ mem' = [mem EXCEPT ![c].settings = Defaults]
     \/ settings \in Unreadable /\ Fail(c)
     \/ /\ settings \in LitterboxSettings
        /\ Go(c, "save") \/ Go(c, "prompt")
        /\ mem' = [mem EXCEPT ![c].settings = settings]
  /\ sock' = IF settings \in Unreadable THEN FALSE ELSE sock
  /\ UNCHANGED <<podmanVars, dockerfile, settings, homeVars, lockfile, host, history>>

PromptSettings(c) ==
  /\ pc[c] = "prompt"
  /\ \E answers \in Answers :
       mem' = [mem EXCEPT ![c].settings = Prompt(mem[c].settings, host, answers)]
  /\ Go(c, "save")
  /\ UNCHANGED <<podmanVars, fileVars, host, history>>

\* Mutant of TruncateSettings: the file is opened and not truncated.
OpenSettings(c) ==
  /\ pc[c] = "save"
  /\ settings' = IF settings = None THEN Empty ELSE settings
  /\ Goto(c, "saving")
  /\ UNCHANGED <<podmanVars, dockerfile, homeVars, lockfile, sock, host, history>>

\* save_to_file: fs::write truncates the file ...
TruncateSettings(c) ==
  /\ pc[c] = "save"
  /\ settings' = Empty
  /\ Goto(c, "saving")
  /\ UNCHANGED <<podmanVars, dockerfile, homeVars, lockfile, sock, host, history>>

\* Mutant of WriteSettings: the defaults are written.
WriteDefaults(c) ==
  /\ pc[c] = "saving"
  /\ settings' = Defaults
  /\ Goto(c, "lockfile")
  /\ UNCHANGED <<podmanVars, dockerfile, homeVars, lockfile, sock, host, history>>

\* ... and writes it.  A file that was written meanwhile may be longer; one that
\* was removed stays so.
WriteSettings(c) ==
  /\ pc[c] = "saving"
  /\ settings' \in CASE settings = Empty -> {mem[c].settings}
                     [] settings = None  -> {None}
                     [] OTHER            -> {settings, mem[c].settings, Torn}
  /\ Goto(c, "lockfile")
  /\ UNCHANGED <<podmanVars, dockerfile, homeVars, lockfile, sock, host, history>>

\* File::create empties a lockfile that there is.
MakeLockfile(c) ==
  /\ pc[c] = "lockfile"
  /\ lockfile' = TRUE
  /\ Goto(c, "create")
  /\ UNCHANGED <<podmanVars, dockerfile, settings, homeVars, sock, host, history>>

\* podman create --replace mounts the home, the lockfile, the socket and what
\* the settings expose; a container of the name is removed first, even if it
\* runs, and it is gone if the creation then fails.  SshSockFile is dropped.
PodmanCreate(c) ==
  /\ pc[c] = "create"
  /\ \/ /\ images # {} /\ home # "none" /\ lockfile /\ sock
        /\ \A o \in mem[c].settings.yes \cap Exposures : HostPath(o) \in host
        /\ containers' = containers \cup {mem[c].name}
        /\ options' = PodmanArgs(mem[c].settings, host)
        /\ End(c, "built")
     \/ /\ containers' = containers \ {mem[c].name}
        /\ UNCHANGED options
        /\ Fail(c)
  /\ running' = IF running = mem[c].name THEN None ELSE running
  /\ sock' = FALSE
  /\ UNCHANGED <<images, dockerfile, settings, homeVars, lockfile, host, history>>

-----------------------------------------------------------------------------
\* delete_litterbox

\* If the user says no, or nothing, that is the end of it, and no error.
FindDeleted(c) ==
  /\ pc[c] = "delete"
  /\ \/ Unique(containers) /\ Go(c, "rm") /\ Name(c, Only(containers))
     \/ Unique(containers) /\ End(c, "kept")
     \/ ~Unique(containers) /\ Fail(c)
  /\ UNCHANGED <<podmanVars, fileVars, host, history>>

\* Mutant of PodmanRm: it is not looked at whether podman failed.
PodmanRmUnchecked(c) ==
  /\ pc[c] = "rm"
  /\ containers' = IF running # mem[c].name THEN containers \ {mem[c].name} ELSE containers
  /\ Goto(c, "finddeleted")
  /\ options' = IF containers' = {} THEN None ELSE options
  /\ UNCHANGED <<images, running, fileVars, host, history>>

\* podman rm, without --force.  An identifier of podman's is known by the name
\* that its container or image goes by.
PodmanRm(c) ==
  /\ pc[c] = "rm"
  /\ IF mem[c].name \in containers /\ running # mem[c].name
       THEN containers' = containers \ {mem[c].name} /\ Goto(c, "finddeleted")
       ELSE Fail(c) /\ UNCHANGED containers
  /\ options' = IF containers' = {} THEN None ELSE options
  /\ UNCHANGED <<images, running, fileVars, host, history>>

FindDeletedImage(c) ==
  /\ pc[c] = "finddeleted"
  /\ IF Unique(images) THEN Go(c, "imagerm") /\ Name(c, Only(images)) ELSE Fail(c)
  /\ UNCHANGED <<podmanVars, fileVars, host, history>>

\* Mutant of PodmanImageRm: it is not looked at whether podman failed.
PodmanImageRmUnchecked(c) ==
  /\ pc[c] = "imagerm"
  /\ images' \in {images, images \ {mem[c].name}}
  /\ Goto(c, "rmhome")
  /\ UNCHANGED <<containers, running, options, fileVars, host, history>>

\* podman image rm fails if a container uses the image.
PodmanImageRm(c) ==
  /\ pc[c] = "imagerm"
  /\ IF mem[c].name \in images /\ containers = {}
       THEN images' = images \ {mem[c].name} /\ Goto(c, "rmhome")
       ELSE Fail(c) /\ UNCHANGED images
  /\ UNCHANGED <<containers, running, options, fileVars, host, history>>

\* The user is asked about the home directory, and about the Dockerfile with
\* the settings.
RemoveHome(c) ==
  /\ pc[c] = "rmhome"
  /\ \/ home' = "none" /\ nodes' = {}
     \/ UNCHANGED homeVars
  /\ Goto(c, "rmdefinition")
  /\ UNCHANGED <<podmanVars, dockerfile, settings, lockfile, sock, host, history>>

RemoveDockerfile(c) ==
  /\ pc[c] = "rmdefinition"
  /\ \/ Goto(c, "rmsettings") /\ dockerfile' = None
     \/ End(c, "deleted") /\ UNCHANGED dockerfile
  /\ UNCHANGED <<podmanVars, settings, homeVars, lockfile, sock, host, history>>

RemoveSettings(c) ==
  /\ pc[c] = "rmsettings"
  /\ settings' = None
  /\ End(c, "deleted")
  /\ UNCHANGED <<podmanVars, dockerfile, homeVars, lockfile, sock, host, history>>

-----------------------------------------------------------------------------
\* attach_device: the device is looked at, and the node's directory is made,
\* though there may be no such Litterbox; then sudo mknod.

StatDevice(c) ==
  /\ pc[c] = "attach"
  /\ \E path \in Paths : mem' = [mem EXCEPT ![c].node = <<path, DevType(path)>>]
  /\ home' = "dev"
  /\ Go(c, "mknod")
  /\ UNCHANGED <<podmanVars, dockerfile, settings, nodes, lockfile, sock, host, history>>

\* mknod fails if the type is unknown, the directory is gone or the file exists.
Mknod(c) ==
  /\ pc[c] = "mknod"
  /\ home = "dev" /\ mem[c].node \in Nodes
  /\ \A n \in nodes : n[1] # mem[c].node[1]
  /\ nodes' = nodes \cup {mem[c].node}
  /\ End(c, "attached")
  /\ UNCHANGED <<podmanVars, dockerfile, settings, home, lockfile, sock, host, history>>

-----------------------------------------------------------------------------

\* Of a Dockerfile that is being written a part may be there.
LeaveDockerfile(c) ==
  dockerfile' \in IF pc[c] \in {"defining", "builddefining"} /\ dockerfile # None
                   THEN {dockerfile, Torn} ELSE {dockerfile}

\* A step fails: podman, the file system, or the user at a prompt.  An error
\* drops SshSockFile.
StepFails(c) ==
  /\ InFlight(c)
  /\ Fail(c)
  /\ LeaveDockerfile(c)
  /\ sock' = IF pc[c] \in {"settings", "prompt", "save", "saving", "lockfile", "create"}
               THEN FALSE ELSE sock
  /\ spoiled' = (spoiled \/ pc[c] = "saving")
  /\ UNCHANGED <<podmanVars, settings, homeVars, lockfile, host, overlapped>>

\* The command is killed, and drops nothing.
Killed(c) ==
  /\ InFlight(c)
  /\ Fail(c)
  /\ LeaveDockerfile(c)
  /\ spoiled' = (spoiled \/ pc[c] = "saving")
  /\ UNCHANGED <<podmanVars, settings, homeVars, lockfile, sock, host, overlapped>>

\* Sessions run the container, with the lockfile and the daemon's socket ...
SessionsBegin ==
  /\ Unique(containers)
  /\ running = None
  /\ running' = Only(containers)
  /\ lockfile' = TRUE
  /\ sock' = TRUE
  /\ UNCHANGED <<images, containers, options, dockerfile, settings, homeVars, host, pc, mem, history>>

\* ... and when they end the daemon removes both.
SessionsEnd ==
  /\ running # None
  /\ running' = None
  /\ lockfile' = FALSE
  /\ sock' = FALSE
  /\ UNCHANGED <<images, containers, options, dockerfile, settings, homeVars, host, pc, mem, history>>

\* A device is plugged in or out, or PipeWire starts or stops.
HostChanges ==
  /\ \E path \in Hardware : host' \in {host \cup {path}, host \ {path}} \ {host}
  /\ UNCHANGED <<podmanVars, fileVars, pc, mem, history>>

Init ==
  /\ images = {} /\ containers = {} /\ running = None /\ options = None
  /\ dockerfile = None /\ settings = None
  /\ home = "none" /\ nodes = {}
  /\ lockfile = FALSE /\ sock = FALSE
  /\ host \in SUBSET Hardware
  /\ pc = [c \in Commands |-> "idle"]
  /\ mem = [c \in Commands |-> Blank]
  /\ overlapped = FALSE /\ spoiled = FALSE

CommandStep(c) ==
  \/ DefineCheck(c) \/ DefineTruncate(c) \/ DefineWrite(c)
  \/ FindImage(c) \/ PodmanBuild(c)
  \/ FindBuiltImage(c) \/ FindContainer(c) \/ MakeHome(c) \/ MakePlaceholder(c)
  \/ LoadSettings(c) \/ PromptSettings(c) \/ TruncateSettings(c) \/ WriteSettings(c)
  \/ MakeLockfile(c) \/ PodmanCreate(c)
  \/ FindDeleted(c) \/ PodmanRm(c) \/ FindDeletedImage(c) \/ PodmanImageRm(c)
  \/ RemoveHome(c) \/ RemoveDockerfile(c) \/ RemoveSettings(c)
  \/ StatDevice(c) \/ Mknod(c)
  \/ StepFails(c) \/ Killed(c)

Next ==
  \/ \E c \in Commands : Start(c) \/ CommandStep(c)
  \/ SessionsBegin
  \/ SessionsEnd
  \/ HostChanges

Spec == Init /\ [][Next]_vars

-----------------------------------------------------------------------------

\* Every variable stays in its set.
TypeOK ==
  /\ images \in SUBSET Commands
  /\ containers \in SUBSET Commands
  /\ running \in Commands \cup {None}
  /\ options = None \/ \E s \in LitterboxSettings : \E h \in SUBSET Hardware : options = PodmanArgs(s, h)
  /\ dockerfile \in Commands \cup {None} \cup Unreadable
  /\ settings \in LitterboxSettings \cup {None} \cup Unreadable
  /\ home \in {"none", "bare", "dev"}
  /\ nodes \in SUBSET Nodes
  /\ lockfile \in BOOLEAN
  /\ sock \in BOOLEAN
  /\ host \in SUBSET Hardware
  /\ pc \in [Commands -> CommandPc]
  /\ mem \in [Commands -> Memory]
  /\ overlapped \in BOOLEAN
  /\ spoiled \in BOOLEAN

\* Commands that run one after the other, wherever each of them fails or is
\* killed, never make a second image or container of the name, which get_image
\* and get_container would reject for ever.
OneOfEach == ~overlapped => Cardinality(images) <= 1 /\ Cardinality(containers) <= 1

\* load_or_prompt can read what an earlier build saved: a settings file that
\* does not parse is being written, or is what was left by a command that ended
\* in the middle or by two that overlapped.  Every later build fails on it.
SettingsReadable ==
  settings \in Unreadable => overlapped \/ spoiled \/ \E c \in Commands : pc[c] = "saving"

\* A node in the home is of its device's type.
NodesFaithful == \A n \in nodes :
  IF n[2] = "b" THEN n[1] \in BlockDevices ELSE n[1] \in CharDevices

\* While sessions run, a build that has begun to change files (the socket, the
\* lockfile, whose emptying stops the container under its shells) is one whose
\* user has agreed to replace the container that runs, and no delete has got
\* past podman rm, to the home that the shells are in.
SessionsRespected ==
  ~overlapped /\ running # None => \A c \in Commands :
    /\ pc[c] \in BoxPc \ {"findimage", "findcontainer"} => mem[c].name = running
    /\ pc[c] \notin DeletePc \ {"delete", "rm"}

Ends(c, end) == pc[c] # end /\ pc'[c] = end

\* A build that reports success has left the image, the container, the home and
\* the Dockerfile, whatever an earlier command that failed had left, and the
\* container is the one that the settings file describes.
BuildDelivers ==
  [][\A c \in Commands : Ends(c, "built") /\ ~overlapped =>
       /\ Unique(images') /\ Unique(containers') /\ home' # "none"
       /\ dockerfile' \notin NoDefinition
       /\ settings' \in LitterboxSettings /\ options' = PodmanArgs(settings', host')]_vars

\* A delete that ends without an error has left neither an image nor a
\* container, or it has left all as it was, because the user did not say yes.
DeleteDelivers ==
  [][\A c \in Commands : ~overlapped =>
       /\ Ends(c, "deleted") => images' = {} /\ containers' = {}
       /\ Ends(c, "kept") => UNCHANGED <<podmanVars, fileVars>>]_vars

\* podman.rs:207, "Dockerfile already exists": a Dockerfile, which the user may
\* have edited, is removed by delete and not overwritten, unless two commands
\* looked for it at once.
DefinitionKept ==
  [][~overlapped /\ dockerfile \notin NoDefinition => dockerfile' \in {dockerfile, None}]_vars

-----------------------------------------------------------------------------
(***************************************************************************)
(* The Litterbox in stages.  Two images or containers of the name are none *)
(* that get_image or get_container gives.                                  *)
(***************************************************************************)

TheOnly(things) == IF Unique(things) THEN Only(things) ELSE None

StageOf(at) ==
  CASE at \in {"define", "template"}                   -> "define"
    [] at \in (ImagePc \ {"builddefining"}) \cup BoxPc -> "build"
    [] at \in {"delete", "rm"}                         -> "delete"
    [] at \in {"finddeleted", "imagerm"}               -> "unboxed"
    [] at \in {"rmhome", "rmdefinition", "rmsettings"} -> "unimaged"
    [] at \in DevicePc                                 -> "device"
    [] at \in EndPc \ {"failed", "kept"}               -> "done"
    [] OTHER                                           -> at

Staged == INSTANCE Stages WITH
            definition <- dockerfile,
            image <- TheOnly(images),
            box <- TheOnly(containers),
            home <- home # "none",
            inUse <- running # None,
            phase <- [c \in Commands |-> StageOf(pc[c])],
            broken <- overlapped

\* define, build and delete that do not overlap make a Litterbox stage by stage
\* and take it down in the reverse order, though each may stop anywhere and the
\* next start from what it left, except from a Dockerfile that is still empty,
\* which none replaces or builds; success is only reported at the end, or by a
\* delete that was called off.
MadeInStages == Staged!Spec

\* So a container never lacks its image or its home, nor an image the
\* Dockerfile that it is built from, and sessions never their container.
NothingUnderneathGone == Staged!Layered
=============================================================================
