------------------------------ MODULE Settings ------------------------------
(***************************************************************************)
(* The settings of a Litterbox (settings.rs): what the prompts make of the *)
(* old settings and the user's answers, and the arguments that podman      *)
(* create gets for the result (podman.rs).                                 *)
(*                                                                         *)
(* Settings are what a settings file means: a field that an older release  *)
(* did not write is one nobody asked for, and has the value it has in      *)
(* Defaults.                                                               *)
(***************************************************************************)
CONSTANTS
  Options,   \* the yes-or-no settings there are
  Networks,  \* the network modes there are
  Sizes,     \* the sizes in GB a user may give for the shared memory
  NoSize     \* shm_size_gb is None

Switches == {"support_ping", "support_tuntap", "packet_forwarding", "keep_groups",
             "unconfine_seccomp"}
\* Asked for only if the host has the device, or PipeWire's socket.
Exposures == {"expose_kfd", "expose_pipewire"}

NetworkMode == {"Pasta", "PastaHostToContainer", "PastaContainerToHost", "PastaBidirectional",
                "Host"}

ASSUME SettingsAssumption ==
  /\ Options \subseteq Switches \cup Exposures
  /\ "Pasta" \in Networks /\ Networks \subseteq NetworkMode
  /\ NoSize \notin Sizes
  /\ {"enter", "blank"} \cap Sizes = {}

LitterboxSettings ==
  [yes : SUBSET Options, network_mode : Networks, shm_size_gb : Sizes \cup {NoSize}]

Defaults == [yes |-> {}, network_mode |-> "Pasta", shm_size_gb |-> NoSize]

HostPath(exposure) == IF exposure = "expose_kfd" THEN "/dev/kfd" ELSE "pipewire-0"

\* What the user may type: enter for the value that is offered, a choice or, for
\* the size, blanks.  A size that is not a number is an error.
Answers ==
  [yes : [Options -> {"enter", "yes", "no"}],
   network_mode : Networks \cup {"enter"},
   shm_size_gb : Sizes \cup {"enter", "blank"}]
JustEnter ==
  [yes |-> [o \in Options |-> "enter"], network_mode |-> "enter", shm_size_gb |-> "enter"]

Asked(paths) == {o \in Options : o \in Exposures => HostPath(o) \in paths}

\* The prompts, one after the other, on a host that has `paths`.
Prompt(old, paths, answers) ==
  [yes |-> {o \in Asked(paths) :
              answers.yes[o] = "yes" \/ (answers.yes[o] = "enter" /\ o \in old.yes)},
   network_mode |->
     IF answers.network_mode = "enter" THEN old.network_mode ELSE answers.network_mode,
   shm_size_gb |->
     CASE answers.shm_size_gb = "enter" -> old.shm_size_gb
       [] answers.shm_size_gb = "blank" -> NoSize
       [] OTHER -> answers.shm_size_gb]

\* GpuDevice::try_detect
Gpu(paths) ==
  IF "/dev/dri" \in paths THEN {"/dev/dri"} ELSE IF "/dev/dxg" \in paths THEN {"/dev/dxg"} ELSE {}

OptionArgs(option) ==
  CASE option = "support_ping"      -> {<<"--cap-add", "NET_RAW">>}
    [] option = "support_tuntap"    -> {<<"--device", "/dev/net/tun">>, <<"--cap-add", "NET_ADMIN">>}
    [] option = "packet_forwarding" -> {<<"--sysctl", "net.ipv4.ip_forward=1">>,
                                        <<"--sysctl", "net.ipv6.conf.all.forwarding=1">>}
    [] option = "keep_groups"       -> {<<"--group-add", "keep-groups">>}
    [] option = "unconfine_seccomp" -> {<<"--security-opt", "seccomp=unconfined">>}
    [] option = "expose_kfd"        -> {<<"--device", "/dev/kfd">>}
    [] option = "expose_pipewire"   -> {<<"--volume", "pipewire-0">>}

\* The backend of the network and the directions of pasta's "auto" forwarding.
NetworkArgs(mode) ==
  CASE mode = "Pasta"                -> <<"pasta", {}>>
    [] mode = "PastaHostToContainer" -> <<"pasta", {"-t", "-u"}>>
    [] mode = "PastaContainerToHost" -> <<"pasta", {"-T", "-U"}>>
    [] mode = "PastaBidirectional"   -> <<"pasta", {"-t", "-u", "-T", "-U"}>>
    [] mode = "Host"                 -> <<"host", {}>>

\* The arguments of podman create that the settings and the host decide.
PodmanArgs(chosen, paths) ==
  [args |-> (UNION {OptionArgs(o) : o \in chosen.yes})
              \cup {<<flag, gpu>> : flag \in {"--volume", "--device"}, gpu \in Gpu(paths)},
   network |-> NetworkArgs(chosen.network_mode),
   shm_size |-> chosen.shm_size_gb]
=============================================================================
