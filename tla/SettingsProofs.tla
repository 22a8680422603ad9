--------------------------- MODULE SettingsProofs ---------------------------
(***************************************************************************)
(* What the prompts for the settings keep and what podman create is told,  *)
(* for all settings, answers and hosts.                                    *)
(***************************************************************************)
EXTENDS Settings, TLAPS

\* The prompts give settings, whatever the user answers.
LEMMA PromptType ==
  ASSUME NEW old \in LitterboxSettings, NEW paths, NEW answers \in Answers
  PROVE  Prompt(old, paths, answers) \in LitterboxSettings
<1>1. Asked(paths) \subseteq Options
  BY DEF Asked
<1>2. answers.network_mode # "enter" => answers.network_mode \in Networks
  BY DEF Answers
<1>3. answers.shm_size_gb \notin {"enter", "blank"} => answers.shm_size_gb \in Sizes
  BY DEF Answers
<1> QED
  BY <1>1, <1>2, <1>3 DEF Prompt, LitterboxSettings

LEMMA DefaultsType == Defaults \in LitterboxSettings
  BY SettingsAssumption DEF Defaults, LitterboxSettings

\* settings.rs:132, who presses enter at every prompt keeps the settings, but
\* for a device or socket that the host does not have at that moment: it is
\* no longer exposed, and not offered when it is back.
THEOREM EnterKeeps ==
  ASSUME NEW old \in LitterboxSettings, NEW paths
  PROVE  Prompt(old, paths, JustEnter) =
           [old EXCEPT !.yes = {o \in old.yes : o \in Exposures => HostPath(o) \in paths}]
<1>1. {o \in Asked(paths) : JustEnter.yes[o] = "yes" \/ (JustEnter.yes[o] = "enter" /\ o \in old.yes)}
        = {o \in old.yes : o \in Exposures => HostPath(o) \in paths}
  BY DEF JustEnter, Asked, LitterboxSettings
<1> QED
  BY <1>1 DEF Prompt, JustEnter, LitterboxSettings

-----------------------------------------------------------------------------
\* The argument by which an option can be told.
Sign(o) ==
  CASE o = "support_ping"      -> <<"--cap-add", "NET_RAW">>
    [] o = "support_tuntap"    -> <<"--cap-add", "NET_ADMIN">>
    [] o = "packet_forwarding" -> <<"--sysctl", "net.ipv4.ip_forward=1">>
    [] o = "keep_groups"       -> <<"--group-add", "keep-groups">>
    [] o = "unconfine_seccomp" -> <<"--security-opt", "seccomp=unconfined">>
    [] o = "expose_kfd"        -> <<"--device", "/dev/kfd">>
    [] o = "expose_pipewire"   -> <<"--volume", "pipewire-0">>

LEMMA Signed ==
  ASSUME NEW o \in Switches \cup Exposures, NEW p \in Switches \cup Exposures
  PROVE  Sign(o) \in OptionArgs(p) <=> o = p
  BY DEF Sign, OptionArgs, Switches, Exposures

LEMMA NoGpuSign ==
  ASSUME NEW o \in Switches \cup Exposures, NEW paths, NEW flag, NEW gpu \in Gpu(paths)
  PROVE  Sign(o) # <<flag, gpu>>
  BY DEF Sign, Gpu, Switches, Exposures

LEMMA ToldBySign ==
  ASSUME NEW s \in LitterboxSettings, NEW paths, NEW o \in Options
  PROVE  o \in s.yes <=> Sign(o) \in PodmanArgs(s, paths).args
<1>1. s.yes \subseteq Switches \cup Exposures /\ o \in Switches \cup Exposures
  BY SettingsAssumption DEF LitterboxSettings
<1>2. Sign(o) \notin {<<flag, gpu>> : flag \in {"--volume", "--device"}, gpu \in Gpu(paths)}
  BY <1>1, NoGpuSign
<1>3. Sign(o) \in UNION {OptionArgs(p) : p \in s.yes} <=> \E p \in s.yes : Sign(o) \in OptionArgs(p)
  OBVIOUS
<1> QED
  BY <1>1, <1>2, <1>3, Signed DEF PodmanArgs

LEMMA NetworkTold ==
  ASSUME NEW m \in NetworkMode, NEW n \in NetworkMode, NetworkArgs(m) = NetworkArgs(n)
  PROVE  m = n
<1>1. "-t" \in NetworkArgs(m)[2] <=> m \in {"PastaHostToContainer", "PastaBidirectional"}
  BY DEF NetworkArgs, NetworkMode
<1>2. "-T" \in NetworkArgs(m)[2] <=> m \in {"PastaContainerToHost", "PastaBidirectional"}
  BY DEF NetworkArgs, NetworkMode
<1>3. "-t" \in NetworkArgs(n)[2] <=> n \in {"PastaHostToContainer", "PastaBidirectional"}
  BY DEF NetworkArgs, NetworkMode
<1>4. "-T" \in NetworkArgs(n)[2] <=> n \in {"PastaContainerToHost", "PastaBidirectional"}
  BY DEF NetworkArgs, NetworkMode
<1>5. /\ NetworkArgs(m)[1] = "host" <=> m = "Host"
      /\ NetworkArgs(n)[1] = "host" <=> n = "Host"
  BY DEF NetworkArgs, NetworkMode
<1> QED
  BY <1>1, <1>2, <1>3, <1>4, <1>5 DEF NetworkMode

\* podman.rs:405, no setting is lost on the way to podman create: two settings
\* that differ never give containers with the same arguments, on whatever hosts.
THEOREM ArgsTellSettings ==
  ASSUME NEW s \in LitterboxSettings, NEW t \in LitterboxSettings, NEW paths, NEW others,
         PodmanArgs(s, paths) = PodmanArgs(t, others)
  PROVE  s = t
<1>1. s.yes = t.yes
  <2>1. s.yes \subseteq Options /\ t.yes \subseteq Options
    BY DEF LitterboxSettings
  <2> QED
    BY <2>1, ToldBySign
<1>2. s.network_mode = t.network_mode
  <2>1. NetworkArgs(s.network_mode) = NetworkArgs(t.network_mode)
    BY DEF PodmanArgs
  <2>2. s.network_mode \in NetworkMode /\ t.network_mode \in NetworkMode
    BY SettingsAssumption DEF LitterboxSettings
  <2> QED
    BY <2>1, <2>2, NetworkTold
<1>3. s.shm_size_gb = t.shm_size_gb
  BY DEF PodmanArgs
<1> QED
  BY <1>1, <1>2, <1>3 DEF LitterboxSettings
=============================================================================
