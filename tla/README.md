# A TLA+ model of Litterbox

Litterbox is a command-line program that runs development environments
("Litterboxes") in rootless podman containers. It is a small program, but almost
every command of it is a process of its own: terminals, daemons, the process 1
of the container and the entrypoints inside it run at the same time, and what
they know of each other is in plain files, PIDs and podman's answers. No file is
locked. This directory models those processes and says what holds of them:
checked by TLC on small instances, and proved by TLAPS for any number of
processes, liveness up to what fairness and ENABLED leave to TLC.

Paths are relative to `litterbox/src/` in the repository unless they start with
another directory.

## The system

| Part | Code | State | Operations | Talks to | Modules |
|---|---|---|---|---|---|
| session lockfile | `files.rs` | `.session-NAME.lock`: the PIDs of the terminals | append, remove, drop the dead, unlink | terminals, daemon, and process 1, which has it mounted | `SessionFile` |
| `litterbox enter` | `commands/enter.rs`, `podman.rs:464` | where it is in `run` | check and start the daemon, register, start the container, run a shell, leave | daemon (spawn), lockfile, podman | `Enter` |
| `litterbox daemon` | `daemon.rs`, `keys.rs:297` | `.daemon-NAME.lock`, its loop | read the password, take the lockfile, bind the socket, connect to it, register, clean and poll, remove, exit | lockfile, podman, agent | `Daemon` |
| `litterbox wait` | `commands/wait.rs` | inotify watch and queue | watch, read, wait, reap, exit | lockfile, every process it adopts | `Container` |
| `litterbox entrypoint` | `commands/entrypoint.rs`, `files.rs:187` | the home's marker, waitpid flags, the process tree | set up the home, spawn, reap, the three `--wait` behaviours | `/prep-home.sh`, shell, background processes, process 1 | `Entrypoint` |
| SSH agent | `agent.rs`, `commands/confirm.rs` | `locked`, `approved_for_session`, the keys | register, lock, confirm, perform | daemon, clients, the dialog and the user | `Agent` |
| key file | `keys.rs` | `keys.ron` | generate, import, delete, attach, detach, change-password, print; the daemon's load | `enter`, daemon | `Keyfile` |
| define, build, delete | `podman.rs` | images, containers, Dockerfile, settings, home, lockfile, socket | the three commands | podman, files, running sessions | `Lifecycle` |
| settings | `settings.rs` | `NAME.ron` | load, prompt, save, arguments of `podman create` | build, the host's devices | `Settings`, its file in `Lifecycle` |
| `litterbox device` | `devices.rs` | nodes below `dev` in the home | look at the device, make the directory, `mknod` | the home that build makes and delete removes | `DeviceNode`, its steps in `Lifecycle` |
| SSH socket file | `files.rs:149-184` | the file at `.ssh/NAME.sock` | new, drop | daemon, build, container | in `Daemon`, `Container`, `Lifecycle` |
| Landlock, environment, templates, names, list | `sandbox.rs`, `env.rs`, `template.rs`, `names/` | none | single calls | | not modelled |

What makes the system hard:

* **Unlocked read-modify-write** of the session lockfile and of the key file,
  with `fs::write` truncating before it writes. Readers see the empty file;
  writers lose each other's changes.
* **Check, then act, with everything in between**: a daemon looks at its
  lockfile, a terminal looks for a daemon and for the container, the daemon asks
  podman; the answer is old when it is used.
* **Crashes**: a terminal that is closed leaves its PID, a killed daemon its
  lockfile and its socket, a command that is killed or whose write fails a
  truncated file or half a Litterbox.
* **Paths instead of descriptors**: a daemon binds a socket and connects to
  whatever is at its path a moment later; one that exits removes whatever is there.
* **Zombies**: a daemon that has exited still "runs" for `kill(pid, 0)` while the
  terminal that started it lives.
* **Inodes**: the container mounts the file that was at the path when it started;
  unlinking and creating the path again makes another file.
* **A process tree** whose orphans go to the entrypoint, or to process 1.

What should hold, part by part, is the table of properties under "The runs".
`PROJECT.json` lists each hazard with its line and the properties that would
catch it.

## The modules

`Host <- SessionFile <- Container <- Daemon <- Enter <- Litterbox` EXTEND one
another and share their variables: each is one component, and `Litterbox` puts
them together, with the specification, the fairness and the properties. The
component modules state no `Next` of their own, since each of them does nothing
without the others.

* **`Host`**: `pc[s]` and `dpc[d]`, where enter process `s`, and the daemon it
  spawned, are in their code. A PID is the process's name. `DaemonPidExists` is
  `kill(pid, None).is_ok()` with the zombie rule.
* **`SessionFile`**: `file`, the set of PIDs at the path; `mount` and `orphan`,
  the file the container has mounted; `io[p]`, a read-modify-write in progress:
  `ReadFor` is the read and what is going to be written, `OpenFile` the
  truncation, `WriteFile` the write, which does not shorten the file and so keeps
  the tail of what others wrote meanwhile. `disturbed` is a history variable: it
  becomes TRUE when two cycles overlap, when process 1 reads a truncated file,
  when the daemon unlinks a file that somebody is in, or when a writer is killed
  after truncating.
* **`Container`**: `wpc`, the steps of `litterbox wait`; `event`, the inotify
  queue; `bg`, background processes; `sock`, the socket at the path.
* **`Daemon`**: `lock`, one action per step of `daemon::run`, of `start_ssh_agent`
  and of `start_ssh_server`; `lockRaced`, history: two daemons were between the
  look and the write. A daemon reads its standard input to the end first
  (`"stdin"`, which its terminal ends). `DaemonBind` and `DaemonConnect` are apart:
  in between the file at the path may go, and then the connect is an error
  (`DaemonFails`), or be another daemon's, which then gets the keys
  (`DaemonForeign`, where that daemon's user may be asked).
* **`Enter`**: one action per step of `enter::run`, with a step for each half of a
  write; `EnterStartDaemon` may be refused at the password prompt and else ends
  with the daemon spawned, `EnterHandOver` is the password's way into the pipe. A
  terminal that is killed between the two (`"cut"`) leaves the daemon without a
  password, which fails at the first attached key (`DaemonRegister`).
* **`SharedContainer`** is the abstract specification: sessions join and leave,
  the container starts for somebody, closes only when there is nobody, and stops;
  after `Break` nothing is promised. `Litterbox` implements it with `users` the
  registered sessions, `phase` from `wpc`, and `broken` the variable `disturbed`.
* **`Keyfile`**: the file (`missing`, `empty`, `torn`, `ok`), and per command its
  copy in memory and the password it gave the daemon it spawned. A ciphertext is
  the password it decrypts with. A save may fail before or after it has truncated
  the file (`SaveFails`) or be killed there (`Kill`); `LeaveFile` is what is then
  left of it. `ledger` is what the commands have reported, `cut` whether one was
  ever cut off in its write.
* **`KeyStore`** is its abstract specification: a store of keys that a command
  changes in one step, as asked, or leaves alone; a kill or an error in the midst
  of a write loses it, and every later command fails; after `Break` nothing is promised.
  `Keyfile` implements it with `store` what the file holds or, once a save has
  truncated it, what is going to be in it, without the ciphertexts and the
  passwords they need (`Opened`), and `broken` the variable `overlapped`.
* **`Agent`**: one request at a time per connection, from when it is sent:
  russh reads it and refuses what a sealed agent does not take (`ReadRequest`),
  then `confirm_request` in its steps, the daemon's own connection `Own` among the
  others. `sealed` is russh's own lock, which a client's Lock and Unlock requests
  set and unset (`Seals`, with a passphrase that may not fit); it is apart from
  `locked`, the program's.
* **`Keyring`** is its abstract specification: keys are given until the agent is
  locked; then a request is served, in one step, after a consent of its own or, to
  list the keys, one for the session, or it is refused; a sealed keyring refuses
  all but Unlock. `Agent` implements it with
  `keys` what russh holds, `asked` the request of a connection that the agent has
  not answered, and `leave` from where the request is in `confirm_request`
  (`LeaveOf`). The daemon's own connection is not among its clients: what it asks
  for is `Give` and `Lock`.
* **`Entrypoint`**: `setup_home` with its marker and the script that a killed
  entrypoint leaves running, then the process tree with zombies, orphans and
  subreapers, any number of sessions in one container, `kill(-1, ...)` included.
  A process's place in the tree is the set `above[p]` of shells and jobs it
  descends from, and `root[p]`, the entrypoint or process 1 above those; the
  kernel's reparenting cuts the first and changes the second.
* **`Settings`**: operators, no state: `Prompt`, what the prompts make of the old
  settings and the answers on a host, and `PodmanArgs`, the arguments that
  `podman create` gets for the result.
* **`DeviceNode`**: the type of a device node, by the bits of `st_mode`.
* **`Lifecycle`**: every step of define, build, delete and device, each of which
  may fail or be the last before a kill, on one Litterbox. The Dockerfile and the
  settings file are truncated in one step and written in the next; a Dockerfile
  that was cut off in between is empty or torn (`LeaveDockerfile`). A delete whose
  question is not answered with yes ends in `"kept"`, which is no failure. The
  module has the settings file with what was written in it, and the history variable `options`, the
  arguments of the last `podman create`. Sessions are two environment actions;
  a third lets devices and PipeWire come and go.
* **`Stages`** is its abstract specification: a definition, then an image, then a
  container with a home, made by define and build, taken down by delete, the
  container first; a command reports success only at the end of its way, or when a
  delete is called off, and may fail anywhere before. A definition is begun and
  then written; one that was left when it was begun is of use to nobody and stays.
  After `Break` nothing is promised. `Lifecycle` implements
  it with `image` and `box` the only image and container, `definition` the
  Dockerfile's author, `phase` from the program counter (`StageOf`), and `broken`
  the variable `overlapped`. The settings, the socket, the lockfile and the looks
  that come before each step are hidden.
* **`*Claims`**: what the repository's documents and comments say and the code
  does not do, one property for each "violation" run.
* **`MC*`**: symmetry sets, constraints and constants for TLC.
* **`LitterboxProofs`, `KeyfileProofs`, `AgentProofs`, `EntrypointProofs`,
  `SettingsProofs`, `LifecycleProofs`**: theorems; **`LitterboxLiveness`**,
  **`EntrypointLiveness`**: those about what happens in the end.

Definitions headed "Mutant of X" are X with a plausible bug. No specification
uses them; put in the place of X, each makes one property fail.

### Abstractions

* The order and the multiplicity of PIDs in the lockfile are left out: the code
  only asks whether one is contained, filters, and asks whether any is left. PIDs
  have the same width, so a longer list is a longer file.
* `path.exists()` and the read or removal that follows are one step. Between them
  the file may go, and the call then fails as one does a step later.
* The daemon lockfile is written in one step: a truncated one does not parse, and
  every reader takes that for no daemon.
* A daemon that got another daemon's socket (`DaemonForeign`) leaves its own where
  it is, and what it registers there is in no property.
* A PID is never that of an unrelated process, except that lockfiles left by an
  earlier boot may list PIDs that new terminals get (`FileInit`), and a daemon
  lockfile names `Ghost`, which is dead.
* A terminal runs once. In `Entrypoint` process 1 reaps at once; when it is slow
  is in `Container`.
* What `/prep-home.sh` does is left out, its exit status is not looked at by the
  code, and it is taken to leave no process behind. The drop of privileges,
  Landlock and the directories can only fail (`SetupFails`).
* In `Agent`, a key that was added with the constraint that it be confirmed is left
  out: the code panics on it (`todo!` at `agent.rs:79`). The passphrase of Lock and
  Unlock is only whether russh accepts it. What `Litterbox` has of the agent is that
  the registration of the keys ends, with an error or without; that a client of
  the socket seals it meanwhile is there one of the `keys` faults.
* An imported key is a key: reading its file and asking for its own password can
  only fail (`ImportKey`).
* In `Lifecycle` the image id that build looked up is taken to exist as long as an
  image of the Litterbox does, and a podman id is known by the name it goes by.
  Only commands that overlap could tell. Two generated names differ.
* A settings file is the settings it means, or empty, or torn. A field that an
  older release did not write has the value it has in `Defaults`, as
  `#[serde(default)]` gives it. The descriptor of a settings file that delete
  removed while a build wrote it is not followed to a third command.
* Major and minor numbers of devices, and the arguments of `podman create` that
  are always the same, are left out.

## The runs

| Run | Instance | Properties |
|---|---|---|
| `safety` | 2 terminals, each with a daemon, every fault; `OneKindOfRace`; 2 million states | `TypeOK`, `UniqueDaemon`, `NoLostWakeup`, `SessionsListed`, `SocketKept`, `ExitDecisionSound`, `NeverStuck`, `SharedContainerSpec` |
| `endings` | 2 terminals, which may be killed, fair; `CalmOrOneDaemon` | `NothingLeft`, `ContainerStopsAtLast`, `DaemonsExit`, `EnterProceeds` |
| `keyfile` | 3 commands of 8 kinds, 2 key names, 1 Litterbox, a plain and a padded password, kills and failing saves; 4.2 million states | `TypeOK`, `KeysConsistent`, `CommandsDecrypt`, `DaemonDecryptsAlone`, `ReadableAtRest`, `SerialCommandsStick`, `CommandsAreAtomic` |
| `entrypoint` | 2 sessions, 2 background processes, every `--wait`, a new home or an old one, interrupts, fair | `TypeOK`, `WaitKept`, `HomePrepared`, `SetUpOnce`, `EntrypointsRun`, `EndsAfterShell`, `EndsWithLastProcess` |
| `agent` | 2 clients, 1 attached key and a foreign one, Lock and Unlock, fair; 0.6 million states | `TypeOK`, `GrantsConsented`, `KeysServed`, `TasksRun`, `ConsentsAreKept`, `LocksWithoutUser`, `ListsWithoutUser` |
| `lifecycle` | 3 commands, failures and kills at every step; 1 exposure, 1 size, 2 paths that come and go, a block, a character and another file; 2.3 million states | `TypeOK`, `OneOfEach`, `SettingsReadable`, `NodesFaithful`, `SessionsRespected`, `BuildDelivers`, `MadeInStages` |
| `claim_all_close` | 2 terminals, kills, fair, `Calm` | `StopsWhenAllClose` is violated |
| `claim_under_shell` | 2 terminals, `Calm` | `NeverStopsUnderShell` is violated |
| `claim_one_daemon` | 2 terminals | `OnlyOneDaemon` is violated |
| `claim_handoff` | 2 commands | `KeysDecryptable` is violated |
| `claim_failure_waits` | 2 sessions | `FailureWaits` is violated |
| `claim_placeholder` | 2 commands, one after the other (`Serial`) | `PlaceholderThere` is violated |

What they show, in words:

* **Sessions.** The lockfile protocol is correct as long as its updates do not
  overlap: no PID is lost, and process 1 closes only an empty Litterbox
  (`SessionsListed`, `ExitDecisionSound`, `SharedContainerSpec`, all under
  `~disturbed`). `disturbed` names exactly what the missing lock allows. Whatever
  happens, even then, the inotify protocol loses no wake-up (`NoLostWakeup`).
* **The daemon.** Stale lockfiles, zombies and late exits never give two owners;
  only two daemons between the look and the write do (`UniqueDaemon`, and
  `claim_one_daemon` for the rest). Every daemon ends after the container
  (`DaemonsExit`), and the last leaves no socket, and no lockfile but that of a
  daemon that failed (`NothingLeft`), which the next takes over.
  A daemon that exits removes its lockfile before its `SshSockFile` is dropped,
  and the drop removes whatever is at the path: in between a successor may have
  bound its socket there. If it had not connected to it yet, it fails, without any
  fault, while its container runs, though `ARCHITECTURE.md:7` says that it persists
  until the container is stopped; if it had, the socket is gone
  while the successor serves on. `SocketKept` says that this is the only way to
  lose it. A daemon also fails if its terminal is killed before it has handed the
  password over.
* **Endings.** The container stops after the last session if a daemon serves, to
  clean up after a killed terminal (`ContainerStopsAtLast`); without that premise,
  so if its only daemon failed as above, it does not (`claim_all_close`). A session that comes while process 1 waits for
  background processes is not protected (`claim_under_shell`).
* **Keys.** However commands interleave, the passwords in a readable file agree
  (`KeysConsistent`): each command checks the password against the copy it saves.
  What it reports may be undone by another's save, so `SerialCommandsStick` is
  only of commands that do not overlap. Those each take effect at once or not at
  all, except that one which is killed, or whose write fails, after the truncation
  leaves a file that no command reads (`ReadableAtRest`, `KeyStore`'s `Lose`); and a
  changed password opens the same keys with the same attachments
  (`CommandsAreAtomic`). The daemon relies on a password checked
  against an earlier copy (`claim_handoff`), and on its having no space at an end
  (the exception in `DaemonDecryptsAlone`).
* **Entrypoints.** `--wait` is kept for a shell that succeeds or is killed, up to
  what was orphaned before `set_child_subreaper` (`WaitKept`); for a shell that
  returns another status it is not (`claim_failure_waits`). No shell runs in a home
  that was never set up, whoever was killed on the way (`HomePrepared`); that the
  script runs beside a shell takes two first entries at once (`SetUpOnce`).
  No terminal, daemon, process 1, entrypoint or task of the agent is ever without a
  next step, unless it waits for a shell, a child, an event, the user or a script
  (`NeverStuck`, `EntrypointsRun`, `TasksRun`): no read, lock, PID or answer that
  it finds, left by whatever crash, is one it has no branch for.
* **Agent.** Consent is not lost between connections, and the daemon's registration
  needs no user: it ends with the agent locked, or, if a client has sealed the agent
  before, with an error (`LocksWithoutUser`). However the requests of several connections and their dialogs
  interleave, each is served or refused as if at once: a consent reaches the
  request it was given to, is used by it, and, unless it was for the session, by
  no other (`ConsentsAreKept`).
* **Lifecycle.** Failures and kills never leave a second image or container, and
  reports of success are true, though a build may need to be run twice
  (`claim_placeholder`): the first removes the socket's file and fails. What a
  build reports is also that the container is the one that the settings file
  describes (`BuildDelivers`), which ties the prompt, the file, its reading and
  the forty arguments of `podman create` together. A settings file or a Dockerfile
  is not lost to a command that runs alone (`SettingsReadable`, `DefinitionIsKept`).
  While sessions run, only a build whose user agreed to replace *their* container
  touches its files, and no delete reaches their home (`SessionsRespected`).
  What a build reports leaves out the socket's placeholder, which is removed as the
  build ends. A Litterbox is made and taken down in stages, whatever fails on the way, and a
  delete that was confirmed and reports success has taken down image and container
  (`MadeInStages`). So wherever commands stop there is no container without its
  image and home and no image without its Dockerfile (`StagesAreLayered`, proved),
  and the next command has something that it can go on from, with one exception:
  a Dockerfile left empty by a command that was stopped between truncation and
  write, which define does not replace and of which nothing is built.

### Bounds

Two terminals are every pair that can meet at the lockfile: two updates, or an
update and the daemon's cleanup, with process 1 reading. Two daemons are a dying
one and its successor, or two that race; a third adds no new kind of step, and
the theorems hold for any number. Three key commands are two that
overwrite each other's work and a third (or its daemon) that reads the result.
Two clients are a request and its rival, with the daemon's own connection a third.
One attached key can be used, removed or added again by a client before, while and
after the daemon registers it, and the agent be sealed at any of these; the theorems
about the agent hold for any set of keys. Two background processes are a parent and its child, so that one is orphaned
below the shell. Three lifecycle commands are one that fails or is killed, one that
finds what it left, and one more, or two at once and one to find what they left.
One exposure, whose device may be away when the user is asked and there when the
container is created, and the other path, the GPU's, which is not asked about, are
the two ways in which the host enters the arguments; a size can be set and unset.
The other options take the same way (`ArgsTellSettings` is proved for all of
them). No counter is bounded: the models have none.

`Calm` (`~disturbed /\ ~lockRaced`) is used as a constraint where a property is
only of undisturbed behaviours, and in the claims to show that they do not need
the other races. `OneKindOfRace` bounds `safety`: no step is taken from a state in
which an update has been disturbed *and* two daemons have raced for the lockfile.
Of the properties of `safety`, only `NoLostWakeup` and `NeverStuck` say anything of
such states. The first is proved for all of them (`WakeupNotLost`). The second is
checked up to them; the part of it that concerns the files, that a process has a
read or a truncated lockfile in hand exactly when it says so, is `InStep` in
`LitterboxProofs`, which is invariant whatever has been disturbed.
`CalmOrOneDaemon` bounds `endings`: behaviours in which an
update was disturbed or two daemons raced, *and* two daemons were spawned, are cut,
for time. `Serial` keeps
the counterexample of `claim_placeholder` to commands that do not overlap.
`CHECK_DEADLOCK FALSE` stands in every configuration because the system may stop:
every terminal has run once, every command has ended.

### Fairness

* `Litterbox`: every enter process, every daemon and process 1 are scheduled, and
  podman answers. Weak fairness of the disjunction of a process's steps is right,
  as each process is sequential and its next step stays enabled. There is none
  for the end of a shell or of a background process, for kills, or for the user.
  Since `EnterStartDaemon` includes the user's answer at the prompt,
  `EnterProceeds` starts after it. Nor is there any for `DaemonForeign`, where
  another daemon's user is asked. A daemon that waits for its password waits for
  its terminal, which is scheduled or killed.
* `Entrypoint`: an entrypoint's steps from when its home is set up, the timeout
  among them, not those of the processes of the user, the script's end, nor an
  interrupt.
* `Agent`: each connection's task and the daemon's main task; never the user, nor
  the failure of a dialog.

## The proofs

All theorems hold for any sets of processes; the assumptions are those named in
the modules (distinct names, a finite set of sessions, some password).

* **`TypeCorrect`** in each module: `TypeOK` is inductive, in `Lifecycle` together
  with `Held`, what a command remembers where it needs it.
* **`DaemonIsUnique`** (`UniqueDaemon`). The invariant `LockInv` adds: while no
  two daemons raced, whoever owns or claims the lockfile is alone, and an owner's
  PID is in it until it removes it, so that a newcomer sees a live PID and leaves.
  **`SocketIsKept`** (`SocketKept`) follows: all who remove the file but the
  exiting predecessor are past the lockfile.
* **`NothingIsLeft`** (`NothingLeft`), which assumes that daemons neither are killed
  fail for podman or the keys (`Faults \subseteq {"kill_enter"}`). They may still
  fail to connect, or for want of a password. `LeftInv`: a PID in the daemon
  lockfile is that of its owner or of a daemon that failed, and a socket at the path
  has a daemon that will remove it, or is from before the first one.
* **`WakeupNotLost`** (`NoLostWakeup`). `WakeInv`: after the watch was added, if
  process 1 has read a file that was not empty and blocks, then either that is
  still so or the change raised an event. It needs that a file becomes empty only
  by a truncation, which raises one, and that an unlink keeps the mounted inode.
* **`NoSessionIsLost`** (`SessionsListed`) and **`ExitIsSound`**. `ListInv` is the
  strengthening: `InStep`, a process's program counter agrees with its `io`, and,
  while undisturbed, at most one process is in a cycle; and `NobodyLost`, what it
  is about to write has every registered session. Neither is inductive without
  the other: the write of a stale buffer is excluded only because nobody else
  could have registered since the read.
* **`LitterboxIsShared`** (`SharedContainerSpec`): initial states map to initial
  states; each step maps to a step of `SharedContainer` or a stutter. `WaitRead`
  maps to `Close` by `ExitIsSound`'s lemma, `EnterStart` to `Start` because the
  session that starts the container is registered, and a step that sets
  `disturbed` to `Break`.
* **`KeysStayConsistent`**, **`CommandsNeverPanic`**. `SoundInv`: the file, and
  every copy in memory past its load, has one password for all its keys and no two
  keys of a name. It is preserved by each command on its own copy, whatever
  the file has become.
* **`DaemonsDecrypt`**, **`FileIsReadable`**, **`CommandsStick`**. `SerialInv`: as long
  as no two commands overlapped, one is in flight at most, the copy that it acts on
  is what the file holds (`SerialAt`), and a file that can be read, and the copy
  about to be saved, hold what is reported (`Sticks`).
* **`NothingUnasked`** (`GrantsConsented`). `ConsentInv` ties every stage of a
  request to what justifies it, with `approved => session`.
  **`KeysAreServed`** (`KeysServed`). `KeysInv`: every attached key is still to be
  registered, held, or removed by a request that was early or approved.
* **`WaitIsKept`** (`WaitKept`). `Tree`: what is above a live process runs, in one
  line, each the parent of the next, from one whose parent is the root. Sets of
  ancestors make that a statement without recursion, which `Pruned`, `Grown` and
  `Cut` show to survive an exit, a start and a new root. On it rest `ShellPlace`
  and `JobPlace` (a background process that did not escape has its session's
  entrypoint as its root) and `NothingStarts`; so an entrypoint that has no
  children has no descendants.
* **`HomeIsPrepared`**, **`HomeSetUpOnce`**. `HomeInv`: a marker means that a script
  has returned, and nobody is past the set-up without one (`MarkedPrepared`);
  while a script runs, unless entries raced, it is the only one and there is no
  marker yet (`OneScript`).
* **`EnterKeeps`**: Enter at every prompt keeps all settings but those whose device
  or socket is away. **`ArgsTellSettings`**: settings that differ give
  `podman create` different arguments, on any two hosts.
* **`OneOfEachCorrect`**, **`SettingsAreReadable`**, **`BuildsDeliver`**,
  **`DeletesDeliver`**, **`DefinitionIsKept`**, **`SessionsAreRespected`**. Each is
  about commands that do not overlap, and rests on `SerialInv`: one command in
  flight (`Alone`), one image and one container at most (`Single`), no unreadable
  file but for one who writes it (`Unspoiled`), and `SerialAt`, what the command
  found or left is still so when it uses it. None of the six is inductive: that a
  build makes no second container needs that what it found, steps ago, is still
  all there is.
* **`NodesAreFaithful`** (`NodesFaithful`), whatever commands interleave.

* **`KeyFileIsAtomic`** (`CommandsAreAtomic`, the refinement of `KeyStore`). A
  load is `Ask`, the change of the copy in memory a stutter, opening the file to save
  it `Apply` (or `Create`), the write `Report` (or `Made`). By `SerialInv` the copy that it saves is what
  the file held plus its own change, and by `SoundInv` all keys of that copy have
  its password, so `Opened` hides none; `AtomicInv` adds, for the copy about to be
  saved, that its change to what the file held is `Outcome` of the request.
* **`AgentIsKeyring`** (`ConsentsAreKept`, the refinement of `Keyring`). A load
  of `approved_for_session` that finds it set, and a load of `locked` that finds it
  unset, are `Grant`; the user's answer is `Consent` if it approves and else hidden,
  the return of the dialog `Grant` or `Refuse`, `Perform` is `Serve`, or `Give` on the
  daemon's own connection. `ConsentInv` and `OwnInv` say why a request that passes a
  test may be granted, and `ReplyInv` that there is no answer before the dialog's.
* **`LitterboxesMadeInStages`** (`MadeInStages`, the refinement of `Stages`). Most
  steps of a command are looks, which are hidden (`HiddenStep`), or ways to fail
  (`FailedStep`). The others act on what an earlier step looked for, so `SerialInv`
  is needed for each: `podman create` makes a container with an image and a home
  underneath, `podman image rm` removes one whose container is gone, because nobody
  else ran in between (`MakesStages`, `RemovesStages`).
  **`StagesAreLayered`** (`NothingUnderneathGone`) is then proved without
  `Lifecycle`: `Layered` is an inductive invariant of `Stages`, and the
  refinement carries it over. It, `DefinitionKept` and `DeleteDelivers` are stated
  in `Lifecycle` and proved; no run checks them by themselves, as the run checks
  `OneOfEach` and `MadeInStages`, from which they follow but for the step with which
  commands begin to overlap, a start that changes no file, and for the files that
  `Stages` does not have, which a delete that is called off leaves alone too.
* **`RegistersUnasked`**. `OwnInv`: until the agent is locked no request of any
  connection has got past the test of `locked`, so none of the daemon's own waits
  for the user, and one is refused only if the agent is sealed.

### What happens in the end

A proof of liveness has three parts: from where it is, a process's step brings it
nearer to its end; the others do not take it back; and it has a step to make, or
fairness does not force one. The last is about `ENABLED`, which the provers do
not have. It is stated on its own: `NeverStuck`, `EntrypointsRun` and `TasksRun`
are state predicates, which TLC checks as invariants (`NeverStuck` in `safety`,
with every fault, up to `OneKindOfRace`). The first two parts, and the
conclusion, are proved, for any number of processes: each theorem reads
`FairSpec /\ []NeverStuck => property`.

* **`EntersProceed`** (`EnterProceeds`): the places from the prompt to the shell in
  their order; `EnterMovesItself`: nobody else moves an enter process but to its end.
* **`DaemonsAllExit`** (`DaemonsExit`). `Togo(d)`: the steps that the daemon has to
  go, at most, once the container is down. Only a terminal that enters can set it
  back, and the property excludes that.
* **`ContainerStopsInTheEnd`** (`ContainerStopsAtLast`), for terminals that may be
  killed. First the daemon has `Emptying(d)` steps to go until the lockfile lists
  nobody, and by `LockInv` nobody else writes it meanwhile (`OthersLeaveLockfile`);
  then process 1 has `Stopping` to go (`ContainerGoesOn`), whose blocked read ends
  because `WakeInv` gives it an event.
* **`ListsUnasked`** (`ListsWithoutUser`), **`LocksUnasked`** (`LocksWithoutUser`).
* **`EntrypointsEndAfterShell`** (`EndsAfterShell`), **`EntrypointsEndWithLast`**
  (`EndsWithLastProcess`). An entrypoint that has to end (`Due`) has `EntryTogo(s)`
  steps to go as long as it reaps nobody, and it is not waiting for anybody
  (`DueRuns`): what is alive below it is its shell or of its session
  (`RootOwner`), and one that still blocks after it reaped its shell was told to
  (`ShellReaped`).

Each reaped process, and each registered key, takes finitely many steps of these,
and there are finitely many of them; but "a set that only shrinks stops shrinking"
is an induction over data. The theorems about entrypoints and `LocksUnasked`
therefore assume what it would give: that there is a last process that is reaped
(`FinitelyReaped`), a last key that is registered (`FinitelyRegistered`). Each is so
of every behaviour of a finite instance, since `Reaped` only grows
(`NobodyReturns`) and `left` only shrinks. The runs check the properties without
these assumptions.

Only model-checked: `NeverStuck`, `EntrypointsRun`, `TasksRun`. Every other invariant
and action property that a passing run checks, and all four refinements, are proved,
and every temporal property under those three.

## Not modelled

Landlock, the environment, templates, log files, the layout of the dialog, list
and printing, the name generator (a name is fresh), what `/prep-home.sh` does, and
everything outside the program (website, installer, CI): they keep no state of
the program's and do not meet each other. Of what is modelled: PIDs reused by
strangers, errors of the file system in the session protocol and on the daemon's
log, and the exit codes
of commands.

`Lifecycle` and the session protocol are not composed: a build that replaces the
container of running sessions removes the daemon's socket, empties the mounted
lockfile and kills the shells. `Lifecycle` says whose container that can be; what
an emptied lockfile does is in `Litterbox`, where the same truncation comes from
the terminals. The product of the two is beyond what TLC explores with two
terminals. Nor is `Agent` composed with the socket: since enter does not
wait for the daemon that it starts, a shell may have mounted the socket of an
earlier one, and nothing of the program's notices.

## Plan

1. *(done)* The session protocol: `Host` to `Litterbox`, `SharedContainer`;
   `Keyfile`, `Agent`, `Entrypoint`, `Lifecycle`, each with its safety proved.
2. *(done)* `Settings` and `DeviceNode`, and their file and nodes in `Lifecycle`;
   `setup_home`, run by several entrypoints, in `Entrypoint`.
3. *(done)* `KeyStore` and its refinement; the liveness properties, proved from
   `NeverStuck`, `EntrypointsRun` and `TasksRun`.
4. *(done)* `Keyring` and `Stages`, what the agent promises and what a sequence of
   define, build and delete does, and their refinements.
5. Left: a build in the midst of sessions as a process of `Litterbox`, with one
   terminal.
