------------------------------ MODULE Keyfile ------------------------------
(***************************************************************************)
(* The key file ~/Litterbox/keys.ron (keys.rs) and the commands that load  *)
(* it, change the copy in memory and save the whole of it, with no lock:   *)
(* `litterbox keys ...`, and `litterbox enter`, which asks for the         *)
(* password, with the daemon it spawns, which loads the file again and     *)
(* decrypts the keys attached to its Litterbox with that password.         *)
(*                                                                         *)
(* A key's ciphertext is represented by the password it decrypts with, a   *)
(* password hash by the password it accepts, and the private key by `id`,  *)
(* the command that made it.  prompt_password returns only a password that *)
(* the hash in memory accepts, or fails because the user gives up.         *)
(***************************************************************************)
EXTENDS Integers, FiniteSets

CONSTANTS
  Commands,    \* the processes that use the key file
  Names,       \* of keys
  Boxes,       \* names of Litterboxes
  Passwords,
  NoPassword,  \* the empty input of a daemon that got no password
  Old,         \* the id of a key that was there before
  Trimmed,     \* Trimmed[p]: str::trim of p
  Kills        \* whether processes may be killed

ASSUME KeyfileNames  == Old \notin Commands /\ NoPassword \notin Passwords
ASSUME SomeOfEach    == Passwords # {} /\ Names # {} /\ Boxes # {}
ASSUME TrimPasswords == Trimmed \in [Passwords -> Passwords]
ASSUME KillsBoolean  == Kills \in BOOLEAN

VARIABLES
  diskSt,     \* the file: "missing", "empty", "torn" (it does not parse) or "ok"
  disk,       \* its contents when "ok"
  at,         \* at[c]: where command c is
  op,         \* op[c]: what it has been asked to do
  mem,        \* mem[c]: the Keys it has in memory
  pw,         \* pw[c]: the password given to the daemon it spawned
  ledger,     \* history: the keys there should be, going by what commands reported
  overlapped, \* history: a command started while another had not finished
  cut         \* history: a command was killed, or failed, while it wrote the file

diskVars    == <<diskSt, disk>>
historyVars == <<ledger, overlapped, cut>>
vars        == <<diskVars, at, op, mem, pw, historyVars>>

Ids      == Commands \cup {Old}
Key      == [name : Names, id : Ids, pwd : Passwords, boxes : SUBSET Boxes]
Contents == [hash : Passwords, keys : SUBSET Key]
Blank    == [hash |-> CHOOSE p \in Passwords : TRUE, keys |-> {}]

Kinds == {"generate", "import", "delete", "attach", "detach", "passwd", "print", "enter"}
Ops   == [kind : Kinds, name : Names, box : Boxes]
Place == {"idle", "init", "act", "create", "creating", "save", "saving",
          "spawned", "done", "failed", "panicked"}

Named(keys, n)    == {k \in keys : k.name = n}
Attached(keys, b) == {k \in keys : b \in k.boxes}
Entries(keys)     == {<<k.name, k.id>> : k \in keys}

Goto(c, to)  == at' = [at EXCEPT ![c] = to]
InFlight(c)  == at[c] \notin {"idle", "done", "failed", "panicked"}
Writing(c)   == at[c] \in {"creating", "saving"}

\* Keys::load, then match on the subcommand.  A missing file is created, one
\* that does not parse is an error.
Load(c) ==
  /\ at[c] = "idle"
  /\ \E o \in Ops : op' = [op EXCEPT ![c] = o]
  /\ \/ diskSt = "missing" /\ Goto(c, "init") /\ UNCHANGED mem
     \/ diskSt = "ok" /\ Goto(c, "act") /\ mem' = [mem EXCEPT ![c] = disk]
     \/ diskSt \in {"empty", "torn"} /\ Goto(c, "failed") /\ UNCHANGED mem
  /\ overlapped' = (overlapped \/ \E other \in Commands \ {c} : InFlight(other))
  /\ UNCHANGED <<diskVars, pw, ledger, cut>>

\* Mutant of InitDefault: the user need not give a password.
InitWithoutPassword(c) ==
  /\ at[c] = "init"
  /\ \E p \in Passwords \cup {NoPassword} :
       mem' = [mem EXCEPT ![c] = [hash |-> p, keys |-> {}]]
  /\ Goto(c, "create")
  /\ UNCHANGED <<diskVars, op, pw, historyVars>>

\* Keys::init_default: a new password, and no keys.
InitDefault(c) ==
  /\ at[c] = "init"
  /\ \E p \in Passwords : mem' = [mem EXCEPT ![c] = [hash |-> p, keys |-> {}]]
  /\ Goto(c, "create")
  /\ UNCHANGED <<diskVars, op, pw, historyVars>>

\* Mutant of SaveOpen: the contents are not written.
SaveOnlyOpen(c) ==
  /\ \/ at[c] = "create" /\ Goto(c, "act")
     \/ at[c] = "save" /\ Goto(c, "done")
  /\ diskSt' = "empty"
  /\ disk' = Blank
  /\ UNCHANGED <<op, mem, pw, historyVars>>

\* save_to_file is fs::write: the file is truncated or created ...
SaveOpen(c) ==
  /\ \/ at[c] = "create" /\ Goto(c, "creating")
     \/ at[c] = "save" /\ Goto(c, "saving")
  /\ diskSt' = "empty"
  /\ disk' = Blank
  /\ UNCHANGED <<op, mem, pw, historyVars>>

\* ... and then written.  The rest of what another command has written in
\* between, if it is longer, makes the file unparsable.
SaveWrite(c) ==
  /\ \/ at[c] = "creating" /\ Goto(c, "act")
     \/ at[c] = "saving" /\ Goto(c, "done")
  /\ \/ diskSt' = "ok" /\ disk' = mem[c]
     \/ diskSt # "empty" /\ diskSt' = "torn" /\ disk' = Blank
  /\ ledger' = IF at[c] = "creating" THEN {}
               ELSE CASE op[c].kind \in {"generate", "import"} -> ledger \cup {<<op[c].name, c>>}
                      [] op[c].kind = "delete" -> {e \in ledger : e[1] # op[c].name}
                      [] OTHER -> ledger
  /\ UNCHANGED <<op, mem, pw, overlapped, cut>>

\* What is left of the file when a command stops: what was there, or a part of
\* what the command was writing.
LeaveFile(c) ==
  \/ UNCHANGED diskVars
  \/ Writing(c) /\ diskSt' = "torn" /\ disk' = Blank

\* The file cannot be opened or, once it is truncated, not be written: the disk
\* is full.  The command reports the error.
SaveFails(c) ==
  /\ at[c] \in {"create", "creating", "save", "saving"}
  /\ Goto(c, "failed")
  /\ LeaveFile(c)
  /\ cut' = (cut \/ Writing(c))
  /\ UNCHANGED <<op, mem, pw, ledger, overlapped>>

Fail(c) == Goto(c, "failed") /\ UNCHANGED mem

Change(c, keys) ==
  /\ mem' = [mem EXCEPT ![c].keys = keys]
  /\ Goto(c, "save")

\* Key::new encrypts with the password that the hash in memory accepts.
NewKey(c) == [name |-> op[c].name, id |-> c, pwd |-> mem[c].hash, boxes |-> {}]

\* Mutant of AddKey: the password is not checked before the key is encrypted.
AddKeyUnchecked(c) ==
  \E p \in Passwords : Change(c, mem[c].keys \cup {[NewKey(c) EXCEPT !.pwd = p]})

\* Keys::add
AddKey(c) == Change(c, mem[c].keys \cup {NewKey(c)})

Generate(c) ==
  /\ op[c].kind = "generate"
  /\ IF Named(mem[c].keys, op[c].name) # {} THEN Fail(c) ELSE AddKey(c)
  /\ UNCHANGED pw

\* A file that is not there, or not a key, is an error; for one that is
\* encrypted the user is asked until the password fits.  That password is not
\* the one the key is then encrypted with.
ImportKey(c) ==
  /\ op[c].kind = "import"
  /\ \/ Named(mem[c].keys, op[c].name) = {} /\ AddKey(c)
     \/ Fail(c)
  /\ UNCHANGED pw

\* Mutant of Delete: the named key is the one that is retained.
DeleteOthers(c) ==
  LET named == Named(mem[c].keys, op[c].name)
  IN /\ op[c].kind = "delete"
     /\ IF named = {} THEN Fail(c) ELSE Change(c, named)
     /\ UNCHANGED pw

Delete(c) ==
  LET named == Named(mem[c].keys, op[c].name)
  IN /\ op[c].kind = "delete"
     /\ IF named = {} THEN Fail(c) ELSE Change(c, mem[c].keys \ named)
     /\ UNCHANGED pw

Attach(c) ==
  LET m == mem[c]
      n == op[c].name
      b == op[c].box
  IN /\ op[c].kind = "attach"
     /\ IF Named(m.keys, n) = {} THEN Fail(c)
        ELSE \E k \in Named(m.keys, n) :
               IF b \in k.boxes THEN Fail(c)
               ELSE Change(c, (m.keys \ {k}) \cup {[k EXCEPT !.boxes = @ \cup {b}]})
     /\ UNCHANGED pw

\* The user selects the Litterboxes to detach.
Detach(c) ==
  LET m == mem[c]
      n == op[c].name
  IN /\ op[c].kind = "detach"
     /\ IF Named(m.keys, n) = {} THEN Fail(c)
        ELSE \E k \in Named(m.keys, n) : \E kept \in SUBSET k.boxes :
               Change(c, (m.keys \ {k}) \cup {[k EXCEPT !.boxes = kept]})
     /\ UNCHANGED pw

\* Mutant of ChangePassword: the keys are not encrypted again.
ChangeOnlyHash(c) ==
  LET m == mem[c]
  IN /\ op[c].kind = "passwd"
     /\ IF \E k \in m.keys : k.pwd # m.hash
          THEN Goto(c, "panicked") /\ UNCHANGED mem
          ELSE \E p \in Passwords :
                 /\ mem' = [mem EXCEPT ![c].hash = p]
                 /\ Goto(c, "save")
     /\ UNCHANGED pw

\* Mutant of ChangePassword: the keys come out attached to no Litterbox.
ChangeDetaches(c) ==
  LET m == mem[c]
  IN /\ op[c].kind = "passwd"
     /\ IF \E k \in m.keys : k.pwd # m.hash
          THEN Goto(c, "panicked") /\ UNCHANGED mem
          ELSE \E p \in Passwords :
                 /\ mem' = [mem EXCEPT ![c] =
                      [hash |-> p, keys |-> {[k EXCEPT !.pwd = p, !.boxes = {}] : k \in m.keys}]]
                 /\ Goto(c, "save")
     /\ UNCHANGED pw

\* Key::decrypt of every key with the password that the hash in memory accepts,
\* then encrypt with the new one.
ChangePassword(c) ==
  LET m == mem[c]
  IN /\ op[c].kind = "passwd"
     /\ IF \E k \in m.keys : k.pwd # m.hash
          THEN Goto(c, "panicked") /\ UNCHANGED mem
          ELSE \E p \in Passwords :
                 /\ mem' = [mem EXCEPT ![c] =
                      [hash |-> p, keys |-> {[k EXCEPT !.pwd = p] : k \in m.keys}]]
                 /\ Goto(c, "save")
     /\ UNCHANGED pw

PrintKey(c) ==
  LET named == Named(mem[c].keys, op[c].name)
  IN /\ op[c].kind = "print"
     /\ Goto(c, CASE named = {} -> "failed"
                  [] \E k \in named : k.pwd # mem[c].hash -> "panicked"
                  [] OTHER -> "done")
     /\ UNCHANGED <<mem, pw>>

\* Mutant of StartDaemon: no password is asked for when a key is attached.
StartDaemonBlind(c) ==
  /\ op[c].kind = "enter"
  /\ pw' = [pw EXCEPT ![c] = IF Attached(mem[c].keys, op[c].box) # {} THEN NoPassword
                                                                      ELSE mem[c].hash]
  /\ Goto(c, "spawned")
  /\ UNCHANGED mem

\* start_daemon: the password is asked for only if a key is attached.
StartDaemon(c) ==
  /\ op[c].kind = "enter"
  /\ pw' = [pw EXCEPT ![c] = IF Attached(mem[c].keys, op[c].box) = {} THEN NoPassword
                                                                      ELSE mem[c].hash]
  /\ Goto(c, "spawned")
  /\ UNCHANGED mem

Act(c) ==
  /\ at[c] = "act"
  /\ \/ Generate(c) \/ ImportKey(c) \/ Delete(c) \/ Attach(c) \/ Detach(c)
     \/ ChangePassword(c) \/ PrintKey(c) \/ StartDaemon(c)
  /\ UNCHANGED <<diskVars, op, historyVars>>

\* At a prompt the user may press Escape.
GiveUp(c) ==
  /\ \/ at[c] = "init"
     \/ at[c] = "act" /\ op[c].kind \in {"generate", "import", "detach", "passwd", "print", "enter"}
  /\ Fail(c)
  /\ UNCHANGED <<diskVars, op, pw, historyVars>>

\* The daemon trims what it reads from its standard input.
Received(c) == IF pw[c] = NoPassword THEN NoPassword ELSE Trimmed[pw[c]]

\* The daemon loads the file, which is not there to be created by it, and
\* start_ssh_server decrypts the attached keys.
DaemonKeys(c) ==
  /\ at[c] = "spawned"
  /\ IF diskSt # "ok" THEN Goto(c, "failed") /\ UNCHANGED mem
     ELSE /\ mem' = [mem EXCEPT ![c] = disk]
          /\ Goto(c, IF \E k \in Attached(disk.keys, op[c].box) : k.pwd # Received(c)
                       THEN "panicked" ELSE "done")
  /\ UNCHANGED <<diskVars, op, pw, historyVars>>

\* A command is killed, maybe between truncating the file and writing it.
Kill(c) ==
  /\ Kills
  /\ InFlight(c)
  /\ Goto(c, "failed")
  /\ LeaveFile(c)
  /\ cut' = (cut \/ Writing(c))
  /\ UNCHANGED <<op, mem, pw, ledger, overlapped>>

Consistent(keys)  == \A k \in keys.keys : k.pwd = keys.hash
UniqueNames(keys) == \A k, l \in keys.keys : k.name = l.name => k = l

\* No key file yet, or one with a key or none in it.
Init ==
  /\ \/ diskSt = "missing" /\ disk = Blank
     \/ /\ diskSt = "ok"
        /\ \E p \in Passwords, n \in Names, bs \in SUBSET Boxes :
             disk \in {[hash |-> p, keys |-> {}],
                       [hash |-> p, keys |-> {[name |-> n, id |-> Old, pwd |-> p, boxes |-> bs]}]}
  /\ at = [c \in Commands |-> "idle"]
  /\ op = [c \in Commands |-> CHOOSE o \in Ops : TRUE]
  /\ mem = [c \in Commands |-> Blank]
  /\ pw = [c \in Commands |-> NoPassword]
  /\ ledger = Entries(disk.keys)
  /\ overlapped = FALSE
  /\ cut = FALSE

Next == \E c \in Commands :
  \/ Load(c) \/ InitDefault(c) \/ SaveOpen(c) \/ SaveWrite(c) \/ SaveFails(c)
  \/ Act(c) \/ GiveUp(c) \/ DaemonKeys(c) \/ Kill(c)

Spec == Init /\ [][Next]_vars

-----------------------------------------------------------------------------

\* Every variable stays in its set.
TypeOK ==
  /\ diskSt \in {"missing", "empty", "torn", "ok"}
  /\ disk \in Contents
  /\ at \in [Commands -> Place]
  /\ op \in [Commands -> Ops]
  /\ mem \in [Commands -> Contents]
  /\ pw \in [Commands -> Passwords \cup {NoPassword}]
  /\ ledger \in SUBSET (Names \X Ids)
  /\ overlapped \in BOOLEAN
  /\ cut \in BOOLEAN

\* However commands interleave, one that adds a key under the password it
\* asked for and one that changes the password cannot leave a file that holds
\* a key the file's password does not decrypt, nor two keys of one name.
KeysConsistent == diskSt = "ok" => Consistent(disk) /\ UniqueNames(disk)

\* The expectation of Key::decrypt, keys.rs:74, holds in every command that
\* asks for the password itself.
CommandsDecrypt == \A c \in Commands : at[c] = "panicked" => op[c].kind = "enter"

\* It holds in the daemon if nobody changes the file after enter has asked for
\* the password, and the password has no space at its ends.
DaemonDecryptsAlone == \A c \in Commands :
  at[c] = "panicked" => overlapped \/ Received(c) # pw[c]

\* The file is unreadable only while a command writes it, or after two have
\* written at once, or after one was killed or failed in the middle of writing:
\* a command that fails anywhere else leaves a file that can be read.
ReadableAtRest ==
  diskSt \in {"empty", "torn"} => (\E c \in Commands : Writing(c)) \/ overlapped \/ cut

\* Commands that run one after the other, whether they are killed or fail, do
\* what they report: a file that can be read holds the keys that were generated
\* or imported and not deleted since, and no other.
SerialCommandsStick ==
  ~overlapped /\ diskSt = "ok" => Entries(disk.keys) = ledger

-----------------------------------------------------------------------------
(***************************************************************************)
(* The key file as a KeyStore.  A command changes it when it opens the     *)
(* file to write: what it holds from then on is what will be in it.        *)
(***************************************************************************)

\* The keys that the password opens.
Opened(keys) == {[name |-> k.name, id |-> k.id, boxes |-> k.boxes] :
                   k \in {l \in keys.keys : l.pwd = keys.hash}}

StoreState == CASE diskSt = "missing" -> "none"
                [] diskSt = "ok" -> "held"
                [] diskSt = "empty" /\ (\E c \in Commands : Writing(c)) -> "held"
                [] OTHER -> "lost"

Stored == IF diskSt = "empty" /\ (\E c \in Commands : Writing(c))
            THEN mem[CHOOSE c \in Commands : Writing(c)] ELSE disk

StorePhase(c) == CASE at[c] \in {"idle", "done"} -> at[c]
                   [] at[c] = "creating" -> "making"
                   [] at[c] = "saving" -> "applied"
                   [] at[c] \in {"failed", "panicked"} -> "failed"
                   [] OTHER -> "asked"

Store == INSTANCE KeyStore WITH
           state <- StoreState,
           store <- [hash |-> Stored.hash, keys |-> Opened(Stored)],
           phase <- [c \in Commands |-> StorePhase(c)],
           request <- op,
           broken <- overlapped

\* Commands that run one after the other find and leave the file as if each
\* changed it in one step, the way it was asked to, and reported what it did; one
\* that fails or is killed leaves no trace, unless it is writing, when the file
\* is lost; a password always opens the same keys, with the same attachments, as
\* the one before it.
CommandsAreAtomic == Store!Spec
=============================================================================
