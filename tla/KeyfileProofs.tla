--------------------------- MODULE KeyfileProofs ---------------------------
(***************************************************************************)
(* Theorems about Keyfile, for any commands, names and passwords.          *)
(***************************************************************************)
EXTENDS Keyfile, TLAPS

LEMMA BlankIsContents == Blank \in Contents /\ Consistent(Blank) /\ UniqueNames(Blank)
BY SomeOfEach DEF Blank, Contents, Consistent, UniqueNames

LEMMA SomeOp == Ops # {} /\ (CHOOSE o \in Ops : TRUE) \in Ops
<1>1. PICK n \in Names, b \in Boxes : TRUE
  BY SomeOfEach
<1>2. [kind |-> "print", name |-> n, box |-> b] \in Ops
  BY <1>1 DEF Ops, Kinds
<1> QED BY <1>2

LEMMA InitTypes == Init => TypeOK
<1> SUFFICES ASSUME Init PROVE TypeOK
  OBVIOUS
<1>1. disk \in Contents
  BY BlankIsContents DEF Init, Contents, Key, Ids
<1>2. ledger \in SUBSET (Names \X Ids)
  BY <1>1 DEF Init, Entries, Contents, Key
<1>3. op \in [Commands -> Ops]
  BY SomeOp DEF Init
<1>4. mem \in [Commands -> Contents] /\ pw \in [Commands -> Passwords \cup {NoPassword}]
  BY BlankIsContents DEF Init
<1> QED BY <1>1, <1>2, <1>3, <1>4 DEF Init, TypeOK, Place

\* Key::new and the changes of a key make keys.
LEMMA ActTypes ==
  ASSUME TypeOK, NEW c \in Commands, Act(c)
  PROVE  /\ at' \in [Commands -> Place]
         /\ mem' \in [Commands -> Contents]
         /\ pw' \in [Commands -> Passwords \cup {NoPassword}]
<1> DEFINE m == mem[c]
<1>0. /\ mem \in [Commands -> Contents] /\ at \in [Commands -> Place] /\ op[c] \in Ops
      /\ pw \in [Commands -> Passwords \cup {NoPassword}]
      /\ m \in Contents /\ m.hash \in Passwords /\ m.keys \in SUBSET Key
      /\ op[c].name \in Names /\ op[c].box \in Boxes
  BY DEF TypeOK, Contents, Ops
<1>1. ASSUME NEW keys \in SUBSET Key, Change(c, keys)
      PROVE  at' \in [Commands -> Place] /\ mem' \in [Commands -> Contents]
  <2>1. [m EXCEPT !.keys = keys] \in Contents
    BY <1>0, <1>1 DEF Contents
  <2> QED BY <1>0, <1>1, <2>1 DEF Change, Goto, Place
<1>2. ASSUME Fail(c) PROVE at' \in [Commands -> Place] /\ mem' \in [Commands -> Contents]
  BY <1>0, <1>2 DEF Fail, Goto, Place
<1>3. CASE Generate(c) \/ ImportKey(c)
  <2>1. NewKey(c) \in Key
    BY <1>0 DEF NewKey, Key, Ids
  <2> QED BY <1>0, <1>1, <1>2, <1>3, <2>1 DEF Generate, ImportKey, AddKey
<1>4. CASE Delete(c)
  BY <1>0, <1>1, <1>2, <1>4 DEF Delete
<1>5. CASE Attach(c)
  <2>1. ASSUME NEW k \in Named(m.keys, op[c].name)
        PROVE  (m.keys \ {k}) \cup {[k EXCEPT !.boxes = @ \cup {op[c].box}]} \in SUBSET Key
    BY <1>0 DEF Named, Key
  <2> QED BY <1>0, <1>1, <1>2, <1>5, <2>1 DEF Attach
<1>6. CASE Detach(c)
  <2>1. ASSUME NEW k \in Named(m.keys, op[c].name), NEW kept \in SUBSET k.boxes
        PROVE  (m.keys \ {k}) \cup {[k EXCEPT !.boxes = kept]} \in SUBSET Key
    BY <1>0 DEF Named, Key
  <2> QED BY <1>0, <1>1, <1>2, <1>6, <2>1 DEF Detach
<1>7. CASE ChangePassword(c)
  <2>1. ASSUME NEW p \in Passwords
        PROVE  [hash |-> p, keys |-> {[k EXCEPT !.pwd = p] : k \in m.keys}] \in Contents
    BY <1>0 DEF Contents, Key
  <2> QED BY <1>0, <1>7, <2>1 DEF ChangePassword, Goto, Place
<1>8. CASE PrintKey(c)
  BY <1>0, <1>8 DEF PrintKey, Goto, Place
<1>9. CASE StartDaemon(c)
  BY <1>0, <1>9 DEF StartDaemon, Goto, Place
<1> QED BY <1>3, <1>4, <1>5, <1>6, <1>7, <1>8, <1>9 DEF Act

\* Every variable stays in its set.
THEOREM TypeCorrect == Spec => []TypeOK
<1>1. TypeOK /\ [Next]_vars => TypeOK'
  <2> SUFFICES ASSUME TypeOK, [Next]_vars PROVE TypeOK'
    OBVIOUS
  <2>1. CASE UNCHANGED vars
    BY <2>1 DEF vars, diskVars, historyVars, TypeOK
  <2>2. ASSUME NEW c \in Commands, Act(c) PROVE TypeOK'
    BY <2>2, ActTypes DEF Act, diskVars, historyVars, TypeOK
  <2>3. ASSUME NEW c \in Commands, Load(c) PROVE TypeOK'
    BY <2>3 DEF Load, Goto, Place, diskVars, TypeOK
  <2>4. ASSUME NEW c \in Commands, InitDefault(c) PROVE TypeOK'
    BY <2>4 DEF InitDefault, Goto, Place, diskVars, historyVars, TypeOK, Contents
  <2>5. ASSUME NEW c \in Commands, SaveOpen(c) PROVE TypeOK'
    BY <2>5, BlankIsContents DEF SaveOpen, Goto, Place, historyVars, TypeOK
  <2>6. ASSUME NEW c \in Commands, SaveWrite(c) PROVE TypeOK'
    <3>1. ledger' \in SUBSET (Names \X Ids)
      BY <2>6 DEF SaveWrite, TypeOK, Ops, Ids
    <3>2. disk' \in Contents /\ diskSt' \in {"ok", "torn"}
      BY <2>6, BlankIsContents DEF SaveWrite, TypeOK
    <3> QED BY <2>6, <3>1, <3>2 DEF SaveWrite, Goto, Place, TypeOK
  <2>7. ASSUME NEW c \in Commands, GiveUp(c) \/ DaemonKeys(c) PROVE TypeOK'
    BY <2>7 DEF GiveUp, DaemonKeys, Fail, Goto, Place, diskVars, historyVars, TypeOK
  <2>8. ASSUME NEW c \in Commands, SaveFails(c) \/ Kill(c) PROVE TypeOK'
    <3>1. disk' \in Contents /\ diskSt' \in {"missing", "empty", "torn", "ok"}
      BY <2>8, BlankIsContents DEF SaveFails, Kill, LeaveFile, diskVars, TypeOK
    <3>2. cut' \in BOOLEAN
      BY <2>8 DEF SaveFails, Kill
    <3> QED BY <2>8, <3>1, <3>2 DEF SaveFails, Kill, Goto, Place, TypeOK
  <2> QED BY <2>1, <2>2, <2>3, <2>4, <2>5, <2>6, <2>7, <2>8 DEF Next
<1> QED BY <1>1, InitTypes, PTL DEF Spec

-----------------------------------------------------------------------------
(***************************************************************************)
(* Consistency.  Each command changes a copy that is consistent into one   *)
(* that is, and the file is always a whole copy.                           *)
(***************************************************************************)

Sound(keys) == Consistent(keys) /\ UniqueNames(keys)

SoundInv ==
  /\ \A c \in Commands : Sound(mem[c])
  /\ diskSt = "ok" => Sound(disk)
  /\ \A c \in Commands : at[c] \in {"spawned", "panicked"} => op[c].kind = "enter"

LEMMA ChangeIsSound ==
  ASSUME TypeOK, SoundInv, NEW c \in Commands, NEW keys \in SUBSET Key, Change(c, keys),
         \A k \in keys : k.pwd = mem[c].hash,
         \A k, l \in keys : k.name = l.name => k = l,
         UNCHANGED <<diskVars, op>>
  PROVE  SoundInv'
<1>1. mem'[c].hash = mem[c].hash /\ mem'[c].keys = keys
  BY DEF TypeOK, Contents, Change
<1>2. Sound(mem[c])'
  BY <1>1 DEF Sound, Consistent, UniqueNames
<1>3. \A d \in Commands \ {c} : Sound(mem[d])'
  BY DEF SoundInv, Change, TypeOK, Sound, Consistent, UniqueNames
<1>4. (diskSt = "ok" => Sound(disk))'
  BY DEF SoundInv, diskVars, Sound, Consistent, UniqueNames
<1>5. (\A d \in Commands : at[d] \in {"spawned", "panicked"} => op[d].kind = "enter")'
  BY DEF SoundInv, Change, Goto, TypeOK
<1> QED BY <1>2, <1>3, <1>4, <1>5 DEF SoundInv

LEMMA SameIsSound ==
  ASSUME SoundInv, UNCHANGED <<diskVars, mem, op>>,
         \A c \in Commands :
           at'[c] \in {"spawned", "panicked"} => at'[c] = at[c] \/ op[c].kind = "enter"
  PROVE  SoundInv'
BY DEF SoundInv, diskVars, Sound, Consistent, UniqueNames

LEMMA ActIsSound ==
  ASSUME TypeOK, SoundInv, NEW c \in Commands, Act(c)
  PROVE  SoundInv'
<1> DEFINE m == mem[c]
<1>0. /\ m.keys \in SUBSET Key /\ m.hash \in Passwords
      /\ op[c].name \in Names /\ op[c].box \in Boxes
      /\ \A k \in m.keys : k.pwd = m.hash
      /\ \A k, l \in m.keys : k.name = l.name => k = l
      /\ UNCHANGED <<diskVars, op>>
  BY DEF TypeOK, Contents, Ops, SoundInv, Sound, Consistent, UniqueNames, Act
<1>1. ASSUME Fail(c) PROVE SoundInv'
  BY <1>0, <1>1, SameIsSound DEF Fail, Goto, TypeOK
<1>2. CASE Generate(c) \/ ImportKey(c)
  <2> DEFINE new == NewKey(c)
  <2>1. new \in Key /\ new.name = op[c].name /\ new.pwd = m.hash
    BY <1>0 DEF NewKey, Key, Ids
  <2>2. CASE Named(m.keys, op[c].name) = {} /\ AddKey(c)
    <3>1. \A k \in m.keys : k.name # new.name
      BY <2>1, <2>2 DEF Named
    <3>2. Change(c, m.keys \cup {new})
      BY <2>2 DEF AddKey
    <3>3. \A k \in m.keys \cup {new} : k.pwd = m.hash
      BY <1>0, <2>1
    <3>4. \A k, l \in m.keys \cup {new} : k.name = l.name => k = l
      BY <1>0, <3>1
    <3> HIDE DEF new
    <3> QED BY <1>0, <2>1, <3>2, <3>3, <3>4, ChangeIsSound
  <2> QED BY <1>1, <1>2, <2>2 DEF Generate, ImportKey
<1>3. CASE Delete(c)
  BY <1>0, <1>1, <1>3, ChangeIsSound DEF Delete
<1>4. ASSUME NEW k \in Named(m.keys, op[c].name), NEW bs \in SUBSET Boxes,
             Change(c, (m.keys \ {k}) \cup {[k EXCEPT !.boxes = bs]})
      PROVE  SoundInv'
  <2> DEFINE new == [k EXCEPT !.boxes = bs]
  <2>1. k \in m.keys /\ k \in Key
    BY <1>0 DEF Named
  <2>2. new \in Key /\ new.name = k.name /\ new.pwd = k.pwd
    BY <2>1 DEF Key
  <2> HIDE DEF new
  <2>3. \A l, o \in (m.keys \ {k}) \cup {new} : l.name = o.name => l = o
    BY <1>0, <2>1, <2>2
  <2>4. \A l \in (m.keys \ {k}) \cup {new} : l.pwd = m.hash
    BY <1>0, <2>1, <2>2
  <2>5. Change(c, (m.keys \ {k}) \cup {new})
    BY <1>4 DEF new
  <2> QED BY <1>0, <2>2, <2>3, <2>4, <2>5, ChangeIsSound
<1>5. CASE Attach(c)
  <2>1. ASSUME NEW k \in Named(m.keys, op[c].name),
               Change(c, (m.keys \ {k}) \cup {[k EXCEPT !.boxes = @ \cup {op[c].box}]})
        PROVE  SoundInv'
    <3>1. k.boxes \cup {op[c].box} \in SUBSET Boxes
      BY <1>0 DEF Named, Key
    <3> QED BY <1>4, <2>1, <3>1
  <2> QED BY <1>1, <1>5, <2>1 DEF Attach
<1>6. CASE Detach(c)
  <2>1. ASSUME NEW k \in Named(m.keys, op[c].name), NEW kept \in SUBSET k.boxes,
               Change(c, (m.keys \ {k}) \cup {[k EXCEPT !.boxes = kept]})
        PROVE  SoundInv'
    <3>1. kept \in SUBSET Boxes
      BY <1>0 DEF Named, Key
    <3> QED BY <1>4, <2>1, <3>1
  <2> QED BY <1>1, <1>6, <2>1 DEF Detach
<1>7. CASE ChangePassword(c)
  <2>1. PICK p \in Passwords :
          /\ mem' = [mem EXCEPT ![c] = [hash |-> p, keys |-> {[k EXCEPT !.pwd = p] : k \in m.keys}]]
          /\ Goto(c, "save")
    BY <1>0, <1>7 DEF ChangePassword
  <2>2. Sound(mem[c])'
    <3>1. mem'[c] = [hash |-> p, keys |-> {[k EXCEPT !.pwd = p] : k \in m.keys}]
      BY <2>1 DEF TypeOK
    <3>2. \A k \in m.keys : [k EXCEPT !.pwd = p].pwd = p /\ [k EXCEPT !.pwd = p].name = k.name
      BY <1>0 DEF Key
    <3>3. mem'[c].hash = p /\ mem'[c].keys = {[k EXCEPT !.pwd = p] : k \in m.keys}
      BY <3>1
    <3>4. \A l \in mem'[c].keys : l.pwd = p
      BY <3>2, <3>3
    <3>5. ASSUME NEW l \in mem'[c].keys, NEW o \in mem'[c].keys, l.name = o.name PROVE l = o
      <4>1. PICK k \in m.keys : l = [k EXCEPT !.pwd = p]
        BY <3>3
      <4>2. PICK j \in m.keys : o = [j EXCEPT !.pwd = p]
        BY <3>3
      <4> QED BY <1>0, <3>2, <3>5, <4>1, <4>2
    <3> HIDE DEF m
    <3> QED BY <3>3, <3>4, <3>5 DEF Sound, Consistent, UniqueNames
  <2>3. \A d \in Commands \ {c} : Sound(mem[d])'
    BY <2>1 DEF SoundInv, TypeOK, Sound, Consistent, UniqueNames
  <2>4. (diskSt = "ok" => Sound(disk))'
    BY <1>0 DEF SoundInv, diskVars, Sound, Consistent, UniqueNames
  <2>5. (\A d \in Commands : at[d] \in {"spawned", "panicked"} => op[d].kind = "enter")'
    BY <1>0, <2>1 DEF SoundInv, Goto, TypeOK
  <2> QED BY <2>2, <2>3, <2>4, <2>5 DEF SoundInv
<1>8. CASE PrintKey(c)
  <2>1. ~ \E k \in Named(m.keys, op[c].name) : k.pwd # m.hash
    BY <1>0 DEF Named
  <2>2. UNCHANGED mem /\ (Goto(c, "failed") \/ Goto(c, "done"))
    BY <1>8, <2>1 DEF PrintKey
  <2> QED BY <1>0, <2>2, SameIsSound DEF Goto, TypeOK
<1>9. CASE StartDaemon(c)
  BY <1>0, <1>9, SameIsSound DEF StartDaemon, Goto, TypeOK
<1> QED BY <1>2, <1>3, <1>5, <1>6, <1>7, <1>8, <1>9 DEF Act

LEMMA SoundInvariant == Spec => []SoundInv
<1>1. Init => SoundInv
  <2> SUFFICES ASSUME Init PROVE SoundInv
    OBVIOUS
  <2>1. Sound(disk)
    BY BlankIsContents DEF Init, Sound, Consistent, UniqueNames
  <2> QED BY <2>1, BlankIsContents DEF Init, SoundInv, Sound
<1>2. TypeOK /\ SoundInv /\ [Next]_vars => SoundInv'
  <2> SUFFICES ASSUME TypeOK, SoundInv, [Next]_vars PROVE SoundInv'
    OBVIOUS
  <2>1. CASE UNCHANGED vars
    BY <2>1, SameIsSound DEF vars
  <2>2. ASSUME NEW c \in Commands, Act(c) PROVE SoundInv'
    BY <2>2, ActIsSound
  <2>3. ASSUME NEW c \in Commands, Load(c) PROVE SoundInv'
    BY <2>3 DEF Load, Goto, diskVars, TypeOK, SoundInv, Sound, Consistent, UniqueNames
  <2>4. ASSUME NEW c \in Commands, InitDefault(c) PROVE SoundInv'
    BY <2>4 DEF InitDefault, Goto, diskVars, TypeOK, SoundInv, Sound, Consistent, UniqueNames
  <2>5. ASSUME NEW c \in Commands, SaveOpen(c) PROVE SoundInv'
    BY <2>5 DEF SaveOpen, Goto, TypeOK, SoundInv, Sound, Consistent, UniqueNames
  <2>6. ASSUME NEW c \in Commands, SaveWrite(c) PROVE SoundInv'
    BY <2>6 DEF SaveWrite, Goto, TypeOK, SoundInv, Sound, Consistent, UniqueNames
  <2>7. ASSUME NEW c \in Commands, GiveUp(c) PROVE SoundInv'
    BY <2>7, SameIsSound DEF GiveUp, Fail, Goto, TypeOK
  <2>9. ASSUME NEW c \in Commands, SaveFails(c) \/ Kill(c) PROVE SoundInv'
    <3>1. diskSt' = "ok" => diskSt = "ok" /\ disk' = disk
      BY <2>9 DEF SaveFails, Kill, LeaveFile, diskVars
    <3>2. at' = [at EXCEPT ![c] = "failed"] /\ UNCHANGED <<op, mem>>
      BY <2>9 DEF SaveFails, Kill, Goto
    <3> QED BY <3>1, <3>2 DEF SoundInv, TypeOK
  <2>8. ASSUME NEW c \in Commands, DaemonKeys(c) PROVE SoundInv'
    BY <2>8 DEF DaemonKeys, Goto, diskVars, TypeOK, SoundInv, Sound, Consistent, UniqueNames
  <2> QED BY <2>1, <2>2, <2>3, <2>4, <2>5, <2>6, <2>7, <2>8, <2>9 DEF Next
<1> QED BY <1>1, <1>2, TypeCorrect, PTL DEF Spec

\* The key file never holds a key that its password does not decrypt, nor two
\* keys of one name.
THEOREM KeysStayConsistent == Spec => []KeysConsistent
<1>1. SoundInv => KeysConsistent
  BY DEF SoundInv, KeysConsistent, Sound
<1> QED BY <1>1, SoundInvariant, PTL

\* Key::decrypt never panics in a command that asks for the password itself.
THEOREM CommandsNeverPanic == Spec => []CommandsDecrypt
<1>1. SoundInv => CommandsDecrypt
  BY DEF SoundInv, CommandsDecrypt
<1> QED BY <1>1, SoundInvariant, PTL

-----------------------------------------------------------------------------
(***************************************************************************)
(* Commands that run one after the other.  Nobody but the command in       *)
(* flight touches the file, so what it has in memory is what the file      *)
(* holds, or will hold.                                                    *)
(***************************************************************************)

Alone == \A c, d \in Commands : InFlight(c) /\ InFlight(d) => c = d

\* What enter hands to the daemon for its Litterbox.
Handed(c) == IF Attached(mem[c].keys, op[c].box) = {} THEN NoPassword ELSE mem[c].hash

SerialAt(c) ==
  /\ Writing(c) => diskSt = "empty"
  /\ at[c] = "init" => diskSt = "missing"
  /\ at[c] \in {"act", "spawned"} => diskSt = "ok" /\ disk = mem[c]
  /\ at[c] = "spawned" => pw[c] = Handed(c)
  /\ at[c] = "panicked" => Received(c) # pw[c]

Serial == Alone /\ \A c \in Commands : SerialAt(c)

\* What the ledger will be when the command has written its file.
Reported(c) ==
  CASE op[c].kind \in {"generate", "import"} -> ledger \cup {<<op[c].name, c>>}
    [] op[c].kind = "delete" -> {e \in ledger : e[1] # op[c].name}
    [] OTHER -> ledger

Sticks ==
  /\ diskSt = "missing" => ledger = {}
  /\ diskSt = "ok" => Entries(disk.keys) = ledger
  /\ diskSt \in {"empty", "torn"} => cut \/ \E c \in Commands : Writing(c)
  /\ \A c \in Commands :
       /\ at[c] \in {"create", "creating"} => mem[c].keys = {}
       /\ at[c] \in {"save", "saving"} => Entries(mem[c].keys) = Reported(c)

SerialInv == ~overlapped => Serial /\ Sticks

LEMMA EntriesAdd ==
  ASSUME NEW keys, NEW k
  PROVE  Entries(keys \cup {k}) = Entries(keys) \cup {<<k.name, k.id>>}
BY DEF Entries

LEMMA EntriesDelete ==
  ASSUME NEW keys, NEW n
  PROVE  Entries(keys \ Named(keys, n)) = {e \in Entries(keys) : e[1] # n}
BY DEF Entries, Named

LEMMA EntriesSame ==
  ASSUME NEW keys, NEW k \in keys, NEW l, l.name = k.name, l.id = k.id
  PROVE  Entries((keys \ {k}) \cup {l}) = Entries(keys)
BY DEF Entries

LEMMA EntriesEncrypted ==
  ASSUME NEW keys \in SUBSET Key, NEW p
  PROVE  Entries({[k EXCEPT !.pwd = p] : k \in keys}) = Entries(keys)
<1>1. \A k \in keys : [k EXCEPT !.pwd = p].name = k.name /\ [k EXCEPT !.pwd = p].id = k.id
  BY DEF Key
<1> QED BY <1>1 DEF Entries

\* A change that Act makes is the one its command will report.
LEMMA ActReports ==
  ASSUME TypeOK, NEW c \in Commands, Act(c), at'[c] = "save", Entries(mem[c].keys) = ledger
  PROVE  Entries(mem'[c].keys) = Reported(c)
<1> DEFINE m == mem[c]
<1>0. /\ m.keys \in SUBSET Key /\ mem \in [Commands -> Contents] /\ op[c] \in Ops
      /\ op[c].name \in Names /\ at[c] = "act" /\ at \in [Commands -> Place]
  BY DEF TypeOK, Contents, Ops, Act
<1>1. ASSUME NEW keys, Change(c, keys) PROVE mem'[c].keys = keys
  BY <1>0, <1>1 DEF Change, Contents
<1>2. ~Fail(c)
  BY <1>0 DEF Fail, Goto
<1>3. CASE Generate(c) \/ ImportKey(c)
  <2>1. mem'[c].keys = m.keys \cup {NewKey(c)} /\ op[c].kind \in {"generate", "import"}
    BY <1>1, <1>2, <1>3 DEF Generate, ImportKey, AddKey
  <2>2. NewKey(c).name = op[c].name /\ NewKey(c).id = c
    BY DEF NewKey
  <2>3. Reported(c) = ledger \cup {<<op[c].name, c>>}
    BY <2>1 DEF Reported
  <2>4. Entries(m.keys \cup {NewKey(c)}) = Entries(m.keys) \cup {<<NewKey(c).name, NewKey(c).id>>}
    BY EntriesAdd
  <2> QED BY <2>1, <2>2, <2>3, <2>4
<1>4. CASE Delete(c)
  <2>1. mem'[c].keys = m.keys \ Named(m.keys, op[c].name) /\ op[c].kind = "delete"
    BY <1>1, <1>2, <1>4 DEF Delete
  <2> QED BY <2>1, EntriesDelete DEF Reported
<1>5. ASSUME NEW k \in Named(m.keys, op[c].name), NEW bs,
             Change(c, (m.keys \ {k}) \cup {[k EXCEPT !.boxes = bs]}),
             op[c].kind \in {"attach", "detach"}
      PROVE  Entries(mem'[c].keys) = Reported(c)
  <2> DEFINE l == [k EXCEPT !.boxes = bs]
  <2>1. k \in m.keys /\ l.name = k.name /\ l.id = k.id
    BY <1>0 DEF Named, Key
  <2>2. mem'[c].keys = (m.keys \ {k}) \cup {l}
    BY <1>1, <1>5
  <2> HIDE DEF l
  <2>3. Entries(mem'[c].keys) = ledger
    BY <2>1, <2>2, EntriesSame
  <2> QED BY <1>5, <2>3 DEF Reported
<1>6. CASE Attach(c)
  BY <1>2, <1>5, <1>6 DEF Attach
<1>7. CASE Detach(c)
  BY <1>2, <1>5, <1>7 DEF Detach
<1>8. CASE ChangePassword(c)
  <2>1. PICK p \in Passwords : mem'[c].keys = {[k EXCEPT !.pwd = p] : k \in m.keys}
    BY <1>0, <1>8 DEF ChangePassword, Goto
  <2>2. Entries({[k EXCEPT !.pwd = p] : k \in m.keys}) = Entries(m.keys)
    BY <1>0, EntriesEncrypted
  <2> QED BY <1>8, <2>1, <2>2 DEF ChangePassword, Reported
<1>9. CASE PrintKey(c) \/ StartDaemon(c)
  BY <1>0, <1>9 DEF PrintKey, StartDaemon, Goto
<1> QED BY <1>3, <1>4, <1>6, <1>7, <1>8, <1>9 DEF Act

\* A step of the command that is in flight on its own.
LEMMA AloneStep ==
  ASSUME TypeOK, NEW c \in Commands, \A d \in Commands \ {c} : ~InFlight(d) /\ SerialAt(d),
         \A d \in Commands \ {c} : at'[d] = at[d] /\ pw'[d] = pw[d],
         SerialAt(c)'
  PROVE  Serial'
<1>1. Alone'
  BY DEF Alone, InFlight
<1>2. ASSUME NEW d \in Commands \ {c} PROVE SerialAt(d)'
  BY <1>2 DEF SerialAt, InFlight, Writing, Received
<1> QED BY <1>1, <1>2 DEF Serial

LEMMA SticksStep ==
  ASSUME TypeOK, NEW c \in Commands, \A d \in Commands \ {c} : ~InFlight(d) /\ at'[d] = at[d],
         (/\ diskSt = "missing" => ledger = {}
          /\ diskSt = "ok" => Entries(disk.keys) = ledger
          /\ diskSt \in {"empty", "torn"} => cut \/ Writing(c)
          /\ at[c] \in {"create", "creating"} => mem[c].keys = {}
          /\ at[c] \in {"save", "saving"} => Entries(mem[c].keys) = Reported(c))'
  PROVE  Sticks'
BY DEF Sticks, InFlight

LEMMA LoadSerial ==
  ASSUME TypeOK, SerialInv, NEW c \in Commands, Load(c), ~overlapped'
  PROVE  Serial' /\ Sticks'
<1>1. ~overlapped /\ \A d \in Commands \ {c} : ~InFlight(d) /\ SerialAt(d)
  BY DEF Load, SerialInv, Serial
<1>2. ~InFlight(c) /\ c \in Commands
  BY DEF Load, InFlight
<1>3. \A d \in Commands \ {c} : at'[d] = at[d] /\ pw'[d] = pw[d]
  BY DEF Load, Goto, TypeOK
<1>4. SerialAt(c)'
  BY DEF Load, Goto, TypeOK, SerialAt, Writing, diskVars
<1>5. Sticks'
  <2>1. Sticks /\ ~(\E d \in Commands : Writing(d))
    BY <1>1, <1>2 DEF SerialInv, Load, Writing, InFlight
  <2> QED BY <1>1, <1>3, <2>1, SticksStep DEF Sticks, Load, Goto, TypeOK, diskVars
<1> QED BY <1>1, <1>3, <1>4, <1>5, AloneStep

LEMMA StepSerial ==
  ASSUME TypeOK, SoundInv, SoundInv', SerialInv, NEW c \in Commands, ~overlapped,
         \/ InitDefault(c) \/ SaveOpen(c) \/ SaveWrite(c) \/ SaveFails(c)
         \/ Act(c) \/ GiveUp(c) \/ DaemonKeys(c) \/ Kill(c)
  PROVE  Serial' /\ Sticks'
<1> USE DEF diskVars, historyVars
<1>1. /\ InFlight(c) /\ SerialAt(c)
      /\ \A d \in Commands \ {c} : ~InFlight(d) /\ SerialAt(d)
      /\ Sticks
  <2>1. InFlight(c)
    BY DEF InitDefault, SaveOpen, SaveWrite, SaveFails, Act, GiveUp, DaemonKeys, Kill, InFlight
  <2> QED BY <2>1 DEF SerialInv, Serial, Alone
<1>2. \A d \in Commands \ {c} : at'[d] = at[d] /\ pw'[d] = pw[d]
  BY DEF InitDefault, SaveOpen, SaveWrite, SaveFails, Act, GiveUp, DaemonKeys, Kill, Goto, TypeOK, Fail,
         Generate, ImportKey, AddKey, Delete, Attach, Detach, ChangePassword, PrintKey, StartDaemon, Change
<1>3. /\ diskSt = "missing" => ledger = {}
      /\ diskSt = "ok" => Entries(disk.keys) = ledger
      /\ diskSt \in {"empty", "torn"} => cut \/ Writing(c)
      /\ at[c] \in {"create", "creating"} => mem[c].keys = {}
      /\ at[c] \in {"save", "saving"} => Entries(mem[c].keys) = Reported(c)
  BY <1>1 DEF Sticks, InFlight, Writing
<1>4. CASE InitDefault(c)
  <2>1. SerialAt(c)'
    BY <1>1, <1>4 DEF InitDefault, Goto, TypeOK, SerialAt, Writing
  <2>2. Sticks'
    BY <1>1, <1>2, <1>3, <1>4, SticksStep DEF InitDefault, Goto, TypeOK, Writing
  <2> QED BY <1>1, <1>2, <2>1, <2>2, AloneStep
<1>5. CASE SaveOpen(c)
  <2>1. SerialAt(c)'
    BY <1>1, <1>5 DEF SaveOpen, Goto, TypeOK, SerialAt, Writing
  <2>2. /\ diskSt' = "empty" /\ Writing(c)' /\ UNCHANGED <<op, mem, ledger>>
        /\ at'[c] = "creating" => at[c] = "create"
        /\ at'[c] = "saving" => at[c] = "save"
        /\ at'[c] \in {"creating", "saving"}
    BY <1>5 DEF SaveOpen, Goto, TypeOK, Writing
  <2>3. Reported(c)' = Reported(c)
    BY <2>2 DEF Reported
  <2>4. (at[c] \in {"save", "saving"} => Entries(mem[c].keys) = Reported(c))'
    BY <1>3, <2>2, <2>3 DEF Entries
  <2>5. Sticks'
    BY <1>1, <1>2, <1>3, <2>2, <2>4, SticksStep
  <2> QED BY <1>1, <1>2, <2>1, <2>5, AloneStep
<1>6. CASE SaveWrite(c)
  <2>0. diskSt = "empty" /\ diskSt' = "ok" /\ disk' = mem[c]
    BY <1>1, <1>6 DEF SaveWrite, SerialAt, Writing
  <2>1. SerialAt(c)'
    BY <1>1, <1>6, <2>0 DEF SaveWrite, Goto, TypeOK, SerialAt, Writing
  <2>2. Sticks'
    <3>1. Entries(disk'.keys) = ledger'
      <4>1. CASE at[c] = "creating"
        <5>1. mem[c].keys = {} /\ ledger' = {}
          BY <1>3, <1>6, <4>1 DEF SaveWrite
        <5> QED BY <2>0, <5>1 DEF Entries
      <4>2. CASE at[c] = "saving"
        <5>1. Entries(mem[c].keys) = Reported(c)
          BY <1>3, <4>2
        <5>2. ledger' = Reported(c)
          BY <1>6, <4>2 DEF SaveWrite, Reported
        <5> QED BY <2>0, <5>1, <5>2
      <4> QED BY <1>6, <4>1, <4>2 DEF SaveWrite
    <3> QED BY <1>1, <1>2, <1>6, <2>0, <3>1, SticksStep DEF SaveWrite, Goto, TypeOK
  <2> QED BY <1>1, <1>2, <2>1, <2>2, AloneStep
<1>7. CASE Act(c)
  <2>0. at[c] = "act" /\ diskSt = "ok" /\ disk = mem[c] /\ UNCHANGED <<diskSt, disk, op, ledger, cut>>
    BY <1>1, <1>7 DEF Act, SerialAt
  <2>1. at'[c] \in {"save", "failed", "done", "panicked", "spawned"}
    BY <1>7 DEF Act, Goto, TypeOK, Fail, Generate, ImportKey, AddKey, Delete, Attach, Detach,
                ChangePassword, PrintKey, StartDaemon, Change
  <2>2. at'[c] # "panicked"
    <3>1. CASE StartDaemon(c)
      BY <2>0, <3>1 DEF StartDaemon, Goto, TypeOK
    <3>2. CASE ~StartDaemon(c)
      <4>1. op[c].kind # "enter"
        BY <1>7, <3>2 DEF Act, Generate, ImportKey, Delete, Attach, Detach, ChangePassword, PrintKey
      <4> QED BY <2>0, <4>1 DEF SoundInv
    <3> QED BY <3>1, <3>2
  <2>3. at'[c] = "spawned" => mem' = mem /\ pw'[c] = Handed(c)
    BY <1>7, <2>0 DEF Act, Goto, TypeOK, Fail, Generate, ImportKey, AddKey, Delete, Attach, Detach,
                ChangePassword, PrintKey, StartDaemon, Change, Handed
  <2>4. SerialAt(c)'
    BY <2>0, <2>1, <2>2, <2>3 DEF SerialAt, Writing, Handed
  <2>5. Sticks'
    <3>1. at'[c] = "save" => Entries(mem'[c].keys) = Reported(c)
      BY <1>3, <1>7, <2>0, ActReports
    <3>2. (at[c] \in {"save", "saving"} => Entries(mem[c].keys) = Reported(c))'
      BY <2>0, <2>1, <3>1 DEF Reported, Entries
    <3> QED BY <1>1, <1>2, <1>3, <2>0, <2>1, <3>2, SticksStep DEF Writing
  <2> QED BY <1>1, <1>2, <2>4, <2>5, AloneStep
<1>8. CASE GiveUp(c)
  <2>1. SerialAt(c)'
    BY <1>8 DEF GiveUp, Fail, Goto, TypeOK, SerialAt, Writing
  <2>2. Sticks'
    BY <1>1, <1>2, <1>3, <1>8, SticksStep DEF GiveUp, Fail, Goto, TypeOK, Writing
  <2> QED BY <1>1, <1>2, <2>1, <2>2, AloneStep
<1>9. CASE DaemonKeys(c)
  <2>0. at[c] = "spawned" /\ diskSt = "ok" /\ disk = mem[c] /\ pw[c] = Handed(c)
    BY <1>1, <1>9 DEF DaemonKeys, SerialAt
  <2>1. ASSUME NEW k \in Attached(disk.keys, op[c].box), k.pwd # Received(c)
        PROVE  Received(c) # pw[c]
    <3>1. pw[c] = disk.hash
      BY <2>0, <2>1 DEF Handed
    <3>2. k.pwd = disk.hash
      BY <2>0, <2>1 DEF SoundInv, Sound, Consistent, Attached
    <3> QED BY <2>1, <3>1, <3>2
  <2>2. SerialAt(c)'
    BY <1>9, <2>0, <2>1 DEF DaemonKeys, Goto, TypeOK, SerialAt, Writing, Received
  <2>3. Sticks'
    BY <1>1, <1>2, <1>3, <1>9, <2>0, SticksStep DEF DaemonKeys, Goto, TypeOK, Writing
  <2> QED BY <1>1, <1>2, <2>2, <2>3, AloneStep
<1>10. CASE SaveFails(c) \/ Kill(c)
  <2>1. at'[c] = "failed" /\ UNCHANGED <<op, mem, ledger>> /\ LeaveFile(c) /\ cut' = (cut \/ Writing(c))
    BY <1>10 DEF SaveFails, Kill, Goto, TypeOK
  <2>2. SerialAt(c)'
    BY <2>1 DEF SerialAt, Writing
  <2>3. Sticks'
    BY <1>1, <1>2, <1>3, <2>1, SticksStep DEF LeaveFile, TypeOK
  <2> QED BY <1>1, <1>2, <2>2, <2>3, AloneStep
<1> QED BY <1>4, <1>5, <1>6, <1>7, <1>8, <1>9, <1>10

LEMMA SerialCorrect == Spec => [](TypeOK /\ SoundInv /\ SerialInv)
<1>1. Init => SerialInv
  BY DEF Init, SerialInv, Serial, Alone, InFlight, SerialAt, Writing, Sticks, Blank, Entries
<1>2. TypeOK /\ SoundInv /\ SoundInv' /\ SerialInv /\ [Next]_vars => SerialInv'
  <2> SUFFICES ASSUME TypeOK, SoundInv, SoundInv', SerialInv, [Next]_vars, ~overlapped'
               PROVE  Serial' /\ Sticks'
    BY DEF SerialInv
  <2>1. CASE UNCHANGED vars
    BY <2>1 DEF vars, diskVars, historyVars, SerialInv, Serial, Alone, InFlight, SerialAt, Writing,
                Sticks, Handed, Received, Reported, Entries, Attached
  <2>2. ASSUME NEW c \in Commands, Load(c) PROVE Serial' /\ Sticks'
    BY <2>2, LoadSerial
  <2>3. ASSUME NEW c \in Commands,
               \/ InitDefault(c) \/ SaveOpen(c) \/ SaveWrite(c) \/ SaveFails(c)
               \/ Act(c) \/ GiveUp(c) \/ DaemonKeys(c) \/ Kill(c)
        PROVE  Serial' /\ Sticks'
    <3>1. ~overlapped
      BY <2>3 DEF InitDefault, SaveOpen, SaveWrite, SaveFails, Act, GiveUp, DaemonKeys, Kill, historyVars
    <3> QED BY <2>3, <3>1, StepSerial
  <2> QED BY <2>1, <2>2, <2>3 DEF Next
<1> QED BY <1>1, <1>2, TypeCorrect, SoundInvariant, PTL DEF Spec

\* commands/daemon.rs:18, the daemon panics on no key if commands do not
\* overlap, unless the password loses a space at its ends.
THEOREM DaemonsDecrypt == Spec => []DaemonDecryptsAlone
<1>1. SerialInv => DaemonDecryptsAlone
  <2> SUFFICES ASSUME SerialInv, NEW c \in Commands, at[c] = "panicked", ~overlapped
               PROVE  Received(c) # pw[c]
    BY DEF DaemonDecryptsAlone
  <2> QED BY DEF SerialInv, Serial, SerialAt
<1> QED BY <1>1, SerialCorrect, PTL

\* keys.rs:108, the key file cannot be read only while it is written, or after
\* commands that overlapped, or one that was killed or failed as it wrote it.
THEOREM FileIsReadable == Spec => []ReadableAtRest
<1>1. SerialInv => ReadableAtRest
  BY DEF SerialInv, Sticks, ReadableAtRest
<1> QED BY <1>1, SerialCorrect, PTL

\* Commands that run one after the other leave the keys that they reported,
\* whether some fail or are killed.
THEOREM CommandsStick == Spec => []SerialCommandsStick
<1>1. SerialInv => SerialCommandsStick
  BY DEF SerialInv, Sticks, SerialCommandsStick
<1> QED BY <1>1, SerialCorrect, PTL

-----------------------------------------------------------------------------
(***************************************************************************)
(* The key file is a KeyStore.  A command on its own that has changed the  *)
(* copy in memory has changed it from what the file still holds, in the    *)
(* way its request says, so that opening the file to write it is the step  *)
(* of the store.                                                           *)
(***************************************************************************)

View(k) == [name |-> k.name, id |-> k.id, boxes |-> k.boxes]
Kept(t) == [hash |-> t.hash, keys |-> Opened(t)]

Views(keys) == {View(k) : k \in keys}

LEMMA AllAreOpened ==
  ASSUME NEW t, Consistent(t)
  PROVE  Opened(t) = Views(t.keys)
BY DEF Consistent, Opened, View, Views

LEMMA ViewsDelete ==
  ASSUME NEW keys, NEW n
  PROVE  Views(keys \ Named(keys, n)) = Views(keys) \ {v \in Views(keys) : v.name = n}
<1>1. \A k : View(k).name = k.name
  BY DEF View
<1> QED BY <1>1 DEF Named, Views

\* No other key has the name of k, so none has its view.
LEMMA ViewsReplace ==
  ASSUME NEW keys, NEW k \in keys, NEW l, NEW new, new = (keys \ {k}) \cup {l},
         \A j \in keys : j.name = k.name => j = k
  PROVE  Views(new) = (Views(keys) \ {View(k)}) \cup {View(l)}
<1>1. \A j \in keys : View(j) = View(k) => j = k
  BY DEF View
<1> QED BY <1>1 DEF Views

LEMMA ViewsEncrypted ==
  ASSUME NEW keys \in SUBSET Key, NEW p
  PROVE  Views({[k EXCEPT !.pwd = p] : k \in keys}) = Views(keys)
<1>1. \A k \in keys : View([k EXCEPT !.pwd = p]) = View(k)
  BY DEF View, Key
<1> QED BY <1>1 DEF Views

\* A change that Act makes is the one its command was asked for.
LEMMA ActOutcome ==
  ASSUME TypeOK, SoundInv, SoundInv', NEW c \in Commands, Act(c), at'[c] = "save"
  PROVE  Store!Outcome(op[c], c, Kept(mem[c]), Kept(mem'[c]))
<1> DEFINE m == mem[c]
           n == op[c].name
           new == mem'[c]
<1>0. /\ m.keys \in SUBSET Key /\ mem \in [Commands -> Contents] /\ op[c] \in Ops
      /\ n \in Names /\ at[c] = "act" /\ at \in [Commands -> Place]
      /\ Consistent(m) /\ UniqueNames(m) /\ Consistent(new)
  BY DEF TypeOK, Contents, Ops, Act, SoundInv, Sound, Consistent, UniqueNames
<1>1. ASSUME NEW keys, Change(c, keys) PROVE new.keys = keys /\ new.hash = m.hash
  BY <1>0, <1>1 DEF Change, Contents
<1>2. ~Fail(c)
  BY <1>0 DEF Fail, Goto
<1>3. Opened(m) = Views(m.keys) /\ Opened(new) = Views(new.keys) /\ \A k : View(k).name = k.name
  BY <1>0, AllAreOpened DEF View
<1>4. Store!Named(Opened(m), n) = {v \in Opened(m) : v.name = n}
  BY DEF Store!Named
<1>5. ASSUME NEW k \in Named(m.keys, n)
      PROVE  View(k) \in Store!Named(Opened(m), n) /\ k \in m.keys
  BY <1>3, <1>4, <1>5 DEF Named, Views
<1>6. CASE Generate(c) \/ ImportKey(c)
  <2>1. /\ new.keys = m.keys \cup {NewKey(c)} /\ new.hash = m.hash
        /\ op[c].kind \in {"generate", "import"} /\ Named(m.keys, n) = {}
    BY <1>1, <1>2, <1>6 DEF Generate, ImportKey, AddKey
  <2>2. View(NewKey(c)) = [name |-> n, id |-> c, boxes |-> {}]
    BY DEF NewKey, View
  <2>3. Opened(new) = Opened(m) \cup {[name |-> n, id |-> c, boxes |-> {}]}
    BY <1>3, <2>1, <2>2 DEF Views
  <2>4. Store!Named(Opened(m), n) = {}
    BY <1>3, <1>4, <2>1 DEF Named, Views
  <2> QED BY <2>1, <2>3, <2>4 DEF Store!Outcome, Kept
<1>7. CASE Delete(c)
  <2>1. /\ new.keys = m.keys \ Named(m.keys, n) /\ new.hash = m.hash
        /\ op[c].kind = "delete" /\ Named(m.keys, n) # {}
    BY <1>1, <1>2, <1>7 DEF Delete
  <2>2. Opened(new) = Opened(m) \ Store!Named(Opened(m), n)
    BY <1>3, <1>4, <2>1, ViewsDelete
  <2>3. Store!Named(Opened(m), n) # {}
    BY <1>5, <2>1
  <2> QED BY <2>1, <2>2, <2>3 DEF Store!Outcome, Kept
<1>8. ASSUME NEW k \in Named(m.keys, n), NEW bs, Change(c, (m.keys \ {k}) \cup {[k EXCEPT !.boxes = bs]})
      PROVE  new.hash = m.hash /\ Opened(new) = Store!Reattached(Opened(m), View(k), bs)
  <2> DEFINE l == [k EXCEPT !.boxes = bs]
  <2>1. View(l) = [name |-> View(k).name, id |-> View(k).id, boxes |-> bs]
    BY <1>0, <1>5 DEF View, Key
  <2>2. new.keys = (m.keys \ {k}) \cup {l} /\ new.hash = m.hash
    BY <1>1, <1>8
  <2> HIDE DEF l
  <2>3. Opened(new) = (Opened(m) \ {View(k)}) \cup {View(l)}
    <3>1. k \in m.keys /\ \A j \in m.keys : j.name = k.name => j = k
      BY <1>0, <1>5 DEF UniqueNames
    <3>2. Views(new.keys) = (Views(m.keys) \ {View(k)}) \cup {View(l)}
      <4> DEFINE old == m.keys
                 nk == new.keys
      <4>1. nk = (old \ {k}) \cup {l} /\ k \in old /\ \A j \in old : j.name = k.name => j = k
        BY <2>2, <3>1
      <4> HIDE DEF old, nk
      <4>2. Views(nk) = (Views(old) \ {View(k)}) \cup {View(l)}
        BY <4>1, ViewsReplace
      <4> QED BY <4>2 DEF old, nk
    <3> QED BY <1>3, <2>2, <3>2
  <2> QED BY <2>1, <2>2, <2>3 DEF Store!Reattached
<1>9. CASE Attach(c)
  <2>1. PICK k \in Named(m.keys, n) :
          /\ op[c].box \notin k.boxes
          /\ Change(c, (m.keys \ {k}) \cup {[k EXCEPT !.boxes = k.boxes \cup {op[c].box}]})
    BY <1>0, <1>2, <1>9 DEF Attach, Named, Key
  <2>2. View(k).boxes = k.boxes
    BY DEF View
  <2> QED BY <1>5, <1>8, <1>9, <2>1, <2>2 DEF Attach, Store!Outcome, Kept
<1>10. CASE Detach(c)
  <2>1. PICK k \in Named(m.keys, n) : \E kept \in SUBSET k.boxes :
          Change(c, (m.keys \ {k}) \cup {[k EXCEPT !.boxes = kept]})
    BY <1>2, <1>10 DEF Detach
  <2>2. View(k).boxes = k.boxes
    BY DEF View
  <2> QED BY <1>5, <1>8, <1>10, <2>1, <2>2 DEF Detach, Store!Outcome, Kept
<1>11. CASE ChangePassword(c)
  <2>1. PICK p \in Passwords : new = [hash |-> p, keys |-> {[k EXCEPT !.pwd = p] : k \in m.keys}]
    BY <1>0, <1>11 DEF ChangePassword, Goto
  <2>2. new.hash \in Passwords /\ Opened(new) = Opened(m)
    <3>1. Views({[k EXCEPT !.pwd = p] : k \in m.keys}) = Views(m.keys)
      BY <1>0, ViewsEncrypted
    <3> QED BY <1>3, <2>1, <3>1
  <2> QED BY <1>11, <2>2 DEF ChangePassword, Store!Outcome, Kept
<1>12. CASE PrintKey(c) \/ StartDaemon(c)
  BY <1>0, <1>12 DEF PrintKey, StartDaemon, Goto
<1> QED BY <1>6, <1>7, <1>9, <1>10, <1>11, <1>12 DEF Act

AtomicAt(c) ==
  /\ at[c] \in {"create", "creating"} => mem[c].keys = {}
  /\ at[c] = "create" => diskSt = "missing"
  /\ at[c] = "save" => diskSt = "ok" /\ Store!Outcome(op[c], c, Kept(disk), Kept(mem[c]))

AtomicInv == ~overlapped => \A c \in Commands : AtomicAt(c)

\* What the store holds when only c can be writing, before and after a step.
LEMMA StoreNow ==
  ASSUME NEW c \in Commands, \A d \in Commands \ {c} : ~InFlight(d)
  PROVE  /\ diskSt = "missing" => StoreState = "none" /\ Stored = disk
         /\ diskSt = "ok" => StoreState = "held" /\ Stored = disk
         /\ diskSt = "empty" /\ Writing(c) => StoreState = "held" /\ Stored = mem[c]
         /\ diskSt = "empty" /\ ~Writing(c) => StoreState = "lost" /\ Stored = disk
         /\ diskSt = "torn" => StoreState = "lost" /\ Stored = disk
<1>1. \A d \in Commands : Writing(d) => d = c
  BY DEF Writing, InFlight
<1>2. Writing(c) => (CHOOSE d \in Commands : Writing(d)) = c
  BY <1>1
<1> QED BY <1>1, <1>2 DEF StoreState, Stored

LEMMA StoreNext ==
  ASSUME NEW c \in Commands, \A d \in Commands \ {c} : ~InFlight(d)'
  PROVE  (/\ diskSt = "missing" => StoreState = "none" /\ Stored = disk
          /\ diskSt = "ok" => StoreState = "held" /\ Stored = disk
          /\ diskSt = "empty" /\ Writing(c) => StoreState = "held" /\ Stored = mem[c]
          /\ diskSt = "empty" /\ ~Writing(c) => StoreState = "lost" /\ Stored = disk
          /\ diskSt = "torn" => StoreState = "lost" /\ Stored = disk)'
<1>1. \A d \in Commands : Writing(d)' => d = c
  BY DEF Writing, InFlight
<1>2. Writing(c)' => (CHOOSE d \in Commands : Writing(d)') = c
  BY <1>1
<1> QED BY <1>1, <1>2 DEF StoreState, Stored

LEMMA AlonePhase ==
  ASSUME TypeOK, TypeOK', NEW c \in Commands, \A d \in Commands \ {c} : at'[d] = at[d]
  PROVE  [d \in Commands |-> StorePhase(d)]'
           = [[d \in Commands |-> StorePhase(d)] EXCEPT ![c] = StorePhase(c)']
BY DEF StorePhase

OneStep(c) == \/ InitDefault(c) \/ SaveOpen(c) \/ SaveWrite(c) \/ SaveFails(c)
              \/ Act(c) \/ GiveUp(c) \/ DaemonKeys(c) \/ Kill(c)

\* What a step of a command that is on its own finds and leaves alone.
LEMMA StepAlone ==
  ASSUME TypeOK, SerialInv, NEW c \in Commands, ~overlapped, OneStep(c)
  PROVE  /\ SerialAt(c) /\ InFlight(c)
         /\ \A d \in Commands \ {c} : ~InFlight(d) /\ at'[d] = at[d] /\ ~InFlight(d)'
         /\ UNCHANGED <<op, overlapped>>
<1> USE DEF diskVars, historyVars
<1>1. InFlight(c) /\ UNCHANGED <<op, overlapped>>
  BY DEF OneStep, InitDefault, SaveOpen, SaveWrite, SaveFails, Act, GiveUp, DaemonKeys, Kill, InFlight
<1>2. \A d \in Commands \ {c} : at'[d] = at[d]
  BY DEF OneStep, InitDefault, SaveOpen, SaveWrite, SaveFails, Act, GiveUp, DaemonKeys, Kill, Goto, TypeOK, Fail,
         Generate, ImportKey, AddKey, Delete, Attach, Detach, ChangePassword, PrintKey, StartDaemon, Change
<1>3. \A d \in Commands \ {c} : ~InFlight(d)
  BY <1>1 DEF SerialInv, Serial, Alone
<1> QED BY <1>1, <1>2, <1>3 DEF SerialInv, Serial, InFlight

\* Where Act leads, and that it leaves memory alone unless there is something to save.
LEMMA ActPlaces ==
  ASSUME TypeOK, NEW c \in Commands, Act(c)
  PROVE  /\ at[c] = "act" /\ at'[c] \in {"save", "failed", "done", "panicked", "spawned"}
         /\ at'[c] = "done" => op[c].kind = "print"
         /\ UNCHANGED diskVars
BY DEF Act, Goto, TypeOK, Fail, Generate, ImportKey, AddKey, Delete, Attach, Detach,
       ChangePassword, PrintKey, StartDaemon, Change

LEMMA StepKeepsAtomic ==
  ASSUME TypeOK, SoundInv, SoundInv', SerialInv, AtomicInv, NEW c \in Commands, ~overlapped, OneStep(c)
  PROVE  \A d \in Commands : AtomicAt(d)'
<1> USE DEF diskVars, historyVars
<1>0. /\ SerialAt(c) /\ InFlight(c) /\ AtomicAt(c)
      /\ \A d \in Commands \ {c} : ~InFlight(d) /\ at'[d] = at[d] /\ ~InFlight(d)'
      /\ UNCHANGED <<op, overlapped>>
  BY StepAlone DEF AtomicInv
<1>1. \A d \in Commands \ {c} : AtomicAt(d)'
  BY <1>0 DEF AtomicAt, InFlight
<1>2. CASE InitDefault(c)
  <2>1. at'[c] = "create" /\ mem'[c].keys = {} /\ diskSt' = "missing"
    BY <1>0, <1>2 DEF InitDefault, SerialAt, Goto, TypeOK
  <2> QED BY <1>1, <2>1 DEF AtomicAt
<1>3. CASE SaveOpen(c) \/ SaveWrite(c) \/ SaveFails(c) \/ GiveUp(c) \/ DaemonKeys(c) \/ Kill(c)
  <2>1. /\ at'[c] \notin {"create", "save"}
        /\ at'[c] = "creating" => at[c] = "create" /\ mem' = mem
    BY <1>0, <1>3 DEF SaveOpen, SaveWrite, SaveFails, GiveUp, Fail, DaemonKeys, Kill, Goto, TypeOK
  <2> QED BY <1>0, <1>1, <2>1 DEF AtomicAt
<1>4. CASE Act(c)
  <2>1. diskSt = "ok" /\ disk = mem[c] /\ diskSt' = "ok" /\ disk' = disk
    BY <1>0, <1>4, ActPlaces DEF SerialAt
  <2>2. ASSUME at'[c] = "save" PROVE Store!Outcome(op[c], c, Kept(disk), Kept(mem[c]))'
    <3>1. Store!Outcome(op[c], c, Kept(mem[c]), Kept(mem'[c]))
      BY <1>4, <2>2, ActOutcome
    <3> QED BY <1>0, <2>1, <3>1
  <2>3. at'[c] \notin {"create", "creating"} /\ diskSt' = "ok"
    BY <1>4, <2>1, ActPlaces DEF SerialAt
  <2> QED BY <1>1, <2>2, <2>3 DEF AtomicAt
<1> QED BY <1>2, <1>3, <1>4 DEF OneStep

LEMMA LoadAsks ==
  ASSUME TypeOK, TypeOK', NEW c \in Commands, Load(c), ~overlapped'
  PROVE  Store!Ask(c)
<1>1. /\ at[c] = "idle" /\ ~InFlight(c) /\ at'[c] \in {"init", "act", "failed"}
      /\ \A d \in Commands \ {c} : ~InFlight(d) /\ at'[d] = at[d] /\ ~InFlight(d)'
      /\ ~overlapped /\ UNCHANGED <<diskSt, disk>>
  BY DEF Load, Goto, InFlight, diskVars, TypeOK
<1>2. \A d \in Commands : ~Writing(d) /\ ~Writing(d)'
  BY <1>1 DEF Writing, InFlight
<1>3. Stored = disk /\ Stored' = disk /\ StoreState' = StoreState
  BY <1>1, <1>2 DEF Stored, StoreState
<1>4. Store!Become(c, IF StoreState = "lost" THEN "failed" ELSE "asked")
  <2>1. StorePhase(c)' = IF StoreState = "lost" THEN "failed" ELSE "asked"
    BY <1>1, <1>2 DEF Load, Goto, TypeOK, StorePhase, StoreState
  <2> QED BY <1>1, <2>1, AlonePhase DEF Store!Become
<1>5. \A d \in Commands : StorePhase(d) \in {"idle", "done", "failed"}
  BY <1>1 DEF StorePhase, InFlight
<1>6. StorePhase(c) = "idle"
  BY <1>1 DEF StorePhase
<1>7. \A d \in Commands \ {c} : op'[d] = op[d]
  BY DEF Load, TypeOK
<1>8. UNCHANGED overlapped
  BY <1>1 DEF TypeOK
<1> QED BY <1>1, <1>3, <1>4, <1>5, <1>6, <1>7, <1>8 DEF Store!Ask, Opened

LEMMA StepIsAtomic ==
  ASSUME TypeOK, TypeOK', SoundInv, SerialInv, AtomicInv, NEW c \in Commands, ~overlapped, OneStep(c)
  PROVE  \/ Store!Create(c) \/ Store!Made(c) \/ Store!Apply(c)
         \/ Store!Report(c) \/ Store!Fail(c) \/ Store!Lose(c)
         \/ UNCHANGED Store!vars
<1> USE DEF diskVars, historyVars
<1>0. /\ SerialAt(c) /\ InFlight(c) /\ AtomicAt(c)
      /\ \A d \in Commands \ {c} : ~InFlight(d) /\ at'[d] = at[d] /\ ~InFlight(d)'
      /\ UNCHANGED <<op, overlapped>>
  BY StepAlone DEF AtomicInv
<1> DEFINE phase == [d \in Commands |-> StorePhase(d)]
           p == StorePhase(c)'
           content == [hash |-> Stored.hash, keys |-> Opened(Stored)]
<1>1. /\ phase' = [phase EXCEPT ![c] = p] /\ phase[c] = StorePhase(c)
      /\ StorePhase(c)' = StorePhase(c) => phase' = phase
  <2>1. \A d \in Commands \ {c} : StorePhase(d)' = StorePhase(d)
    BY <1>0 DEF StorePhase
  <2> QED BY <1>0, <2>1, AlonePhase
<1>2. ASSUME StoreState' = StoreState, Stored' = Stored, StorePhase(c) = p PROVE UNCHANGED Store!vars
  BY <1>0, <1>1, <1>2 DEF Store!vars, Opened
<1>3. ASSUME StoreState' = StoreState, Stored' = Stored, StorePhase(c) = "asked", p = "failed"
      PROVE  Store!Fail(c)
  BY <1>0, <1>1, <1>3 DEF Store!Fail, Store!Become, Opened
<1>4. CASE InitDefault(c) \/ GiveUp(c) \/ DaemonKeys(c)
  <2>1. /\ at[c] \in {"init", "act", "spawned"} /\ at'[c] \in {"create", "failed", "panicked", "done"}
        /\ UNCHANGED <<diskSt, disk>>
        /\ at'[c] = "create" => at[c] = "init"
        /\ at'[c] = "done" => at[c] = "spawned"
    BY <1>4 DEF InitDefault, GiveUp, DaemonKeys, Fail, Goto, TypeOK
  <2>2. \A d \in Commands : ~Writing(d) /\ ~Writing(d)'
    BY <1>0, <2>1 DEF Writing, InFlight
  <2>3. Stored' = Stored /\ StoreState' = StoreState
    BY <2>1, <2>2 DEF Stored, StoreState
  <2>4. CASE at'[c] = "done"
    <3>1. op[c].kind = "enter" /\ StoreState = "held"
      BY <1>0, <2>1, <2>4 DEF SoundInv, SerialAt, StoreState
    <3>2. StorePhase(c) = "asked" /\ p = "done"
      BY <2>1, <2>4 DEF StorePhase
    <3> QED BY <1>0, <1>1, <2>3, <3>1, <3>2 DEF Store!Report, Store!Become, Opened
  <2>5. CASE at'[c] # "done"
    BY <1>2, <1>3, <2>1, <2>3, <2>5 DEF StorePhase
  <2> QED BY <2>4, <2>5
<1>5. CASE Act(c)
  <2>1. /\ at[c] = "act" /\ at'[c] \in {"save", "failed", "done", "panicked", "spawned"}
        /\ at'[c] = "done" => op[c].kind = "print"
        /\ UNCHANGED <<diskSt, disk>>
    BY <1>5, ActPlaces
  <2>2. \A d \in Commands : ~Writing(d) /\ ~Writing(d)'
    BY <1>0, <2>1 DEF Writing, InFlight
  <2>3. Stored' = Stored /\ StoreState' = StoreState
    BY <2>1, <2>2 DEF Stored, StoreState
  <2>4. CASE at'[c] = "done"
    <3>1. op[c].kind = "print" /\ StoreState = "held"
      BY <1>0, <2>1, <2>4 DEF SerialAt, StoreState
    <3>2. StorePhase(c) = "asked" /\ p = "done"
      BY <2>1, <2>4 DEF StorePhase
    <3> QED BY <1>0, <1>1, <2>3, <3>1, <3>2 DEF Store!Report, Store!Become, Opened
  <2>5. CASE at'[c] # "done"
    BY <1>2, <1>3, <2>1, <2>3, <2>5 DEF StorePhase
  <2> QED BY <2>4, <2>5
<1>6. CASE SaveOpen(c)
  <2>1. /\ diskSt' = "empty" /\ mem' = mem /\ Writing(c)'
        /\ \/ at[c] = "create" /\ at'[c] = "creating"
           \/ at[c] = "save" /\ at'[c] = "saving"
    BY <1>6 DEF SaveOpen, Goto, TypeOK, Writing
  <2>2. StoreState' = "held" /\ Stored' = mem[c]
    BY <1>0, <2>1, StoreNext
  <2>3. CASE at[c] = "create" /\ at'[c] = "creating"
    <3>1. StoreState = "none" /\ mem[c].keys = {} /\ mem[c].hash \in Passwords
      BY <1>0, <2>3 DEF AtomicAt, StoreState, TypeOK, Contents
    <3>2. content'.hash \in Passwords /\ content'.keys = {}
      BY <2>2, <3>1 DEF Opened
    <3>3. StorePhase(c) = "asked" /\ p = "making"
      BY <2>3 DEF StorePhase
    <3> QED BY <1>0, <1>1, <2>2, <3>1, <3>2, <3>3 DEF Store!Create, Store!Become
  <2>4. CASE at[c] = "save" /\ at'[c] = "saving"
    <3>1. diskSt = "ok" /\ Store!Outcome(op[c], c, Kept(disk), Kept(mem[c]))
      BY <1>0, <2>4 DEF AtomicAt
    <3>2. StoreState = "held"
      BY <3>1 DEF StoreState
    <3>3. StorePhase(c) = "asked" /\ p = "applied"
      BY <2>4 DEF StorePhase
    <3>4. content = Kept(disk) /\ content' = Kept(mem[c])
      BY <2>2, <3>1 DEF Kept, Opened, Stored
    <3> QED BY <1>0, <1>1, <2>2, <3>1, <3>2, <3>3, <3>4 DEF Store!Apply, Store!Become
  <2> QED BY <2>1, <2>3, <2>4
<1>7. CASE SaveWrite(c)
  <2>1. /\ diskSt = "empty" /\ Writing(c) /\ diskSt' = "ok" /\ disk' = mem[c]
        /\ \/ at[c] = "creating" /\ at'[c] = "act"
           \/ at[c] = "saving" /\ at'[c] = "done"
    BY <1>0, <1>7 DEF SaveWrite, Goto, TypeOK, Writing, SerialAt
  <2>2. StoreState = "held" /\ Stored = mem[c]
    BY <1>0, <2>1, StoreNow
  <2>3. StoreState' = StoreState /\ Stored' = Stored
    BY <1>0, <2>1, <2>2, StoreNext
  <2>4. CASE at[c] = "creating" /\ at'[c] = "act"
    <3>1. StorePhase(c) = "making" /\ p = "asked"
      BY <2>4 DEF StorePhase
    <3> QED BY <1>0, <1>1, <2>3, <3>1 DEF Store!Made, Store!Become, Opened
  <2>5. CASE at[c] = "saving" /\ at'[c] = "done"
    <3>1. StorePhase(c) = "applied" /\ p = "done"
      BY <2>5 DEF StorePhase
    <3> QED BY <1>0, <1>1, <2>3, <3>1 DEF Store!Report, Store!Become, Opened
  <2> QED BY <2>1, <2>4, <2>5
<1>8. CASE SaveFails(c) \/ Kill(c)
  <2>1. at'[c] = "failed" /\ LeaveFile(c)
    BY <1>8 DEF SaveFails, Kill, Goto, TypeOK
  <2>2. p = "failed" /\ ~Writing(c)'
    BY <2>1 DEF StorePhase, Writing
  <2>3. CASE Writing(c)
    <3>1. diskSt = "empty" /\ StorePhase(c) \in {"making", "applied"}
      BY <1>0, <2>3 DEF SerialAt, Writing, StorePhase
    <3>2. diskSt' \in {"empty", "torn"}
      BY <2>1, <3>1 DEF LeaveFile
    <3>4. StoreState' = "lost"
      BY <1>0, <2>2, <3>2, StoreNext
    <3> QED BY <1>0, <1>1, <2>2, <3>1, <3>4 DEF Store!Lose, Store!Become
  <2>4. CASE ~Writing(c)
    <3>1. \A d \in Commands : ~Writing(d) /\ ~Writing(d)'
      BY <1>0, <2>2, <2>4 DEF Writing, InFlight
    <3>2. Stored' = Stored /\ StoreState' = StoreState
      BY <2>1, <2>4, <3>1 DEF Stored, StoreState, LeaveFile
    <3>3. StorePhase(c) = "asked"
      BY <1>0, <2>4 DEF StorePhase, Writing, InFlight, TypeOK, Place
    <3> QED BY <1>3, <2>2, <3>2, <3>3
  <2> QED BY <2>3, <2>4
<1> QED BY <1>4, <1>5, <1>6, <1>7, <1>8 DEF OneStep

LEMMA AtomicInvariant == Spec => []AtomicInv
<1>1. Init => AtomicInv
  BY DEF Init, AtomicInv, AtomicAt
<1>2. TypeOK /\ SoundInv /\ SoundInv' /\ SerialInv /\ AtomicInv /\ [Next]_vars => AtomicInv'
  <2> SUFFICES ASSUME TypeOK, SoundInv, SoundInv', SerialInv, AtomicInv, [Next]_vars, ~overlapped'
               PROVE  \A c \in Commands : AtomicAt(c)'
    BY DEF AtomicInv
  <2>1. CASE UNCHANGED vars
    BY <2>1 DEF vars, diskVars, historyVars, AtomicInv, AtomicAt, Kept, Opened
  <2>2. ASSUME NEW c \in Commands, Load(c) PROVE \A d \in Commands : AtomicAt(d)'
    <3>1. /\ at'[c] \in {"init", "act", "failed"} /\ ~overlapped
          /\ \A d \in Commands \ {c} : ~InFlight(d) /\ at'[d] = at[d]
      BY <2>2 DEF Load, Goto, diskVars, TypeOK
    <3> QED BY <3>1 DEF AtomicAt, InFlight
  <2>3. ASSUME NEW c \in Commands, OneStep(c) PROVE \A d \in Commands : AtomicAt(d)'
    <3>1. ~overlapped
      BY <2>3 DEF OneStep, InitDefault, SaveOpen, SaveWrite, SaveFails, Act, GiveUp, DaemonKeys, Kill, historyVars
    <3> QED BY <2>3, <3>1, StepKeepsAtomic
  <2> QED BY <2>1, <2>2, <2>3 DEF Next, OneStep
<1> QED BY <1>1, <1>2, SerialCorrect, PTL DEF Spec

\* keys.rs, the key file is a KeyStore: commands that run one after the other
\* find and leave it as if each changed it in one step, as it was asked to, and
\* reported what it did, whether they fail, are given up or are killed, except
\* that one cut off while it writes loses the file.
THEOREM KeyFileIsAtomic == Spec => CommandsAreAtomic
<1>1. Init => Store!Init
  BY DEF Init, Store!Init, StoreState, Stored, StorePhase, Opened, Writing, Blank
<1>2. TypeOK /\ TypeOK' /\ SoundInv /\ SerialInv /\ AtomicInv /\ [Next]_vars
        => [Store!Next]_(Store!vars)
  <2> SUFFICES ASSUME TypeOK, TypeOK', SoundInv, SerialInv, AtomicInv, [Next]_vars
               PROVE  Store!Next \/ UNCHANGED Store!vars
    BY DEF Store!vars
  <2>1. CASE UNCHANGED vars
    BY <2>1 DEF vars, diskVars, historyVars, Store!vars, StoreState, Stored, StorePhase, Opened, Writing
  <2>2. CASE Next /\ overlapped'
    BY <2>2 DEF Store!Next, Store!Break, TypeOK
  <2>3. ASSUME NEW c \in Commands, Load(c), ~overlapped' PROVE Store!Next
    BY <2>3, LoadAsks DEF Store!Next
  <2>4. ASSUME NEW c \in Commands, OneStep(c), ~overlapped' PROVE Store!Next \/ UNCHANGED Store!vars
    <3>1. ~overlapped
      BY <2>4 DEF OneStep, InitDefault, SaveOpen, SaveWrite, SaveFails, Act, GiveUp, DaemonKeys, Kill, historyVars
    <3> QED BY <2>4, <3>1, StepIsAtomic DEF Store!Next
  <2> QED BY <2>1, <2>2, <2>3, <2>4 DEF Next, OneStep
<1> QED BY <1>1, <1>2, SerialCorrect, AtomicInvariant, PTL DEF Spec, CommandsAreAtomic, Store!Spec
=============================================================================
