-------------------------- MODULE EntrypointProofs --------------------------
(***************************************************************************)
(* Theorems about Entrypoint, for any sessions, any jobs and any process   *)
(* tree.  A process is alive until it has been waited for.                 *)
(***************************************************************************)
EXTENDS Entrypoint, TLAPS

\* Every variable stays in its set.
THEOREM TypeCorrect == Spec => []TypeOK
<1> USE DEF TypeOK, tree, home
<1>1. Init => TypeOK
  BY DEF Init, EntryPc
<1>2. TypeOK /\ [Next]_vars => TypeOK'
  <2> SUFFICES ASSUME TypeOK, [Next]_vars PROVE TypeOK'
    OBVIOUS
  <2>0. ASSUME NEW ended, NEW states \in [Procs -> {"none", "running", "ok", "bad", "gone"}],
               at' \in [Sessions -> EntryPc], Orphan(ended, states), UNCHANGED <<marker, prepared, raced>>,
               scripts' \in SUBSET Sessions
        PROVE  TypeOK'
    BY <2>0 DEF Orphan, ReapedByOne
  <2>1. ASSUME NEW s \in Sessions, NEW to \in EntryPc, Goto(s, to) PROVE TypeOK'
    BY <2>1 DEF Goto
  <2>2. ASSUME NEW s \in Sessions, NEW to \in EntryPc,
               NEW states \in [Procs -> {"none", "running", "ok", "bad", "gone"}],
               EndEntry(s, to, states)
        PROVE  TypeOK'
    <3>1. at' \in [Sessions -> EntryPc]
      BY <2>2 DEF EndEntry
    <3> QED BY <2>0, <2>2, <3>1 DEF EndEntry
  <2>3. CASE UNCHANGED vars
    BY <2>3 DEF vars
  <2>4. ASSUME NEW p \in Procs, Exit(p) PROVE TypeOK'
    <3>1. Adopter(p) \in {Entry(s) : s \in Sessions} \cup {One}
      BY DEF Adopter
    <3>2. root' \in [Procs -> {Entry(s) : s \in Sessions} \cup {One}]
      BY <2>4, <3>1 DEF Exit
    <3>3. above' \in [Procs -> SUBSET Procs]
      BY <2>4 DEF Exit
    <3>4. st' \in [Procs -> {"none", "running", "ok", "bad", "gone"}]
      BY <2>4 DEF Exit, ReapedByOne
    <3> QED BY <2>4, <3>2, <3>3, <3>4 DEF Exit
  <2>5. ASSUME NEW p \in Procs, NEW j \in Jobs, StartJob(p, j) PROVE TypeOK'
    BY <2>5 DEF StartJob, Procs
  <2>6. ASSUME NEW p \in Procs, NEW j \in Jobs, WaitForJob(p, j) PROVE TypeOK'
    BY <2>6 DEF WaitForJob
  <2>7. ASSUME NEW s \in Sessions, ScriptEnds(s) PROVE TypeOK'
    BY <2>7 DEF ScriptEnds, EntryPc
  <2>8. ASSUME NEW s \in Sessions, Interrupt(s) PROVE TypeOK'
    BY <2>8, <2>2 DEF Interrupt, EntryPc
  <2>9. ASSUME NEW s \in Sessions, PrepareHome(s) PROVE TypeOK'
    BY <2>9 DEF PrepareHome, EntryPc
  <2>10. ASSUME NEW s \in Sessions, SetupFails(s) PROVE TypeOK'
    BY <2>10, <2>1 DEF SetupFails, EntryPc
  <2>11. ASSUME NEW s \in Sessions, MarkHome(s) PROVE TypeOK'
    BY <2>11 DEF MarkHome, EntryPc
  <2>12. ASSUME NEW s \in Sessions, Spawn(s) PROVE TypeOK'
    BY <2>12 DEF Spawn, EntryPc, Procs
  <2>13. ASSUME NEW s \in Sessions, SetSubreaper(s) PROVE TypeOK'
    BY <2>13 DEF SetSubreaper, EntryPc, Background
  <2>14. ASSUME NEW s \in Sessions, NEW p \in Procs, Reap(s, p) PROVE TypeOK'
    <3> DEFINE reaped == [st EXCEPT ![p] = "gone"]
    <3>1. reaped \in [Procs -> {"none", "running", "ok", "bad", "gone"}]
      OBVIOUS
    <3>2. CASE EndEntry(s, "failed", reaped)
      BY <2>2, <3>1, <3>2 DEF EntryPc
    <3>3. CASE ~EndEntry(s, "failed", reaped)
      BY <2>14, <3>1, <3>3 DEF Reap, EntryPc
    <3> QED BY <3>2, <3>3
  <2>15. ASSUME NEW s \in Sessions, NEW p \in Procs, GraceReap(s, p) PROVE TypeOK'
    BY <2>15 DEF GraceReap
  <2>16. ASSUME NEW s \in Sessions, StillAlive(s) PROVE TypeOK'
    <3>1. Goto(s, "waiting") \/ EndEntry(s, "done", st) \/ Goto(s, "term")
      BY <2>16 DEF StillAlive, Waits
    <3> QED BY <2>1, <2>2, <3>1 DEF EntryPc
  <2>17. ASSUME NEW s \in Sessions, NoChild(s) PROVE TypeOK'
    BY <2>17, <2>2 DEF NoChild, EntryPc
  <2>18. ASSUME NEW s \in Sessions, SendTerm(s) PROVE TypeOK'
    <3>1. at' \in [Sessions -> EntryPc]
      BY <2>18 DEF SendTerm, GotoAndKill, EntryPc
    <3> QED BY <2>0, <2>18, <3>1 DEF SendTerm
  <2>19. ASSUME NEW s \in Sessions, GraceOver(s) PROVE TypeOK'
    BY <2>19, <2>2 DEF GraceOver, EntryPc
  <2>20. ASSUME NEW s \in Sessions, GraceTimeout(s) PROVE TypeOK'
    BY <2>20, <2>1 DEF GraceTimeout, EntryPc
  <2>21. ASSUME NEW s \in Sessions, SendKill(s) PROVE TypeOK'
    <3> DEFINE killed == [p \in Procs |-> IF st[p] = "none" THEN "none" ELSE "gone"]
    <3>1. killed \in [Procs -> {"none", "running", "ok", "bad", "gone"}]
      OBVIOUS
    <3>2. CASE EndEntry(s, "failed", st)
      BY <2>2, <3>2 DEF EntryPc
    <3>3. CASE ~EndEntry(s, "failed", st)
      <4>1. /\ GotoAndKill(s, "done")
            /\ Orphan(Others(s) \cup {s}, killed)
            /\ scripts' = {}
            /\ UNCHANGED <<marker, prepared, raced>>
        BY <2>21, <3>3 DEF SendKill
      <4>2. at' \in [Sessions -> EntryPc]
        BY <4>1 DEF GotoAndKill, EntryPc
      <4> QED BY <2>0, <3>1, <4>1, <4>2
    <3> QED BY <3>2, <3>3
  <2> QED BY <2>3, <2>4, <2>5, <2>6, <2>7, <2>8, <2>9, <2>10, <2>11, <2>12, <2>13, <2>14, <2>15,
             <2>16, <2>17, <2>18, <2>19, <2>20, <2>21 DEF Next, UserStep, EntryStep
<1> QED BY <1>1, <1>2, PTL DEF Spec

-----------------------------------------------------------------------------

Alive(p) == Running(p) \/ Zombie(p)

\* What `above` means, for the processes that are alive: those above one run,
\* in the same session, and stand in one line, in which every one has the next
\* for its child and the first has nobody above it.
AboveRuns == \A q \in Procs : Alive(q) =>
  /\ q \notin above[q]
  /\ \A p \in above[q] : Running(p) /\ root[p] = root[q] /\ above[p] \subseteq above[q]
AboveLine == \A q \in Procs : Alive(q) =>
  \A p, r \in above[q] : p = r \/ p \in above[r] \/ r \in above[p]
AboveSteps == \A q \in Procs : Alive(q) =>
  \A p \in above[q] : IsChild(q, p) \/ \E r \in above[q] : IsChild(r, p)
AboveTop == \A q \in Procs : Alive(q) => above[q] = {} \/ \E r \in above[q] : above[r] = {}

Tree == TypeOK /\ AboveRuns /\ AboveLine /\ AboveSteps /\ AboveTop

\* A process that is waited for, or killed with all others, and an adoption by
\* process 1 leave a tree.
LEMMA Pruned ==
  ASSUME Tree, TypeOK', above' = above,
         \A q \in Procs : Alive(q)' => Alive(q) /\ \A p \in Procs : Running(p) => Running(p)',
         \A p, q \in Procs : root[p] = root[q] => root'[p] = root'[q]
  PROVE  Tree'
<1> USE DEF Tree
<1>1. AboveRuns'
  <2> SUFFICES ASSUME NEW q \in Procs, Alive(q)'
               PROVE  /\ q \notin above[q]
                      /\ \A p \in above[q] : Running(p)' /\ root'[p] = root'[q] /\ above[p] \subseteq above[q]
    BY DEF AboveRuns
  <2>1. above[q] \subseteq Procs
    BY DEF TypeOK
  <2> QED BY <2>1 DEF AboveRuns
<1>2. AboveLine'
  BY DEF AboveLine
<1>3. AboveSteps'
  BY DEF AboveSteps, IsChild
<1>4. AboveTop'
  BY DEF AboveTop
<1> QED BY <1>1, <1>2, <1>3, <1>4

\* A process that starts under nobody, or as the child of one that runs.
LEMMA Grown ==
  ASSUME Tree, TypeOK', NEW j \in Procs, ~Alive(j), NEW up \in SUBSET Procs, NEW top,
         \/ up = {}
         \/ \E p \in Procs : Running(p) /\ up = above[p] \cup {p} /\ top = root[p],
         st' = [st EXCEPT ![j] = "running"],
         above' = [above EXCEPT ![j] = up],
         root' = [root EXCEPT ![j] = top]
  PROVE  Tree'
<1> USE DEF Tree
<1>1. /\ above'[j] = up /\ root'[j] = top /\ Running(j)'
      /\ \A q \in Procs \ {j} : above'[q] = above[q] /\ root'[q] = root[q] /\ st'[q] = st[q]
  BY DEF TypeOK, Running
<1>2. \A q \in Procs \ {j} : Alive(q)' => Alive(q) /\ j \notin above[q] /\ above[q] \subseteq Procs \ {j}
  BY <1>1 DEF Alive, Running, Zombie, AboveRuns, TypeOK
<1>3. /\ j \notin up /\ up \subseteq Procs \ {j}
      /\ \A p \in up : Running(p) /\ root[p] = top /\ above[p] \subseteq up
      /\ \A p, r \in up : p = r \/ p \in above[r] \/ r \in above[p]
      /\ \A p \in up : up = above[p] \cup {p} \/ \E r \in up : IsChild(r, p)
      /\ up = {} \/ \E r \in up : above[r] = {}
  <2>1. CASE up = {}
    BY <2>1
  <2>2. ASSUME NEW p \in Procs, Running(p), up = above[p] \cup {p}, top = root[p]
        PROVE  <1>3
    <3>1. Alive(p) /\ p # j
      BY <2>2 DEF Alive
    <3>2. /\ j \notin up
          /\ \A q \in up : Running(q) /\ root[q] = top /\ above[q] \subseteq up
      BY <2>2, <3>1 DEF AboveRuns, Alive
    <3>3. \A q, r \in up : q = r \/ q \in above[r] \/ r \in above[q]
      BY <2>2, <3>1 DEF AboveLine
    <3>4. \A q \in up : up = above[q] \cup {q} \/ \E r \in up : IsChild(r, q)
      BY <2>2, <3>1 DEF AboveSteps
    <3>5. \E r \in up : above[r] = {}
      BY <2>2, <3>1 DEF AboveTop
    <3> QED BY <3>2, <3>3, <3>4, <3>5
  <2> QED BY <2>1, <2>2
<1>4. AboveRuns'
  <2> SUFFICES ASSUME NEW q \in Procs, Alive(q)'
               PROVE  /\ q \notin above'[q]
                      /\ \A p \in above'[q] : Running(p)' /\ root'[p] = root'[q] /\ above'[p] \subseteq above'[q]
    BY DEF AboveRuns
  <2>1. CASE q = j
    BY <1>1, <1>3, <2>1 DEF Running
  <2>2. CASE q # j
    BY <1>1, <1>2, <2>2 DEF AboveRuns, Running
  <2> QED BY <2>1, <2>2
<1>5. AboveLine'
  <2> SUFFICES ASSUME NEW q \in Procs, Alive(q)', NEW p \in above'[q], NEW r \in above'[q]
               PROVE  p = r \/ p \in above'[r] \/ r \in above'[p]
    BY DEF AboveLine
  <2>1. CASE q = j
    BY <1>1, <1>3, <2>1
  <2>2. CASE q # j
    BY <1>1, <1>2, <2>2 DEF AboveLine
  <2> QED BY <2>1, <2>2
<1>6. AboveSteps'
  <2> SUFFICES ASSUME NEW q \in Procs, Alive(q)', NEW p \in above'[q]
               PROVE  IsChild(q, p)' \/ \E r \in above'[q] : IsChild(r, p)'
    BY DEF AboveSteps
  <2>1. CASE q = j
    BY <1>1, <1>3, <2>1 DEF IsChild
  <2>2. CASE q # j
    BY <1>1, <1>2, <2>2 DEF AboveSteps, IsChild
  <2> QED BY <2>1, <2>2
<1>7. AboveTop'
  <2> SUFFICES ASSUME NEW q \in Procs, Alive(q)'
               PROVE  above'[q] = {} \/ \E r \in above'[q] : above'[r] = {}
    BY DEF AboveTop
  <2>1. CASE q = j
    BY <1>1, <1>3, <2>1
  <2>2. CASE q # j
    BY <1>1, <1>2, <2>2 DEF AboveTop
  <2> QED BY <2>1, <2>2
<1> QED BY <1>4, <1>5, <1>6, <1>7

\* A process that exits takes those above it, and itself, out of the lines of
\* those below it.
LEMMA Cut ==
  ASSUME Tree, TypeOK', NEW p \in Procs, Exit(p)
  PROVE  Tree'
<1> USE DEF Tree
<1> DEFINE gone == above[p] \cup {p}
<1>0. Running(p) /\ Alive(p)
  BY DEF Exit, Alive
<1>1. \A q \in Procs : above'[q] = IF p \in above[q] THEN above[q] \ gone ELSE above[q]
  BY DEF Exit
<1>2. \A q \in Procs : root'[q] = IF p \in above[q] THEN Adopter(p) ELSE root[q]
  BY DEF Exit
<1>3. \A q \in Procs : Alive(q)' => Alive(q)
  BY <1>0 DEF Exit, Alive, Running, Zombie, ReapedByOne, TypeOK
<1>4. \A q \in Procs \ {p} : Running(q) => Running(q)'
  BY DEF Exit, Running, ReapedByOne, TypeOK
<1>5. \A q \in Procs : above[q] \subseteq Procs
  BY DEF TypeOK
<1>6. \A q \in Procs : Alive(q) => p \notin above[q] \/ (gone \subseteq above[q] /\ q \notin gone)
  BY <1>0, <1>5 DEF AboveRuns
\* Whoever stays in the line of q was below p.
<1>7. ASSUME NEW q \in Procs, Alive(q), p \in above[q], NEW x \in above[q], x \notin gone
      PROVE  p \in above[x] /\ above'[x] = above[x] \ gone
  <2>1. p \in above[x]
    BY <1>7 DEF AboveLine
  <2> QED BY <1>1, <1>5, <1>7, <2>1
<1>8. ASSUME NEW q \in Procs, Alive(q), p \notin above[q]
      PROVE  /\ above'[q] = above[q] /\ root'[q] = root[q]
             /\ \A x \in above[q] : x # p /\ p \notin above[x] /\ above'[x] = above[x] /\ root'[x] = root[x]
  BY <1>1, <1>2, <1>5, <1>8 DEF AboveRuns
<1>9. AboveRuns'
  <2> SUFFICES ASSUME NEW q \in Procs, Alive(q)'
               PROVE  /\ q \notin above'[q]
                      /\ \A x \in above'[q] : Running(x)' /\ root'[x] = root'[q] /\ above'[x] \subseteq above'[q]
    BY DEF AboveRuns
  <2>1. CASE p \notin above[q]
    BY <1>3, <1>4, <1>5, <1>8, <2>1 DEF AboveRuns
  <2>2. CASE p \in above[q]
    <3>1. Alive(q) /\ above'[q] = above[q] \ gone /\ root'[q] = Adopter(p)
      BY <1>1, <1>2, <1>3, <2>2
    <3>2. ASSUME NEW x \in above[q], x \notin gone
          PROVE  Running(x)' /\ root'[x] = Adopter(p) /\ above'[x] \subseteq above[q] \ gone
      <4>1. p \in above[x] /\ above'[x] = above[x] \ gone /\ x \in Procs
        BY <1>5, <1>7, <2>2, <3>1, <3>2
      <4>2. Running(x) /\ above[x] \subseteq above[q]
        BY <3>1 DEF AboveRuns
      <4> QED BY <1>2, <1>4, <3>2, <4>1, <4>2
    <3>3. q \notin above'[q]
      BY <3>1 DEF AboveRuns
    <3> QED BY <3>1, <3>2, <3>3
  <2> QED BY <2>1, <2>2
<1>10. AboveLine'
  <2> SUFFICES ASSUME NEW q \in Procs, Alive(q)', NEW x \in above'[q], NEW y \in above'[q]
               PROVE  x = y \/ x \in above'[y] \/ y \in above'[x]
    BY DEF AboveLine
  <2>1. CASE p \notin above[q]
    BY <1>3, <1>8, <2>1 DEF AboveLine
  <2>2. CASE p \in above[q]
    BY <1>1, <1>3, <1>7, <2>2 DEF AboveLine
  <2> QED BY <2>1, <2>2
<1>11. AboveSteps'
  <2> SUFFICES ASSUME NEW q \in Procs, Alive(q)', NEW x \in above'[q]
               PROVE  IsChild(q, x)' \/ \E r \in above'[q] : IsChild(r, x)'
    BY DEF AboveSteps
  <2>1. CASE p \notin above[q]
    BY <1>3, <1>8, <2>1 DEF AboveSteps, IsChild
  <2>2. CASE p \in above[q]
    <3>1. /\ Alive(q) /\ above'[q] = above[q] \ gone
          /\ x \in above[q] \ gone /\ above'[x] = above[x] \ gone /\ p \in above[x]
      BY <1>1, <1>3, <1>7, <2>2
    <3>2. CASE IsChild(q, x)
      BY <3>1, <3>2 DEF IsChild
    <3>3. ASSUME NEW r \in above[q], IsChild(r, x) PROVE \E z \in above'[q] : IsChild(z, x)'
      <4>1. r \notin gone
        BY <1>0, <1>5, <3>1, <3>3 DEF IsChild, AboveRuns
      <4>2. above'[r] = above[r] \ gone
        BY <1>7, <2>2, <3>1, <4>1
      <4> QED BY <3>1, <3>3, <4>1, <4>2 DEF IsChild
    <3> QED BY <3>1, <3>2, <3>3 DEF AboveSteps
  <2> QED BY <2>1, <2>2
<1>12. AboveTop'
  <2> SUFFICES ASSUME NEW q \in Procs, Alive(q)'
               PROVE  above'[q] = {} \/ \E r \in above'[q] : above'[r] = {}
    BY DEF AboveTop
  <2>1. CASE p \notin above[q]
    BY <1>3, <1>8, <2>1 DEF AboveTop
  <2>2. CASE p \in above[q]
    <3>1. Alive(q) /\ above'[q] = above[q] \ gone
      BY <1>1, <1>3, <2>2
    <3>2. CASE IsChild(q, p)
      BY <3>1, <3>2 DEF IsChild
    <3>3. ASSUME NEW r \in above[q], IsChild(r, p) PROVE \E z \in above'[q] : above'[z] = {}
      <4>1. r \notin gone
        BY <1>0, <3>1, <3>3, <1>5 DEF IsChild, AboveRuns
      <4> QED BY <1>7, <2>2, <3>1, <3>3, <4>1 DEF IsChild
    <3> QED BY <2>2, <3>1, <3>2, <3>3 DEF AboveSteps
  <2> QED BY <2>1, <2>2
<1> QED BY <1>9, <1>10, <1>11, <1>12

-----------------------------------------------------------------------------

\* The shell of a live entrypoint is its child, and was not there before Spawn.
ShellPlace == \A s \in Sessions :
  /\ at[s] \in Early => st[s] = "none"
  /\ Live(s) /\ Alive(s) => root[s] = Entry(s) /\ above[s] = {}

\* A background process is below its entrypoint or, if it was orphaned before
\* SetSubreaper, below process 1.
JobPlace == \A s \in Sessions : \A j \in Background(s) :
  /\ ~Ended(s) => at[s] \notin Early /\ root[j] \in {Entry(s), One}
  /\ Subreaper(s) => j \in escaped \/ root[j] = Entry(s)

\* WaitKept, and that the shell has ended, or it could start more.
NothingStarts == \A s \in Sessions :
  at[s] = "done" /\ wait[s] # "background" => ~Running(s) /\ Background(s) \subseteq escaped

Inv == Tree /\ ShellPlace /\ JobPlace /\ NothingStarts

\* An entrypoint that waitpid tells ECHILD has nobody left below it.
LEMMA NobodyLeft ==
  ASSUME Inv, NEW s \in Sessions, Subreaper(s), Children(s) = {}
  PROVE  ~Running(s) /\ Background(s) \subseteq escaped
<1>1. \A q \in Procs : Alive(q) => root[q] # Entry(s)
  <2> SUFFICES ASSUME NEW q \in Procs, Alive(q), root[q] = Entry(s) PROVE FALSE
    OBVIOUS
  <2>1. q \notin Children(s)
    OBVIOUS
  <2>2. PICK r \in above[q] : above[r] = {}
    BY <2>1 DEF Inv, Tree, AboveTop, Children, Alive
  <2>3. r \in Procs /\ Running(r) /\ root[r] = Entry(s)
    BY <2>2 DEF Inv, Tree, AboveRuns, TypeOK
  <2> QED BY <2>2, <2>3 DEF Children
<1>2. ~Running(s)
  <2>1. Live(s) /\ s \in Procs
    BY DEF Subreaper, Live, Early, Procs
  <2> QED BY <1>1, <2>1 DEF Inv, ShellPlace, Alive
<1>3. Background(s) \subseteq escaped
  BY <1>1 DEF Inv, JobPlace, Background, Alive, Procs
<1> QED BY <1>2, <1>3

\* A step in which processes only end or are adopted by process 1, and
\* entrypoints end, or go on before Spawn or after SetSubreaper.
LEMMA Settled ==
  ASSUME Inv, TypeOK', UNCHANGED <<wait, above, owner, escaped>>,
         \A q \in Procs :
           /\ Alive(q)' => Alive(q) /\ \A p \in Procs : Running(p) => Running(p)'
           /\ Running(q)' => Running(q)
           /\ st[q] = "none" => st'[q] = "none",
         \A p, q \in Procs : root[p] = root[q] => root'[p] = root'[q],
         \A t \in Sessions : ~Ended(t)' =>
           /\ ~Ended(t)
           /\ \/ at'[t] = at[t]
              \/ at[t] \in Early /\ at'[t] \in Early
              \/ Subreaper(t) /\ Subreaper(t)'
           /\ \A p \in Procs : root[p] \in {Entry(t), One} => root'[p] = root[p],
         \A t \in Sessions : at'[t] = "done" =>
           at[t] = "done" \/ wait[t] = "background" \/ (~Running(t)' /\ Background(t)' \subseteq escaped)
  PROVE  Inv'
<1> USE DEF Inv, Procs
<1>1. Tree'
  BY Pruned
<1>2. \A t \in Sessions : Background(t)' \subseteq Background(t)
  BY DEF Background
<1>3. ShellPlace'
  <2> SUFFICES ASSUME NEW t \in Sessions
               PROVE  /\ at'[t] \in Early => st'[t] = "none"
                      /\ Live(t)' /\ Alive(t)' => root'[t] = Entry(t) /\ above[t] = {}
    BY DEF ShellPlace
  <2>1. at'[t] \in Early => at[t] \in Early
    BY DEF Early, Ended, Subreaper
  <2>2. at'[t] \in Early => st'[t] = "none"
    BY <2>1 DEF ShellPlace
  <2>3. Live(t)' /\ Alive(t)' => Live(t) /\ Alive(t)
    BY DEF Live, Early, Subreaper, ShellPlace, Alive, Running, Zombie
  <2> QED BY <2>2, <2>3 DEF ShellPlace, Live
<1>4. JobPlace'
  <2> SUFFICES ASSUME NEW t \in Sessions, NEW j \in Background(t)', ~Ended(t)'
               PROVE  /\ at'[t] \notin Early /\ root'[j] \in {Entry(t), One}
                      /\ Subreaper(t)' => j \in escaped \/ root'[j] = Entry(t)
    BY DEF JobPlace, Subreaper
  <2>1. j \in Background(t) /\ j \in Procs /\ ~Ended(t)
    BY <1>2 DEF Background
  <2>2. root'[j] = root[j] /\ root[j] \in {Entry(t), One}
    BY <2>1 DEF JobPlace
  <2>3. at'[t] \notin Early /\ (Subreaper(t)' => Subreaper(t))
    BY <2>1 DEF JobPlace, Subreaper, Ended
  <2> QED BY <2>1, <2>2, <2>3 DEF JobPlace
<1>5. NothingStarts'
  BY <1>2 DEF NothingStarts
<1> QED BY <1>1, <1>3, <1>4, <1>5

\* An entrypoint goes on without a change to the processes.
LEMMA Moved ==
  ASSUME Inv, TypeOK', UNCHANGED <<wait, tree>>, NEW s \in Sessions, NEW to,
         at' = [at EXCEPT ![s] = to],
         to = at[s] \/ to = "failed" \/ (at[s] \in Early /\ to \in Early) \/ (Subreaper(s) /\ to \in {"waiting", "term", "kill"})
  PROVE  Inv'
<1> USE DEF tree
<1>1. \A q \in Procs : (Alive(q)' <=> Alive(q)) /\ (Running(q)' <=> Running(q))
  BY DEF Alive, Running, Zombie
<1>2. \A t \in Sessions : at'[t] = IF t = s THEN to ELSE at[t]
  BY DEF Inv, Tree, TypeOK
<1>3. \A t \in Sessions : ~Ended(t)' =>
        ~Ended(t) /\ (at'[t] = at[t] \/ (at[t] \in Early /\ at'[t] \in Early) \/ (Subreaper(t) /\ Subreaper(t)'))
  BY <1>2 DEF Ended, Early, Subreaper
<1>4. \A t \in Sessions : at'[t] = "done" => at[t] = "done"
  BY <1>2 DEF Early
<1>5. \A t \in Sessions : ~Ended(t)' =>
        /\ ~Ended(t)
        /\ \/ at'[t] = at[t]
           \/ at[t] \in Early /\ at'[t] \in Early
           \/ Subreaper(t) /\ Subreaper(t)'
        /\ \A p \in Procs : root[p] \in {Entry(t), One} => root'[p] = root[p]
  BY <1>3
<1>6. /\ UNCHANGED <<wait, above, owner, escaped>>
      /\ \A p, q \in Procs : root[p] = root[q] => root'[p] = root'[q]
      /\ \A q \in Procs :
           /\ Alive(q)' => Alive(q) /\ \A p \in Procs : Running(p) => Running(p)'
           /\ Running(q)' => Running(q)
           /\ st[q] = "none" => st'[q] = "none"
  BY <1>1
<1> QED BY <1>4, <1>5, <1>6, Settled

\* Entrypoints end, and with them what SIGKILL kills, if it is sent.
LEMMA EndedInv ==
  ASSUME Inv, TypeOK', NEW ended \in SUBSET Sessions, NEW states, Orphan(ended, states),
         \A q \in Procs : states[q] = st[q] \/ (Zombie(q) /\ states[q] = "gone")
           \/ (\A p \in Procs : states[p] \in {"none", "gone"} /\ (st[p] = "none" => states[p] = "none")),
         \A t \in ended : at'[t] \in {"done", "failed", "dead"},
         \A t \in Sessions \ ended : at'[t] = at[t] \/ (Subreaper(t) /\ Subreaper(t)'),
         \A t \in Sessions : at'[t] = "done" =>
           at[t] = "done" \/ wait[t] = "background" \/ (~Running(t)' /\ Background(t)' \subseteq escaped)
  PROVE  Inv'
<1>1. \A q \in Procs : st'[q] = states[q] \/ (states[q] \in {"ok", "bad"} /\ st'[q] = "gone")
  BY DEF Orphan, ReapedByOne
<1>2. \A q \in Procs :
        /\ Alive(q)' => Alive(q) /\ \A p \in Procs : Running(p) => Running(p)'
        /\ Running(q)' => Running(q)
        /\ st[q] = "none" => st'[q] = "none"
  BY <1>1 DEF Alive, Running, Zombie
<1>3. \A p \in Procs : root'[p] = IF root[p] \in {Entry(s) : s \in ended} THEN One ELSE root[p]
  BY DEF Orphan
<1>4. \A t \in Sessions : ~Ended(t)' =>
        /\ ~Ended(t)
        /\ \/ at'[t] = at[t]
           \/ at[t] \in Early /\ at'[t] \in Early
           \/ Subreaper(t) /\ Subreaper(t)'
        /\ \A p \in Procs : root[p] \in {Entry(t), One} => root'[p] = root[p]
  BY <1>3 DEF Ended, Subreaper, Entry
<1> QED BY <1>2, <1>3, <1>4, Settled DEF Orphan

\* One entrypoint ends by itself.
LEMMA EntryEnded ==
  ASSUME Inv, TypeOK', NEW s \in Sessions, NEW how \in {"done", "failed", "dead"}, NEW states,
         EndEntry(s, how, states),
         \A q \in Procs : states[q] = st[q] \/ (Zombie(q) /\ states[q] = "gone"),
         how = "done" => wait[s] = "background" \/ (~Running(s) /\ Background(s) \subseteq escaped)
  PROVE  Inv'
<1>1. \A t \in Sessions : at'[t] = IF t = s THEN how ELSE at[t]
  BY DEF Inv, Tree, TypeOK, EndEntry
<1>2. Orphan({s}, states)
  BY DEF EndEntry
<1>3. \A q \in Procs : Running(q)' => Running(q)
  BY <1>2 DEF Orphan, ReapedByOne, Running, Zombie
<1>4. ~Running(s) /\ Background(s) \subseteq escaped => ~Running(s)' /\ Background(s)' \subseteq escaped
  BY <1>2, <1>3 DEF Background, Orphan, Procs
<1>5. \A t \in Sessions : at'[t] = "done" =>
        at[t] = "done" \/ wait[t] = "background" \/ (~Running(t)' /\ Background(t)' \subseteq escaped)
  BY <1>1, <1>4
<1>6. /\ {s} \in SUBSET Sessions
      /\ \A t \in {s} : at'[t] \in {"done", "failed", "dead"}
      /\ \A t \in Sessions \ {s} : at'[t] = at[t] \/ (Subreaper(t) /\ Subreaper(t)')
      /\ \A q \in Procs : states[q] = st[q] \/ (Zombie(q) /\ states[q] = "gone")
           \/ (\A p \in Procs : states[p] \in {"none", "gone"} /\ (st[p] = "none" => states[p] = "none"))
  BY <1>1
<1> QED BY <1>2, <1>5, <1>6, EndedInv

\* The steps of the shells and jobs.
LEMMA UserSteps ==
  ASSUME Inv, TypeOK', NEW p \in Procs, Exit(p) \/ \E j \in Jobs : StartJob(p, j) \/ WaitForJob(p, j)
  PROVE  Inv'
<1> USE DEF Inv
<1>1. CASE Exit(p)
  <2>1. Tree'
    BY <1>1, Cut
  <2>2. Running(p) /\ Alive(p) /\ Adopter(p) \in {root[p], One}
    BY <1>1 DEF Exit, Adopter, Alive
  <2>3. \A q \in Procs :
          /\ Alive(q)' => Alive(q)
          /\ Running(q)' => Running(q)
          /\ st[q] = "none" => st'[q] = "none"
    BY <1>1, <2>2 DEF Exit, Alive, Running, Zombie, ReapedByOne, Tree, TypeOK
  <2>4. \A q \in Procs : Alive(q) => root'[q] = root[q] \/ (root[p] = root[q] /\ root'[q] = Adopter(p))
    BY <1>1 DEF Exit, Tree, AboveRuns
  <2>5. UNCHANGED <<at, wait, owner, escaped>>
    BY <1>1 DEF Exit
  <2>6. \A t \in Sessions : Background(t)' \subseteq Background(t)
    BY <2>3, <2>5 DEF Background, Procs
  <2>7. ShellPlace'
    <3> SUFFICES ASSUME NEW t \in Sessions
                 PROVE  /\ at[t] \in Early => st'[t] = "none"
                        /\ Live(t) /\ Alive(t)' => root'[t] = Entry(t) /\ above'[t] = {}
      BY <2>5 DEF ShellPlace, Live, Ended
    <3>1. t \in Procs
      BY DEF Procs
    <3>2. at[t] \in Early => st'[t] = "none"
      BY <2>3, <3>1 DEF ShellPlace
    <3>3. ASSUME Live(t), Alive(t)' PROVE root'[t] = Entry(t) /\ above'[t] = {}
      BY <1>1, <2>3, <3>1, <3>3 DEF Exit, ShellPlace
    <3> QED BY <3>2, <3>3
  <2>8. JobPlace'
    <3> SUFFICES ASSUME NEW t \in Sessions, NEW j \in Background(t)'
                 PROVE  /\ ~Ended(t) => at[t] \notin Early /\ root'[j] \in {Entry(t), One}
                        /\ Subreaper(t) => j \in escaped \/ root'[j] = Entry(t)
      BY <2>5 DEF JobPlace, Ended, Subreaper
    <3>1. j \in Background(t) /\ j \in Procs /\ Alive(j)
      BY <2>6 DEF Background, Procs, Alive
    <3>2. Subreaper(t) /\ root[p] = Entry(t) => Adopter(p) = Entry(t)
      BY DEF Adopter
    <3> QED BY <2>2, <2>4, <3>1, <3>2 DEF JobPlace
  <2>9. NothingStarts'
    BY <2>3, <2>5, <2>6 DEF NothingStarts, Procs
  <2> QED BY <2>1, <2>7, <2>8, <2>9
<1>2. ASSUME NEW j \in Jobs, StartJob(p, j) PROVE Inv'
  <2>0. j \in Procs /\ j \notin Sessions /\ st[j] = "none" /\ ~Alive(j) /\ Running(p) /\ Alive(p) /\ p # j
    BY <1>2, DistinctProcesses DEF StartJob, Procs, Alive, Running, Zombie
  <2>1. Tree'
    BY <1>2, <2>0, Grown DEF StartJob, Tree, TypeOK
  <2>2. /\ Running(j)' /\ root'[j] = root[p]
        /\ owner'[j] = IF p \in Jobs THEN owner[p] ELSE p
        /\ \A q \in Procs \ {j} : st'[q] = st[q] /\ root'[q] = root[q] /\ above'[q] = above[q]
        /\ \A q \in Jobs \ {j} : owner'[q] = owner[q]
        /\ escaped \subseteq escaped' /\ (p \in escaped => j \in escaped')
        /\ UNCHANGED <<at, wait>>
    BY <1>2, <2>0 DEF StartJob, Running, Tree, TypeOK
  <2>3. ShellPlace'
    BY <2>0, <2>2 DEF ShellPlace, Live, Ended, Alive, Running, Zombie, Procs
  <2>4. \A t \in Sessions : \A q \in Background(t)' : q \in Background(t) \ {j} \/ q = j
    BY <2>2 DEF Background, Running, Procs
  <2>5. \A t \in Sessions : j \in Background(t)' => p \in Background(t) \/ (p \notin Jobs /\ p = t)
    BY <2>0, <2>2 DEF Background
  <2>6. JobPlace'
    <3> SUFFICES ASSUME NEW t \in Sessions, NEW q \in Background(t)'
                 PROVE  /\ ~Ended(t) => at[t] \notin Early /\ root'[q] \in {Entry(t), One}
                        /\ Subreaper(t) => q \in escaped' \/ root'[q] = Entry(t)
      BY <2>2 DEF JobPlace, Ended, Subreaper
    <3>1. CASE q \in Background(t) \ {j}
      BY <2>2, <3>1 DEF JobPlace, Background, Procs
    <3>2. CASE q = j /\ p \in Background(t)
      BY <2>2, <3>2 DEF JobPlace
    <3>3. CASE q = j /\ p = t
      <4>1. ~Ended(t) => Live(t) /\ at[t] \notin Early /\ root[p] = Entry(t)
        BY <2>0, <3>3 DEF ShellPlace, Live, Early, Running
      <4> QED BY <2>2, <3>3, <4>1 DEF Subreaper
    <3> QED BY <2>4, <2>5, <3>1, <3>2, <3>3
  <2>7. NothingStarts'
    <3> SUFFICES ASSUME NEW t \in Sessions, at[t] = "done", wait[t] # "background"
                 PROVE  ~Running(t)' /\ Background(t)' \subseteq escaped'
      BY <2>2 DEF NothingStarts
    <3>1. ~Running(t) /\ Background(t) \subseteq escaped
      BY DEF NothingStarts
    <3>2. ~Running(t)'
      BY <2>0, <2>2, <3>1 DEF Running, Procs
    <3> QED BY <2>0, <2>2, <2>4, <2>5, <3>1, <3>2
  <2> QED BY <2>1, <2>3, <2>6, <2>7
<1>3. ASSUME NEW j \in Jobs, WaitForJob(p, j) PROVE Inv'
  <2>1. \A q \in Procs : st'[q] = IF q = j THEN "gone" ELSE st[q]
    BY <1>3 DEF WaitForJob, Tree, TypeOK
  <2>2. \A q \in Procs :
          /\ Alive(q)' => Alive(q) /\ \A r \in Procs : Running(r) => Running(r)'
          /\ Running(q)' => Running(q)
          /\ st[q] = "none" => st'[q] = "none"
    BY <1>3, <2>1 DEF WaitForJob, Alive, Running, Zombie
  <2> QED BY <1>3, <2>2, Settled DEF WaitForJob, Ended
<1> QED BY <1>1, <1>2, <1>3

\* WaitKept's invariant holds in every state.
LEMMA InvCorrect == Spec => []Inv
<1>1. Init => Inv
  <2> SUFFICES ASSUME Init PROVE Inv
    OBVIOUS
  <2>1. TypeOK
    BY DEF Init, TypeOK, EntryPc
  <2>2. \A p \in Procs : ~Alive(p) /\ ~Running(p)
    BY DEF Init, Alive, Running, Zombie
  <2> QED BY <2>1, <2>2 DEF Init, Inv, Tree, AboveRuns, AboveLine, AboveSteps, AboveTop,
             ShellPlace, JobPlace, NothingStarts, Background, Procs, Early
<1>2. ASSUME Inv, [Next]_vars, TypeOK' PROVE Inv'
  <2>0. CASE UNCHANGED vars
    <3>1. UNCHANGED <<wait, above, owner, escaped, st, root, at>>
      BY <2>0 DEF vars, tree
    <3>2. \A q \in Procs : (Alive(q)' <=> Alive(q)) /\ (Running(q)' <=> Running(q))
      BY <3>1 DEF Alive, Running, Zombie
    <3>3. \A t \in Sessions : Ended(t)' <=> Ended(t)
      BY <3>1 DEF Ended
    <3> QED BY <1>2, <3>1, <3>2, <3>3, Settled
  <2>1. ASSUME NEW p \in Procs, Exit(p) \/ \E j \in Jobs : StartJob(p, j) \/ WaitForJob(p, j) PROVE Inv'
    BY <1>2, <2>1, UserSteps
  <2>2. ASSUME NEW s \in Sessions, PrepareHome(s) \/ ScriptEnds(s) \/ MarkHome(s) PROVE Inv'
    <3>1. UNCHANGED <<wait, tree>>
      BY <2>2 DEF PrepareHome, ScriptEnds, MarkHome
    <3>2. \E to : at' = [at EXCEPT ![s] = to] /\ (to = at[s] \/ (at[s] \in Early /\ to \in Early))
      BY <2>2 DEF PrepareHome, ScriptEnds, MarkHome, Early
    <3> QED BY <1>2, <3>1, <3>2, Moved
  <2>3. ASSUME NEW s \in Sessions, SetupFails(s) \/ GraceTimeout(s) PROVE Inv'
    <3>1. UNCHANGED <<wait, tree>>
      BY <2>3 DEF SetupFails, GraceTimeout, Goto
    <3>2. \E to : at' = [at EXCEPT ![s] = to] /\ (to = "failed" \/ (Subreaper(s) /\ to \in {"waiting", "term", "kill"}))
      BY <2>3 DEF SetupFails, GraceTimeout, Goto, Subreaper, Early, Ended
    <3> QED BY <1>2, <3>1, <3>2, Moved
  <2>4. ASSUME NEW s \in Sessions, Interrupt(s) PROVE Inv'
    BY <1>2, <2>4, EntryEnded DEF Interrupt
  <2>5. ASSUME NEW s \in Sessions, Spawn(s) PROVE Inv'
    <3>1. s \in Procs /\ s \notin Jobs /\ at[s] \in Early /\ ~Ended(s) /\ st[s] = "none" /\ ~Alive(s)
      BY <1>2, <2>5, DistinctProcesses
         DEF Spawn, Inv, ShellPlace, Procs, Early, Ended, Alive, Running, Zombie
    <3>2. Tree'
      BY <1>2, <2>5, <3>1, Grown DEF Spawn, Inv
    <3>3. /\ st'[s] = "running" /\ root'[s] = Entry(s) /\ above'[s] = {} /\ at'[s] = "spawned"
          /\ \A q \in Procs \ {s} : st'[q] = st[q] /\ root'[q] = root[q] /\ above'[q] = above[q]
          /\ \A t \in Sessions \ {s} : at'[t] = at[t]
          /\ UNCHANGED <<wait, owner, escaped>>
      BY <1>2, <2>5, <3>1 DEF Spawn, Inv, Tree, TypeOK
    <3>4. ShellPlace'
      BY <1>2, <3>1, <3>3 DEF Inv, ShellPlace, Live, Ended, Early, Alive, Running, Zombie, Procs
    <3>5. \A t \in Sessions : Background(t)' = Background(t)
      BY <3>1, <3>3 DEF Background, Running, Procs
    <3>6. \A t \in Sessions : \A j \in Background(t) : root'[j] = root[j]
      BY <3>1, <3>3 DEF Background, Procs
    <3>7. Background(s) = {}
      BY <1>2, <3>1 DEF Inv, JobPlace
    <3>8. JobPlace'
      BY <1>2, <3>1, <3>3, <3>5, <3>6, <3>7 DEF Inv, JobPlace, Ended, Subreaper
    <3>9. NothingStarts'
      BY <1>2, <3>1, <3>3, <3>5 DEF Inv, NothingStarts, Running, Procs
    <3> QED BY <3>2, <3>4, <3>8, <3>9 DEF Inv
  <2>6. ASSUME NEW s \in Sessions, SetSubreaper(s) PROVE Inv'
    <3>1. /\ at[s] = "spawned" /\ at'[s] = "waiting"
          /\ \A t \in Sessions \ {s} : at'[t] = at[t]
          /\ escaped' = escaped \cup {j \in Background(s) : root[j] = One}
          /\ UNCHANGED <<wait, st, above, root, owner>>
      BY <1>2, <2>6 DEF SetSubreaper, Inv, Tree, TypeOK
    <3>2. Tree'
      BY <1>2, <3>1, Pruned DEF Inv, Alive, Running, Zombie
    <3>3. ShellPlace'
      BY <1>2, <3>1 DEF Inv, ShellPlace, Live, Ended, Early, Alive, Running, Zombie
    <3>4. \A t \in Sessions : Background(t)' = Background(t)
      BY <3>1 DEF Background, Running
    <3>5. JobPlace'
      <4> SUFFICES ASSUME NEW t \in Sessions, NEW j \in Background(t)
                   PROVE  /\ ~Ended(t)' => at'[t] \notin Early /\ root[j] \in {Entry(t), One}
                          /\ Subreaper(t)' => j \in escaped' \/ root[j] = Entry(t)
        BY <3>1, <3>4 DEF JobPlace
      <4>1. CASE t = s
        BY <1>2, <3>1, <4>1 DEF Inv, JobPlace, Ended, Early
      <4>2. CASE t # s
        BY <1>2, <3>1, <4>2 DEF Inv, JobPlace, Ended, Subreaper
      <4> QED BY <4>1, <4>2
    <3>6. NothingStarts'
      BY <1>2, <3>1, <3>4 DEF Inv, NothingStarts, Running
    <3> QED BY <3>2, <3>3, <3>5, <3>6 DEF Inv
  <2>7. ASSUME NEW s \in Sessions, NEW p \in Procs, Reap(s, p) \/ GraceReap(s, p) PROVE Inv'
    <3> DEFINE reaped == [st EXCEPT ![p] = "gone"]
    <3>1. Zombie(p) /\ \A q \in Procs : reaped[q] = IF q = p THEN "gone" ELSE st[q]
      BY <1>2, <2>7 DEF Reap, GraceReap, Inv, Tree, TypeOK
    <3>2. CASE EndEntry(s, "failed", reaped)
      BY <1>2, <3>1, <3>2, EntryEnded
    <3>3. CASE ~EndEntry(s, "failed", reaped)
      <4>1. /\ st' = reaped
            /\ at' = at \/ (Subreaper(s) /\ at' = [at EXCEPT ![s] = "polling"])
            /\ UNCHANGED <<wait, above, root, owner, escaped>>
        <5>1. at' = [at EXCEPT ![s] = @] => at' = at
          BY <1>2 DEF Inv, Tree, TypeOK
        <5>2. CASE Reap(s, p)
          BY <3>3, <5>1, <5>2 DEF Reap, Subreaper, Early, Ended
        <5>3. CASE GraceReap(s, p)
          BY <5>3 DEF GraceReap
        <5> QED BY <2>7, <5>2, <5>3
      <4>2. \A q \in Procs :
              /\ Alive(q)' => Alive(q) /\ \A r \in Procs : Running(r) => Running(r)'
              /\ Running(q)' => Running(q)
              /\ st[q] = "none" => st'[q] = "none"
        BY <3>1, <4>1 DEF Alive, Running, Zombie
      <4>3. \A t \in Sessions :
              /\ at'[t] = at[t] \/ (Subreaper(t) /\ Subreaper(t)' /\ ~Ended(t))
              /\ at'[t] = "done" => at[t] = "done"
        BY <1>2, <4>1 DEF Inv, Tree, TypeOK, Subreaper, Early, Ended
      <4>4. \A t \in Sessions : ~Ended(t)' =>
              /\ ~Ended(t)
              /\ \/ at'[t] = at[t]
                 \/ at[t] \in Early /\ at'[t] \in Early
                 \/ Subreaper(t) /\ Subreaper(t)'
              /\ \A q \in Procs : root[q] \in {Entry(t), One} => root'[q] = root[q]
        BY <4>1, <4>3 DEF Ended
      <4> QED BY <1>2, <4>1, <4>2, <4>3, <4>4, Settled
    <3> QED BY <3>2, <3>3
  <2>8. ASSUME NEW s \in Sessions, StillAlive(s) PROVE Inv'
    <3>1. \/ Subreaper(s) /\ (Goto(s, "waiting") \/ Goto(s, "term"))
          \/ wait[s] = "background" /\ EndEntry(s, "done", st)
      BY <1>2, <2>8 DEF StillAlive, Subreaper, Ended, Early, Inv, Tree, TypeOK, Waits
    <3>2. CASE Subreaper(s) /\ (Goto(s, "waiting") \/ Goto(s, "term"))
      BY <1>2, <3>2, Moved DEF Goto
    <3> QED BY <1>2, <3>1, <3>2, EntryEnded
  <2>9. ASSUME NEW s \in Sessions, NoChild(s) \/ GraceOver(s) PROVE Inv'
    <3>1. Subreaper(s) /\ Children(s) = {} /\ EndEntry(s, "done", st)
      BY <2>9 DEF NoChild, GraceOver, Subreaper, Ended, Early
    <3> QED BY <1>2, <3>1, EntryEnded, NobodyLeft
  <2>10. ASSUME NEW s \in Sessions, SendTerm(s) PROVE Inv'
    <3>1. \A t \in Sessions : at'[t] = IF t = s THEN "grace" ELSE IF t \in Others(s) THEN "dead" ELSE at[t]
      BY <2>10 DEF SendTerm, GotoAndKill
    <3>2. Others(s) \in SUBSET Sessions /\ s \notin Others(s) /\ Subreaper(s) /\ Subreaper(s)'
      BY <2>10, <3>1 DEF SendTerm, Others, Subreaper, Early, Ended
    <3>3. /\ \A t \in Others(s) : at'[t] \in {"done", "failed", "dead"}
          /\ \A t \in Sessions \ Others(s) : at'[t] = at[t] \/ (Subreaper(t) /\ Subreaper(t)')
          /\ \A t \in Sessions : at'[t] = "done" => at[t] = "done"
      BY <3>1, <3>2
    <3> QED BY <1>2, <2>10, <3>2, <3>3, EndedInv DEF SendTerm
  <2>11. ASSUME NEW s \in Sessions, SendKill(s) PROVE Inv'
    <3> DEFINE killed == [p \in Procs |-> IF st[p] = "none" THEN "none" ELSE "gone"]
    <3>1. CASE EndEntry(s, "failed", st)
      BY <1>2, <3>1, EntryEnded
    <3>2. CASE ~EndEntry(s, "failed", st)
      <4>1. GotoAndKill(s, "done") /\ Orphan(Others(s) \cup {s}, killed)
        BY <2>11, <3>2 DEF SendKill
      <4>2. \A t \in Sessions : at'[t] = IF t = s THEN "done" ELSE IF t \in Others(s) THEN "dead" ELSE at[t]
        BY <4>1 DEF GotoAndKill
      <4>3. Others(s) \cup {s} \in SUBSET Sessions
        BY DEF Others
      <4>4. \A q \in Procs : ~Running(q)'
        BY <4>1 DEF Orphan, Running, ReapedByOne
      <4>5. ~Running(s)' /\ Background(s)' \subseteq escaped
        BY <4>4 DEF Background, Procs
      <4>6. /\ \A t \in Others(s) \cup {s} : at'[t] \in {"done", "failed", "dead"}
            /\ \A t \in Sessions \ (Others(s) \cup {s}) : at'[t] = at[t]
            /\ \A t \in Sessions : at'[t] = "done" => at[t] = "done" \/ t = s
        BY <4>2, <4>3
      <4>7. \A p \in Procs : killed[p] \in {"none", "gone"} /\ (st[p] = "none" => killed[p] = "none")
        OBVIOUS
      <4> QED BY <1>2, <4>1, <4>3, <4>5, <4>6, <4>7, EndedInv
    <3> QED BY <3>1, <3>2
  <2> QED BY <1>2, <2>0, <2>1, <2>2, <2>3, <2>4, <2>5, <2>6, <2>7, <2>8, <2>9, <2>10, <2>11
          DEF Next, UserStep, EntryStep
<1> QED BY <1>1, <1>2, TypeCorrect, PTL DEF Spec

\* An entrypoint that returns without an error has waited for the processes of
\* its session or has killed them, however the processes are related.
THEOREM WaitIsKept == Spec => []WaitKept
<1>1. Inv => WaitKept
  BY DEF Inv, NothingStarts, WaitKept
<1> QED BY <1>1, InvCorrect, PTL

-----------------------------------------------------------------------------

\* Whoever got past the marker was let past it by a script that had returned.
MarkedPrepared ==
  /\ marker => prepared
  /\ \A s \in Sessions :
       /\ at[s] = "marking" => prepared
       /\ at[s] = "ready" \/ Running(s) => marker

\* The first entry alone: while its script runs nobody has passed.
OneScript == scripts # {} /\ ~raced =>
  /\ ~marker
  /\ \A s \in Sessions : at[s] # "marking"
  /\ \A s, t \in scripts : s = t

HomeInv == TypeOK /\ MarkedPrepared /\ OneScript

LEMMA HomeInvCorrect == Spec => []HomeInv
<1>1. Init => HomeInv
  <2> SUFFICES ASSUME Init PROVE HomeInv
    OBVIOUS
  <2>1. TypeOK
    BY DEF Init, TypeOK, EntryPc
  <2> QED BY <2>1 DEF Init, HomeInv, MarkedPrepared, OneScript, Running, Procs
<1>2. ASSUME HomeInv, [Next]_vars, TypeOK' PROVE HomeInv'
  <2> USE <1>2 DEF HomeInv
  \* Most steps let no entrypoint get on with the set-up and start no shell.
  <2>0. ASSUME UNCHANGED <<marker, prepared, raced>>, scripts' \in {scripts, {}},
               \A s \in Sessions :
                 /\ at'[s] \in {"marking", "ready"} => at'[s] = at[s]
                 /\ Running(s)' => Running(s) \/ at[s] = "ready"
        PROVE  HomeInv'
    <3>1. MarkedPrepared'
      BY <2>0 DEF MarkedPrepared
    <3>2. OneScript'
      BY <2>0 DEF OneScript
    <3> QED BY <3>1, <3>2
  <2>1. CASE UNCHANGED vars
    BY <2>0, <2>1 DEF vars, home, tree, Running
  <2>2. ASSUME NEW p \in Procs, Exit(p) \/ \E j \in Jobs : StartJob(p, j) \/ WaitForJob(p, j)
        PROVE  HomeInv'
    <3>1. \A s \in Sessions : s \in Procs /\ s \notin Jobs
      BY DistinctProcesses DEF Procs
    <3>2. UNCHANGED <<at, home>>
      BY <2>2 DEF Exit, StartJob, WaitForJob
    <3>3. \A s \in Sessions : Running(s)' => Running(s)
      <4>1. CASE Exit(p)
        BY <3>1, <4>1 DEF Exit, Running, ReapedByOne, TypeOK
      <4>2. ASSUME NEW j \in Jobs, StartJob(p, j) \/ WaitForJob(p, j)
            PROVE  \A s \in Sessions : Running(s)' => Running(s)
        BY <3>1, <4>2 DEF StartJob, WaitForJob, Running, TypeOK
      <4> QED BY <2>2, <4>1, <4>2
    <3> QED BY <2>0, <3>2, <3>3 DEF home
  <2>3. ASSUME NEW s \in Sessions, PrepareHome(s) PROVE HomeInv'
    <3>1. /\ \A t \in Sessions : at'[t] = IF t = s THEN (IF marker THEN "ready" ELSE "prep") ELSE at[t]
          /\ \A t \in Sessions : Running(t)' <=> Running(t)
          /\ UNCHANGED <<marker, prepared>>
      BY <2>3 DEF PrepareHome, tree, Running, TypeOK
    <3>2. MarkedPrepared'
      BY <3>1 DEF MarkedPrepared
    <3>3. OneScript'
      <4> SUFFICES ASSUME scripts' # {}, ~raced'
                   PROVE  /\ ~marker /\ \A t \in Sessions : at'[t] # "marking"
                          /\ \A t, u \in scripts' : t = u
        BY <3>1 DEF OneScript
      <4>1. scripts = {} /\ ~raced /\ \A t \in Sessions : at[t] \notin {"prep", "marking"}
        BY <2>3 DEF PrepareHome
      <4>2. ~marker /\ scripts' = {s}
        BY <2>3, <4>1 DEF PrepareHome
      <4> QED BY <3>1, <4>1, <4>2
    <3> QED BY <3>2, <3>3
  <2>4. ASSUME NEW s \in Sessions, ScriptEnds(s) PROVE HomeInv'
    <3>1. /\ s \in scripts /\ scripts' = scripts \ {s}
          /\ prepared' = (prepared \/ at[s] = "prep")
          /\ \A t \in Sessions : at'[t] = IF t = s /\ at[s] = "prep" THEN "marking" ELSE at[t]
          /\ \A t \in Sessions : Running(t)' <=> Running(t)
          /\ UNCHANGED <<marker, raced>>
      BY <2>4 DEF ScriptEnds, tree, Running, TypeOK
    <3>2. MarkedPrepared'
      BY <3>1 DEF MarkedPrepared
    <3>3. OneScript'
      BY <3>1 DEF OneScript
    <3> QED BY <3>2, <3>3
  <2>5. ASSUME NEW s \in Sessions, MarkHome(s) PROVE HomeInv'
    <3>1. /\ at[s] = "marking" /\ marker'
          /\ \A t \in Sessions : at'[t] = IF t = s THEN "ready" ELSE at[t]
          /\ \A t \in Sessions : Running(t)' <=> Running(t)
          /\ UNCHANGED <<prepared, raced, scripts>>
      BY <2>5 DEF MarkHome, tree, Running, TypeOK
    <3> QED BY <3>1 DEF MarkedPrepared, OneScript
  <2>6. ASSUME NEW s \in Sessions, Spawn(s) PROVE HomeInv'
    <3>1. /\ at[s] = "ready" /\ UNCHANGED home
          /\ \A t \in Sessions : at'[t] = IF t = s THEN "spawned" ELSE at[t]
          /\ \A t \in Sessions : t # s => (Running(t)' <=> Running(t))
      BY <2>6 DEF Spawn, Running, TypeOK, Procs
    <3> QED BY <2>0, <3>1 DEF home
  <2>7. ASSUME NEW s \in Sessions, NEW to \in EntryPc \ {"marking", "ready"}, Goto(s, to) PROVE HomeInv'
    <3>1. /\ \A t \in Sessions : at'[t] = IF t = s THEN to ELSE at[t]
          /\ UNCHANGED <<tree, home>>
      BY <2>7 DEF Goto, TypeOK
    <3> QED BY <2>0, <3>1 DEF tree, home, Running
  <2>8. ASSUME NEW ended, NEW states, Orphan(ended, states),
               \A t \in Sessions : states[t] = "running" => Running(t),
               \A t \in Sessions : at'[t] \in {"marking", "ready"} => at'[t] = at[t],
               scripts' \in {scripts, {}}, UNCHANGED <<marker, prepared, raced>>
        PROVE  HomeInv'
    <3>1. \A t \in Sessions : Running(t)' => Running(t)
      BY <2>8 DEF Orphan, Running, ReapedByOne, Procs
    <3> QED BY <2>0, <2>8, <3>1
  <2>9. ASSUME NEW s \in Sessions, NEW how \in {"done", "failed", "dead"}, NEW states,
               EndEntry(s, how, states), \A t \in Sessions : states[t] = "running" => Running(t)
        PROVE  HomeInv'
    <3>1. \A t \in Sessions : at'[t] = IF t = s THEN how ELSE at[t]
      BY <2>9 DEF EndEntry, TypeOK
    <3> QED BY <2>8, <2>9, <3>1 DEF EndEntry, home
  <2>10. ASSUME NEW s \in Sessions, SetSubreaper(s) PROVE HomeInv'
    <3>1. \A t \in Sessions : at'[t] = IF t = s THEN "waiting" ELSE at[t]
      BY <2>10 DEF SetSubreaper, TypeOK
    <3> QED BY <2>0, <2>10, <3>1 DEF SetSubreaper, home, Running
  <2>11. ASSUME NEW s \in Sessions, NEW p \in Procs, Reap(s, p) \/ GraceReap(s, p) PROVE HomeInv'
    <3> DEFINE reaped == [st EXCEPT ![p] = "gone"]
    <3>1. \A t \in Sessions : reaped[t] = "running" => Running(t)
      BY DEF TypeOK, Procs, Running
    <3>2. CASE EndEntry(s, "failed", reaped)
      BY <2>9, <3>1, <3>2
    <3>3. CASE ~EndEntry(s, "failed", reaped)
      <4>1. st' = reaped /\ UNCHANGED home
        BY <2>11, <3>3 DEF Reap, GraceReap
      <4>2. \A t \in Sessions : at'[t] = at[t] \/ at'[t] = "polling"
        BY <2>11, <3>3 DEF Reap, GraceReap, TypeOK
      <4> QED BY <2>0, <3>1, <4>1, <4>2 DEF home, Running
    <3> QED BY <3>2, <3>3
  <2>12. ASSUME NEW s \in Sessions,
                \/ StillAlive(s) \/ NoChild(s) \/ GraceOver(s) \/ GraceTimeout(s)
                \/ Interrupt(s) \/ SetupFails(s)
         PROVE  HomeInv'
    <3>1. \/ \E to \in {"waiting", "term", "kill", "failed"} : Goto(s, to)
          \/ \E how \in {"done", "dead"} : EndEntry(s, how, st)
      BY <2>12 DEF StillAlive, NoChild, GraceOver, GraceTimeout, Interrupt, SetupFails, Waits, TypeOK
    <3> QED BY <2>7, <2>9, <3>1 DEF EntryPc, Running
  <2>13. ASSUME NEW s \in Sessions, SendTerm(s) PROVE HomeInv'
    <3>1. \A t \in Sessions : at'[t] \in {"grace", "dead", at[t]}
      BY <2>13 DEF SendTerm, GotoAndKill
    <3> QED BY <2>8, <2>13, <3>1 DEF SendTerm, home, Running
  <2>14. ASSUME NEW s \in Sessions, SendKill(s) PROVE HomeInv'
    <3> DEFINE killed == [p \in Procs |-> IF st[p] = "none" THEN "none" ELSE "gone"]
    <3>1. CASE EndEntry(s, "failed", st)
      BY <2>9, <3>1 DEF Running
    <3>2. CASE ~EndEntry(s, "failed", st)
      <4>1. /\ GotoAndKill(s, "done") /\ Orphan(Others(s) \cup {s}, killed)
            /\ scripts' = {} /\ UNCHANGED <<marker, prepared, raced>>
        BY <2>14, <3>2 DEF SendKill
      <4>2. \A t \in Sessions : at'[t] \in {"done", "dead", at[t]}
        BY <4>1 DEF GotoAndKill
      <4>3. \A t \in Sessions : killed[t] # "running"
        BY DEF Procs
      <4> QED BY <2>8, <4>1, <4>2, <4>3
    <3> QED BY <3>1, <3>2
  <2> QED BY <2>1, <2>2, <2>3, <2>4, <2>5, <2>6, <2>10, <2>11, <2>12, <2>13, <2>14
          DEF Next, UserStep, EntryStep
<1> QED BY <1>1, <1>2, TypeCorrect, PTL DEF Spec

\* Before the first shell runs, a /prep-home.sh has returned to its entrypoint.
THEOREM HomeIsPrepared == Spec => []HomePrepared
<1>1. HomeInv => HomePrepared
  BY DEF HomeInv, MarkedPrepared, HomePrepared
<1> QED BY <1>1, HomeInvCorrect, PTL

\* No /prep-home.sh runs beside a shell unless two first entries overlapped.
THEOREM HomeSetUpOnce == Spec => []SetUpOnce
<1>1. HomeInv => SetUpOnce
  BY DEF HomeInv, MarkedPrepared, OneScript, SetUpOnce
<1> QED BY <1>1, HomeInvCorrect, PTL
=============================================================================
