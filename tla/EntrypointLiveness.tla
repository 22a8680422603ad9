-------------------------- MODULE EntrypointLiveness --------------------------
(***************************************************************************)
(* That an entrypoint ends, for any sessions and jobs.  As in              *)
(* LitterboxLiveness, a theorem assumes []EntrypointsRun, an invariant     *)
(* that TLC checks.                                                        *)
(***************************************************************************)
EXTENDS EntrypointProofs

\* What is alive below an entrypoint is its shell or of its session.
RootOwner == \A p \in Procs : \A s \in Sessions :
  Alive(p) /\ root[p] = Entry(s) => p = s \/ (p \in Jobs /\ owner[p] = s)

\* After its shell an entrypoint polls, or waits because it was asked to.
ShellReaped == \A s \in Sessions :
  at[s] \in {"spawned", "waiting"} /\ st[s] = "gone" => wait[s] = "foreground"

\* The options never change, and no process is undone: one that there was
\* there is, one that has ended does not run, and one that has gone is gone.
LEMMA NobodyReturns ==
  ASSUME Inv, [Next]_vars
  PROVE  /\ UNCHANGED wait
         /\ \A p \in Procs :
              /\ st[p] # "none" => st'[p] # "none" /\ (Running(p)' => Running(p))
              /\ st[p] = "gone" => st'[p] = "gone"
<1> DEFINE Keeps == \A p \in Procs :
              /\ st[p] # "none" => st'[p] # "none" /\ (Running(p)' => Running(p))
              /\ st[p] = "gone" => st'[p] = "gone"
<1> USE DEF Inv, Tree, TypeOK, Running
<1>1. UNCHANGED wait
  <2>1. ASSUME NEW ended, NEW states, Orphan(ended, states) PROVE UNCHANGED wait
    BY <2>1 DEF Orphan
  <2>2. ASSUME NEW p \in Procs, Exit(p) \/ \E j \in Jobs : StartJob(p, j) \/ WaitForJob(p, j)
        PROVE  UNCHANGED wait
    BY <2>2 DEF Exit, StartJob, WaitForJob
  <2>3. ASSUME NEW s \in Sessions, NEW p \in Procs, Reap(s, p) \/ GraceReap(s, p)
        PROVE  UNCHANGED wait
    BY <2>1, <2>3 DEF Reap, GraceReap, EndEntry
  <2>4. ASSUME NEW s \in Sessions,
               \/ Interrupt(s) \/ StillAlive(s) \/ NoChild(s) \/ SendTerm(s) \/ GraceOver(s)
               \/ SendKill(s)
        PROVE  UNCHANGED wait
    BY <2>1, <2>4 DEF Interrupt, StillAlive, NoChild, SendTerm, GraceOver, SendKill, EndEntry, Goto, Waits
  <2>5. ASSUME NEW s \in Sessions,
               \/ PrepareHome(s) \/ SetupFails(s) \/ ScriptEnds(s) \/ MarkHome(s) \/ Spawn(s)
               \/ SetSubreaper(s) \/ GraceTimeout(s)
        PROVE  UNCHANGED wait
    BY <2>5 DEF PrepareHome, SetupFails, ScriptEnds, MarkHome, Spawn, SetSubreaper, GraceTimeout, Goto
  <2> QED BY <2>2, <2>3, <2>4, <2>5 DEF vars, Next, UserStep, EntryStep
<1>2. CASE UNCHANGED vars
  BY <1>2 DEF vars, tree
<1>3. ASSUME NEW p \in Procs, Exit(p) PROVE Keeps
  BY <1>3 DEF Exit, ReapedByOne
<1>4. ASSUME NEW p \in Procs, NEW j \in Jobs, StartJob(p, j) \/ WaitForJob(p, j) PROVE Keeps
  BY <1>4 DEF StartJob, WaitForJob, Procs, Zombie
<1>5. ASSUME NEW ended, NEW states, Orphan(ended, states),
             \A p \in Procs : states[p] = st[p] \/ (st[p] # "none" /\ states[p] = "gone")
      PROVE  Keeps
  BY <1>5 DEF Orphan, ReapedByOne
<1>6. ASSUME NEW s \in Sessions, NEW p \in Procs, Reap(s, p) \/ GraceReap(s, p) PROVE Keeps
  <2>1. Zombie(p) /\ \A q \in Procs : [st EXCEPT ![p] = "gone"][q] = IF q = p THEN "gone" ELSE st[q]
    BY <1>6 DEF Reap, GraceReap
  <2>2. CASE st' = [st EXCEPT ![p] = "gone"]
    BY <2>1, <2>2 DEF Zombie
  <2>3. CASE EndEntry(s, "failed", [st EXCEPT ![p] = "gone"])
    BY <1>5, <2>1, <2>3 DEF EndEntry, Zombie
  <2> QED BY <1>6, <2>2, <2>3 DEF Reap, GraceReap
<1>7. ASSUME NEW s \in Sessions, SendKill(s) PROVE Keeps
  BY <1>5, <1>7 DEF SendKill, EndEntry
<1>8. ASSUME NEW s \in Sessions, Interrupt(s) \/ StillAlive(s) \/ NoChild(s) \/ SendTerm(s) \/ GraceOver(s)
      PROVE  Keeps
  <2>1. UNCHANGED st \/ \E ended : Orphan(ended, st)
    BY <1>8 DEF Interrupt, StillAlive, NoChild, SendTerm, GraceOver, EndEntry, Goto, tree, Waits
  <2> QED BY <1>5, <2>1
<1>9. ASSUME NEW s \in Sessions, Spawn(s) PROVE Keeps
  BY <1>9 DEF Spawn, ShellPlace, Early
<1>10. ASSUME NEW s \in Sessions,
              \/ PrepareHome(s) \/ SetupFails(s) \/ ScriptEnds(s) \/ MarkHome(s) \/ SetSubreaper(s)
              \/ GraceTimeout(s)
       PROVE  Keeps
  BY <1>10 DEF PrepareHome, SetupFails, ScriptEnds, MarkHome, SetSubreaper, GraceTimeout, Goto, tree
<1> QED
  BY <1>1, <1>2, <1>3, <1>4, <1>6, <1>7, <1>8, <1>9, <1>10 DEF Next, UserStep, EntryStep

LEMMA RootOwnerStep ==
  ASSUME Inv, RootOwner, [Next]_vars
  PROVE  RootOwner'
<1> USE DEF Inv, Tree, TypeOK
<1>0. \A p \in Procs : st[p] = "gone" => ~Alive(p)'
  BY NobodyReturns DEF Alive, Running, Zombie
<1>1. \A s, t \in Sessions : One # Entry(s) /\ (Entry(s) = Entry(t) => s = t)
  BY DistinctProcesses DEF Entry
<1>2. ASSUME UNCHANGED owner,
             \A p \in Procs : (st[p] = "none" => st'[p] = "none") /\ root'[p] \in {root[p], One}
      PROVE  RootOwner'
  BY <1>0, <1>1, <1>2 DEF RootOwner, Alive, Running, Zombie
<1>3. ASSUME NEW ended, NEW states, Orphan(ended, states),
             \A p \in Procs : st[p] = "none" => states[p] = "none"
      PROVE  RootOwner'
  BY <1>2, <1>3 DEF Orphan, ReapedByOne
<1>4. CASE UNCHANGED vars
  BY <1>2, <1>4 DEF vars, tree
<1>5. ASSUME NEW p \in Procs, Exit(p) PROVE RootOwner'
  <2>1. \A q \in Procs : Alive(q)' => Alive(q)
    BY <1>5 DEF Exit, Alive, Running, Zombie, ReapedByOne
  <2>2. \A q \in Procs : Alive(q) => root'[q] \in {root[q], One}
    BY <1>5 DEF Exit, Adopter, AboveRuns
  <2> QED BY <1>1, <1>5, <2>1, <2>2 DEF RootOwner, Exit
<1>6. ASSUME NEW p \in Procs, NEW j \in Jobs, StartJob(p, j) PROVE RootOwner'
  <2>1. /\ j \in Procs /\ j \notin Sessions /\ Alive(p)
        /\ root'[j] = root[p] /\ owner'[j] = IF p \in Jobs THEN owner[p] ELSE p
        /\ \A q \in Procs \ {j} : root'[q] = root[q] /\ st'[q] = st[q]
        /\ \A q \in Jobs \ {j} : owner'[q] = owner[q]
    BY <1>6, DistinctProcesses DEF StartJob, Procs, Alive
  <2>2. ASSUME NEW s \in Sessions, root[p] = Entry(s)
        PROVE  owner'[j] = s
    BY <1>6, <2>1, <2>2, DistinctProcesses DEF RootOwner
  <2>3. ASSUME NEW q \in Procs \ {j}, NEW s \in Sessions, Alive(q)', root'[q] = Entry(s)
        PROVE  q = s \/ (q \in Jobs /\ owner'[q] = s)
    BY <2>1, <2>3 DEF RootOwner, Alive, Running, Zombie
  <2> QED BY <2>1, <2>2, <2>3 DEF RootOwner
<1>7. ASSUME NEW p \in Procs, NEW j \in Jobs, WaitForJob(p, j) PROVE RootOwner'
  BY <1>2, <1>7 DEF WaitForJob, Zombie
<1>8. ASSUME NEW s \in Sessions, Spawn(s) PROVE RootOwner'
  <2>1. /\ s \in Procs /\ root'[s] = Entry(s)
        /\ \A q \in Procs \ {s} : root'[q] = root[q] /\ st'[q] = st[q]
        /\ UNCHANGED owner
    BY <1>8 DEF Spawn, Procs
  <2> QED BY <1>1, <2>1 DEF RootOwner, Alive, Running, Zombie
<1>9. ASSUME NEW s \in Sessions, NEW p \in Procs, Reap(s, p) \/ GraceReap(s, p) PROVE RootOwner'
  <2>1. \A q \in Procs : st[q] = "none" => [st EXCEPT ![p] = "gone"][q] = "none"
    BY <1>9 DEF Reap, GraceReap, Zombie
  <2> QED BY <1>2, <1>3, <1>9, <2>1 DEF Reap, GraceReap, EndEntry
<1>10. ASSUME NEW s \in Sessions,
              \/ Interrupt(s) \/ StillAlive(s) \/ NoChild(s) \/ SendTerm(s) \/ GraceOver(s)
       PROVE  RootOwner'
  <2>1. UNCHANGED tree \/ \E ended : Orphan(ended, st)
    BY <1>10 DEF Interrupt, StillAlive, NoChild, SendTerm, GraceOver, EndEntry, Goto, Waits
  <2> QED BY <1>2, <1>3, <2>1 DEF tree
<1>11. ASSUME NEW s \in Sessions, SendKill(s) PROVE RootOwner'
  BY <1>3, <1>11 DEF SendKill, EndEntry
<1>12. ASSUME NEW s \in Sessions,
              \/ PrepareHome(s) \/ SetupFails(s) \/ ScriptEnds(s) \/ MarkHome(s) \/ SetSubreaper(s)
              \/ GraceTimeout(s)
       PROVE  RootOwner'
  BY <1>2, <1>12 DEF PrepareHome, SetupFails, ScriptEnds, MarkHome, SetSubreaper, GraceTimeout, Goto, tree
<1> QED
  BY <1>4, <1>5, <1>6, <1>7, <1>8, <1>9, <1>10, <1>11, <1>12 DEF Next, UserStep, EntryStep

LEMMA ShellReapedStep ==
  ASSUME Inv, ShellReaped, [Next]_vars
  PROVE  ShellReaped'
<1> USE DEF Inv, Tree, TypeOK
<1> DEFINE Unreaped(t) == at'[t] = at[t] /\ (st'[t] = "gone" => st[t] = "gone")
           Elsewhere(t) == at'[t] \notin {"spawned", "waiting"} \/ (wait[t] = "foreground" /\ UNCHANGED wait)
<1>0. ASSUME \A t \in Sessions : Unreaped(t) \/ Elsewhere(t) PROVE ShellReaped'
  BY <1>0, NobodyReturns DEF ShellReaped
<1>1. \A s, t \in Sessions : One # Entry(s) /\ (Entry(s) = Entry(t) => s = t)
  BY DistinctProcesses DEF Entry
<1>2. \A t \in Sessions : t \in Procs /\ t \notin Jobs
  BY DistinctProcesses DEF Procs
\* What the kernel and others leave of the shell of a live entrypoint.
<1>3. \A t \in Sessions : at[t] \in {"spawned", "waiting"} =>
        Live(t) /\ (Alive(t) => root[t] = Entry(t) /\ above[t] = {})
  BY DEF ShellPlace, Live, Ended
<1>4. ASSUME NEW ended \in SUBSET Sessions, NEW states, Orphan(ended, states),
             \A t \in ended : at'[t] \in {"done", "failed", "dead"},
             \A t \in Sessions \ ended : at'[t] = at[t] \/ at'[t] \notin {"spawned", "waiting"},
             \A t \in Sessions \ ended : Live(t) => states[t] \in {st[t], "none"} \/ at'[t] # at[t]
      PROVE  ShellReaped'
  <2> SUFFICES ASSUME NEW t \in Sessions \ ended, at'[t] = at[t], at[t] \in {"spawned", "waiting"}
               PROVE  st'[t] = "gone" => st[t] = "gone"
    BY <1>0, <1>4
  <2>1. states[t] \in {st[t], "none"}
    BY <1>3, <1>4
  <2>2. Alive(t) => st'[t] = states[t]
    BY <1>1, <1>2, <1>3, <1>4 DEF Orphan
  <2> QED BY <1>2, <1>4, <2>1, <2>2 DEF Orphan, Alive, Running, Zombie, ReapedByOne
<1>5. CASE UNCHANGED vars
  BY <1>0, <1>5 DEF vars, tree
<1>6. ASSUME NEW p \in Procs, Exit(p) PROVE ShellReaped'
  <2> SUFFICES ASSUME NEW t \in Sessions, at[t] \in {"spawned", "waiting"}, st[t] # "gone"
               PROVE  st'[t] # "gone" /\ UNCHANGED at
    BY <1>0, <1>6 DEF Exit
  <2>1. UNCHANGED at
    BY <1>6 DEF Exit
  <2>2. Alive(t) => ~IsChild(t, p) /\ root[t] # One
    BY <1>1, <1>3 DEF IsChild
  <2> QED BY <1>2, <1>6, <2>1, <2>2 DEF Exit, ReapedByOne, Alive, Running, Zombie
<1>7. ASSUME NEW p \in Procs, NEW j \in Jobs, StartJob(p, j) \/ WaitForJob(p, j) PROVE ShellReaped'
  BY <1>0, <1>2, <1>7 DEF StartJob, WaitForJob
<1>8. ASSUME NEW s \in Sessions, Spawn(s) PROVE ShellReaped'
  <2>1. at'[s] = "spawned" /\ st'[s] = "running"
        /\ \A t \in Sessions \ {s} : at'[t] = at[t] /\ st'[t] = st[t]
    BY <1>2, <1>8 DEF Spawn
  <2> QED BY <1>8, <2>1 DEF ShellReaped, Spawn
<1>9. ASSUME NEW s \in Sessions, NEW how \in {"done", "failed", "dead"}, NEW states, EndEntry(s, how, states),
             \A t \in Sessions \ {s} : Live(t) => states[t] = st[t] \/ at[t] \notin {"spawned", "waiting"}
      PROVE  ShellReaped'
  <2>1. \A t \in Sessions : at'[t] = IF t = s THEN how ELSE at[t]
    BY <1>9 DEF EndEntry
  <2>2. {s} \in SUBSET Sessions /\ Orphan({s}, states)
    BY <1>9 DEF EndEntry
  <2> SUFFICES ASSUME NEW t \in Sessions \ {s}, at[t] \in {"spawned", "waiting"}
               PROVE  st'[t] = "gone" => st[t] = "gone"
    BY <1>0, <2>1
  <2>3. states[t] = st[t] /\ (Alive(t) => st'[t] = st[t])
    BY <1>1, <1>2, <1>3, <1>9, <2>2 DEF Orphan
  <2> QED BY <1>2, <2>2, <2>3 DEF Orphan, Alive, Running, Zombie, ReapedByOne
<1>10. ASSUME NEW s \in Sessions, NEW p \in Procs, Reap(s, p) \/ GraceReap(s, p) PROVE ShellReaped'
  <2>1. Zombie(p) /\ root[p] = Entry(s) /\ \A q \in Procs : [st EXCEPT ![p] = "gone"][q] = IF q = p THEN "gone" ELSE st[q]
    BY <1>10 DEF Reap, GraceReap, Children
  <2>2. \A t \in Sessions : at[t] \in {"spawned", "waiting"} /\ t = p => s = t
    BY <1>1, <1>3, <2>1 DEF Alive
  <2>3. CASE EndEntry(s, "failed", [st EXCEPT ![p] = "gone"])
    BY <1>2, <1>9, <2>1, <2>2, <2>3
  <2>4. CASE ~EndEntry(s, "failed", [st EXCEPT ![p] = "gone"])
    <3>1. /\ \A q \in Procs : st'[q] = IF q = p THEN "gone" ELSE st[q]
          /\ \A t \in Sessions : at'[t] = at[t] \/ at'[t] = "polling"
          /\ s = p => at'[s] \in {"polling", "grace", "kill"}
      BY <1>10, <2>1, <2>4 DEF Reap, GraceReap
    <3> QED BY <1>0, <1>2, <2>2, <3>1
  <2> QED BY <2>3, <2>4
<1>11. ASSUME NEW s \in Sessions, NEW to, Goto(s, to), to \in {"spawned", "waiting"} => wait[s] = "foreground"
       PROVE  ShellReaped'
  BY <1>0, <1>11 DEF Goto, tree
<1>12. ASSUME NEW s \in Sessions, SendTerm(s) \/ SendKill(s) PROVE ShellReaped'
  <2>1. CASE EndEntry(s, "failed", st)
    BY <1>9, <2>1
  <2>2. CASE SendTerm(s)
    BY <1>4, <2>2 DEF SendTerm, GotoAndKill, Others
  <2>3. CASE SendKill(s) /\ ~EndEntry(s, "failed", st)
    <3> DEFINE killed == [p \in Procs |-> IF st[p] = "none" THEN "none" ELSE "gone"]
    <3>1. GotoAndKill(s, "done") /\ Orphan(Others(s) \cup {s}, killed)
      BY <2>3 DEF SendKill
    <3>2. \A t \in Sessions : at'[t] = IF t = s THEN "done" ELSE IF t \in Others(s) THEN "dead" ELSE at[t]
      BY <3>1 DEF GotoAndKill
    <3>3. \A t \in Sessions : Live(t) => t \in Others(s) \cup {s}
      BY DEF Others
    <3>4. Others(s) \cup {s} \in SUBSET Sessions
      BY DEF Others
    <3> QED BY <1>4, <3>1, <3>2, <3>3, <3>4
  <2> QED BY <1>12, <2>1, <2>2, <2>3
<1>13. ASSUME NEW s \in Sessions, Interrupt(s) \/ StillAlive(s) \/ NoChild(s) \/ GraceOver(s) PROVE ShellReaped'
  <2>1. \/ \E how \in {"done", "failed", "dead"} : EndEntry(s, how, st)
        \/ Goto(s, "waiting") /\ wait[s] = "foreground"
        \/ Goto(s, "term")
    BY <1>13 DEF Interrupt, StillAlive, NoChild, GraceOver, Waits
  <2> QED BY <1>9, <1>11, <2>1
<1>14. ASSUME NEW s \in Sessions, SetSubreaper(s) PROVE ShellReaped'
  BY <1>14 DEF SetSubreaper, ShellReaped
<1>15. ASSUME NEW s \in Sessions,
              PrepareHome(s) \/ SetupFails(s) \/ ScriptEnds(s) \/ MarkHome(s) \/ GraceTimeout(s)
       PROVE  ShellReaped'
  BY <1>0, <1>15 DEF PrepareHome, SetupFails, ScriptEnds, MarkHome, GraceTimeout, Goto, tree
<1> QED
  BY <1>5, <1>6, <1>7, <1>8, <1>10, <1>12, <1>13, <1>14, <1>15 DEF Next, UserStep, EntryStep

RunInv == Inv /\ RootOwner /\ ShellReaped

LEMMA RunInvariant == Spec => []RunInv
<1>1. Init => RootOwner /\ ShellReaped
  BY DEF Init, RootOwner, ShellReaped, Alive, Running, Zombie
<1>2. Inv /\ RootOwner /\ ShellReaped /\ [Next]_vars => RootOwner' /\ ShellReaped'
  BY RootOwnerStep, ShellReapedStep
<1> QED BY <1>1, <1>2, InvCorrect, PTL DEF Spec, RunInv

-----------------------------------------------------------------------------

\* Its shell, or all that its session started, has ended: the entrypoint has
\* to end, with this many steps to go, at most, as long as it reaps nobody.
Due(s) == AfterShell(s) \/ AfterLast(s)

EntryTogo(s) == CASE at[s] = "spawned" -> 6
                  [] at[s] = "waiting" -> 5
                  [] at[s] = "polling" -> 4
                  [] at[s] = "term"    -> 3
                  [] at[s] = "grace"   -> 2
                  [] at[s] = "kill"    -> 1
                  [] OTHER             -> 0

Reaped == {p \in Procs : st[p] = "gone"}

\* A job is running in the session of the process that started it.
LEMMA JobsStart ==
  ASSUME Inv, [Next]_vars, ~ \E p \in Procs, j \in Jobs : StartJob(p, j)
  PROVE  UNCHANGED owner /\ \A j \in Jobs : Running(j)' => Running(j)
<1> USE DEF Inv, Tree, TypeOK
<1> SUFFICES UNCHANGED owner /\ \A j \in Jobs : st[j] = "none" => st'[j] = "none"
  BY NobodyReturns DEF Procs, Running
<1> DEFINE Keeps == UNCHANGED owner /\ \A j \in Jobs : st[j] = "none" => st'[j] = "none"
<1>1. ASSUME NEW ended, NEW states, Orphan(ended, states), \A j \in Jobs : st[j] = "none" => states[j] = "none"
      PROVE  Keeps
  BY <1>1 DEF Orphan, ReapedByOne, Procs
<1>2. CASE UNCHANGED vars
  BY <1>2 DEF vars, tree
<1>3. ASSUME NEW p \in Procs, Exit(p) \/ \E j \in Jobs : WaitForJob(p, j) PROVE Keeps
  BY <1>3 DEF Exit, ReapedByOne, WaitForJob, Procs, Running, Zombie
<1>4. ASSUME NEW s \in Sessions, NEW p \in Procs, Reap(s, p) \/ GraceReap(s, p) PROVE Keeps
  <2>1. \A j \in Jobs : st[j] = "none" => [st EXCEPT ![p] = "gone"][j] = "none"
    BY <1>4 DEF Reap, GraceReap, Zombie
  <2> QED BY <1>1, <1>4, <2>1 DEF Reap, GraceReap, EndEntry
<1>5. ASSUME NEW s \in Sessions,
             \/ Interrupt(s) \/ StillAlive(s) \/ NoChild(s) \/ SendTerm(s) \/ GraceOver(s)
      PROVE  Keeps
  <2>1. UNCHANGED tree \/ \E ended : Orphan(ended, st)
    BY <1>5 DEF Interrupt, StillAlive, NoChild, SendTerm, GraceOver, EndEntry, Goto, Waits
  <2> QED BY <1>1, <2>1 DEF tree
<1>6. ASSUME NEW s \in Sessions, SendKill(s) PROVE Keeps
  BY <1>1, <1>6 DEF SendKill, EndEntry, Procs
<1>7. ASSUME NEW s \in Sessions, Spawn(s) PROVE Keeps
  BY <1>7, DistinctProcesses DEF Spawn, Procs
<1>8. ASSUME NEW s \in Sessions,
             \/ PrepareHome(s) \/ SetupFails(s) \/ ScriptEnds(s) \/ MarkHome(s) \/ SetSubreaper(s)
             \/ GraceTimeout(s)
      PROVE  Keeps
  BY <1>8 DEF PrepareHome, SetupFails, ScriptEnds, MarkHome, SetSubreaper, GraceTimeout, Goto, tree
<1> QED
  BY <1>2, <1>3, <1>4, <1>5, <1>6, <1>7, <1>8 DEF Next, UserStep, EntryStep

LEMMA DueStays ==
  ASSUME Inv, [Next]_vars, NEW s \in Sessions, Due(s)
  PROVE  Due(s)' /\ Reaped \subseteq Reaped'
<1>1. Reaped \subseteq Reaped'
  BY NobodyReturns DEF Reaped
<1>2. s \in Procs /\ s \notin Jobs
  BY DistinctProcesses DEF Procs
<1>3. AfterShell(s) => AfterShell(s)'
  BY <1>2, NobodyReturns DEF AfterShell
<1>4. AfterLast(s) => AfterLast(s)'
  <2> SUFFICES ASSUME AfterLast(s), NEW j \in Background(s)' PROVE FALSE
    BY <1>2, NobodyReturns DEF AfterLast
  <2>1. CASE ~ \E p \in Procs, i \in Jobs : StartJob(p, i)
    BY <2>1, JobsStart DEF AfterLast, Background
  <2>2. ASSUME NEW p \in Procs, NEW i \in Jobs, StartJob(p, i) PROVE FALSE
    <3>1. /\ \A q \in Jobs \ {i} : owner'[q] = owner[q] /\ st'[q] = st[q]
          /\ owner'[i] = IF p \in Jobs THEN owner[p] ELSE p
          /\ Running(p)
      BY <2>2 DEF StartJob, Inv, Tree, TypeOK, Procs
    <3> QED BY <1>2, <3>1 DEF AfterLast, Background, Running
  <2> QED BY <2>1, <2>2
<1> QED BY <1>1, <1>3, <1>4 DEF Due

\* An entrypoint that has to end is not waiting for anybody.
LEMMA DueRuns ==
  ASSUME RunInv, NEW s \in Sessions, Due(s), ~Ended(s)
  PROVE  /\ Live(s) /\ ~Blocked(s)
         /\ EntryTogo(s) \in 1..6
         /\ AfterLast(s) => \A p \in Children(s) : ~Running(p)
         /\ at[s] \in {"spawned", "waiting"} => AfterLast(s)
<1> USE DEF RunInv, Inv, Tree, TypeOK
<1>1. at[s] \in EntryPc /\ at[s] \notin Early
  BY DEF ShellPlace, Due, AfterShell, AfterLast
<1>2. at[s] \in {"spawned", "waiting", "polling", "term", "grace", "kill"}
  BY <1>1 DEF EntryPc, Early, Ended
<1>3. AfterLast(s) => \A p \in Children(s) : ~Running(p)
  BY DEF AfterLast, Children, RootOwner, Alive, Background
<1>4. at[s] \in {"spawned", "waiting"} => AfterLast(s)
  BY DEF ShellReaped, Due, AfterShell
<1> QED BY <1>2, <1>3, <1>4 DEF Live, Blocked, EntryTogo

\* A step of such an entrypoint reaps somebody or brings it nearer to its end;
\* the others' steps do not take it back.
LEMMA DueAdvances ==
  ASSUME RunInv, [Next]_vars, NEW s \in Sessions, Due(s), ~Ended(s), ~Ended(s)'
  PROVE  /\ EntryTogo(s)' <= EntryTogo(s)
         /\ EntryStep(s) => EntryTogo(s)' < EntryTogo(s) \/ Reaped' # Reaped
<1> USE DEF RunInv, Inv, Tree, TypeOK
<1>0. /\ at[s] \in {"spawned", "waiting", "polling", "term", "grace", "kill"}
      /\ AfterLast(s) => \A p \in Children(s) : ~Running(p)
      /\ at[s] \in {"spawned", "waiting"} => AfterLast(s)
  BY DueRuns DEF EntryTogo
<1>1. CASE EntryStep(s)
  <2>1. \A how \in {"done", "failed", "dead"} : \A states : ~EndEntry(s, how, states)
    BY DEF EndEntry, Ended
  <2>2. ASSUME NEW p \in Procs, Reap(s, p) \/ GraceReap(s, p)
        PROVE  Reaped' # Reaped /\ EntryTogo(s)' <= EntryTogo(s)
    <3>1. Reaped' # Reaped
      BY <2>1, <2>2 DEF Reap, GraceReap, Reaped, Zombie
    <3>2. at'[s] = at[s] \/ (at[s] = "waiting" /\ at'[s] = "polling")
      BY <2>1, <2>2 DEF Reap, GraceReap
    <3> QED BY <3>1, <3>2 DEF EntryTogo
  <2>3. ~MarkHome(s) /\ ~Spawn(s) /\ ~NoChild(s) /\ ~GraceOver(s)
    BY <1>0, <2>1 DEF MarkHome, Spawn, NoChild, GraceOver
  <2>4. CASE SetSubreaper(s)
    BY <2>4 DEF SetSubreaper, EntryTogo
  <2>5. CASE StillAlive(s)
    <3>1. wait[s] # "foreground"
      BY <1>0, <2>5 DEF StillAlive, Due, AfterShell
    <3>2. at[s] = "polling" /\ Goto(s, "term")
      BY <2>1, <2>5, <3>1 DEF StillAlive, Waits
    <3> QED BY <3>2 DEF Goto, EntryTogo
  <2>6. CASE SendTerm(s)
    BY <2>6 DEF SendTerm, GotoAndKill, EntryTogo
  <2>7. CASE GraceTimeout(s)
    BY <2>7 DEF GraceTimeout, Goto, EntryTogo
  <2>8. ~SendKill(s)
    BY <2>1 DEF SendKill, GotoAndKill, Ended
  <2> QED BY <1>1, <2>2, <2>3, <2>4, <2>5, <2>6, <2>7, <2>8 DEF EntryStep
<1>2. CASE ~EntryStep(s)
  <2> SUFFICES at'[s] = at[s]
    <3>1. at'[s] = at[s] => EntryTogo(s)' = EntryTogo(s)
      BY DEF EntryTogo
    <3>2. EntryTogo(s) \in 0..6
      BY DEF EntryTogo
    <3> QED BY <1>2, <3>1, <3>2
  <2>1. ASSUME NEW e \in Sessions, e # s, EntryStep(e) PROVE at'[s] = at[s]
    <3>1. CASE SendTerm(e) \/ (SendKill(e) /\ GotoAndKill(e, "done"))
      BY <1>0, <2>1, <3>1 DEF SendTerm, GotoAndKill, Others, Live, Ended
    <3>2. CASE ~SendTerm(e) /\ ~(SendKill(e) /\ GotoAndKill(e, "done"))
      BY <2>1, <3>2 DEF EntryStep, MarkHome, Spawn, SetSubreaper, Reap, GraceReap, StillAlive,
         NoChild, GraceOver, GraceTimeout, SendKill, EndEntry, Goto, Waits
    <3> QED BY <3>1, <3>2
  <2>2. ASSUME NEW p \in Procs, Exit(p) \/ \E j \in Jobs : StartJob(p, j) \/ WaitForJob(p, j) PROVE at'[s] = at[s]
    BY <2>2 DEF Exit, StartJob, WaitForJob
  <2>3. ASSUME NEW e \in Sessions, ScriptEnds(e) \/ Interrupt(e) \/ PrepareHome(e) \/ SetupFails(e) PROVE at'[s] = at[s]
    BY <1>0, <2>3 DEF ScriptEnds, Interrupt, PrepareHome, SetupFails, EndEntry, Goto, Ended, Early
  <2> QED BY <1>2, <2>1, <2>2, <2>3 DEF Next, UserStep, vars
<1> QED BY <1>1, <1>2

LEMMA EndedStays ==
  ASSUME Inv, [Next]_vars, NEW s \in Sessions, Ended(s)
  PROVE  Ended(s)'
<1> USE DEF Inv, Tree, TypeOK, Ended
<1>1. ASSUME NEW e \in Sessions, NEW how \in {"done", "failed", "dead"}, NEW states, EndEntry(e, how, states)
      PROVE  Ended(s)'
  BY <1>1 DEF EndEntry
<1>2. ASSUME NEW e \in Sessions, NEW to, Goto(e, to), ~Ended(e) PROVE Ended(s)'
  BY <1>2 DEF Goto
<1>3. ASSUME NEW e \in Sessions, NEW p \in Procs, Reap(e, p) \/ GraceReap(e, p) PROVE Ended(s)'
  <2>1. CASE \E states : EndEntry(e, "failed", states)
    BY <1>1, <2>1
  <2>2. CASE ~ \E states : EndEntry(e, "failed", states)
    BY <1>3, <2>2 DEF Reap, GraceReap
  <2> QED BY <2>1, <2>2
<1>4. ASSUME NEW e \in Sessions,
             SetupFails(e) \/ StillAlive(e) \/ NoChild(e) \/ GraceOver(e) \/ GraceTimeout(e) \/ Interrupt(e)
      PROVE  Ended(s)'
  <2>1. \/ \E to : Goto(e, to) /\ ~Ended(e)
        \/ \E how \in {"done", "failed", "dead"} : EndEntry(e, how, st)
    BY <1>4 DEF SetupFails, StillAlive, NoChild, GraceOver, GraceTimeout, Interrupt, Waits, Early
  <2> QED BY <1>1, <1>2, <2>1
<1>5. ASSUME NEW e \in Sessions, SendTerm(e) \/ SendKill(e) PROVE Ended(s)'
  BY <1>1, <1>5 DEF SendTerm, SendKill, GotoAndKill, Others, Live
<1>6. ASSUME NEW e \in Sessions,
             PrepareHome(e) \/ ScriptEnds(e) \/ MarkHome(e) \/ Spawn(e) \/ SetSubreaper(e)
      PROVE  Ended(s)'
  BY <1>6 DEF PrepareHome, ScriptEnds, MarkHome, Spawn, SetSubreaper
<1>7. ASSUME NEW p \in Procs, Exit(p) \/ \E j \in Jobs : StartJob(p, j) \/ WaitForJob(p, j) PROVE Ended(s)'
  BY <1>7 DEF Exit, StartJob, WaitForJob
<1> QED BY <1>3, <1>4, <1>5, <1>6, <1>7 DEF Next, UserStep, EntryStep, vars

\* `n` steps to go become `m`.
Awaits(s, n)       == Due(s) /\ (Ended(s) \/ EntryTogo(s) <= n)
EntryNears(s, n, m) == Awaits(s, n) ~> Awaits(s, m)

\* Some time the last process is reaped that ever is.  NobodyReturns: nobody
\* is reaped twice, so every behaviour with finitely many processes does this.
FinitelyReaped == <>[][UNCHANGED Reaped]_vars

EntrypointEnds(s) == Due(s) ~> Ended(s)

LEMMA DueEnds ==
  ASSUME NEW s \in Sessions
  PROVE  FairSpec /\ []EntrypointsRun /\ FinitelyReaped => EntrypointEnds(s)
<1>1. FairSpec => Spec /\ EntryScheduled(s)
  BY DEF FairSpec
<1>2. EntryTogo(s) \in 0..6 /\ EntryTogo(s)' \in 0..6
  BY DEF EntryTogo
<1>3. RunInv /\ [Next]_vars /\ Ended(s) => Ended(s)'
  BY EndedStays DEF RunInv
<1>4. RunInv /\ [Next]_vars /\ Due(s) =>
        /\ Due(s)'
        /\ ~Ended(s)' =>
             /\ ~Ended(s) /\ EntryTogo(s)' <= EntryTogo(s)
             /\ EntryStep(s) /\ UNCHANGED Reaped => EntryTogo(s)' < EntryTogo(s)
  BY <1>3, DueStays, DueAdvances DEF RunInv
<1>5. ASSUME NEW n \in 1..6, NEW m \in 0..5, n = m + 1
      PROVE  FairSpec /\ []EntrypointsRun /\ FinitelyReaped => EntryNears(s, n, m)
  <2>1. RunInv /\ [Next]_vars /\ Awaits(s, n) => Awaits(s, n)'
    BY <1>2, <1>4, <1>5 DEF Awaits
  <2>2. RunInv /\ [Next]_vars /\ EntryStep(s) /\ UNCHANGED Reaped /\ Awaits(s, n) => Awaits(s, m)'
    BY <1>2, <1>4, <1>5 DEF Awaits
  <2>3. RunInv /\ EntrypointsRun /\ Awaits(s, n) => Awaits(s, m) \/ EntryCanRun(s)
    BY DueRuns DEF Awaits, EntrypointsRun
  <2> QED
    BY <1>1, <2>1, <2>2, <2>3, RunInvariant, PTL
       DEF EntryNears, EntryScheduled, EntryCanRun, FinitelyReaped, Spec
<1>6. FairSpec /\ []EntrypointsRun /\ FinitelyReaped =>
        /\ EntryNears(s, 6, 5) /\ EntryNears(s, 5, 4) /\ EntryNears(s, 4, 3)
        /\ EntryNears(s, 3, 2) /\ EntryNears(s, 2, 1) /\ EntryNears(s, 1, 0)
  BY <1>5
<1>7. Due(s) => Awaits(s, 6)
  BY <1>2 DEF Awaits
<1>8. RunInv /\ Awaits(s, 0) => Ended(s)
  BY <1>2, DueRuns DEF Awaits
<1> QED
  BY <1>1, <1>6, <1>7, <1>8, RunInvariant, PTL DEF EntryNears, EntrypointEnds, Spec

\* EndsAfterShell, in every fair behaviour in which an entrypoint that waits
\* for nobody can run.
THEOREM EntrypointsEndAfterShell == FairSpec /\ []EntrypointsRun /\ FinitelyReaped => EndsAfterShell
<1>1. ASSUME NEW s \in Sessions
      PROVE  FairSpec /\ []EntrypointsRun /\ FinitelyReaped => (AfterShell(s) ~> Ended(s))
  <2>1. AfterShell(s) => Due(s)
    BY DEF Due
  <2> QED BY <2>1, DueEnds, PTL DEF EntrypointEnds
<1> QED BY <1>1 DEF EndsAfterShell

\* EndsWithLastProcess, in every such behaviour.
THEOREM EntrypointsEndWithLast == FairSpec /\ []EntrypointsRun /\ FinitelyReaped => EndsWithLastProcess
<1>1. ASSUME NEW s \in Sessions
      PROVE  FairSpec /\ []EntrypointsRun /\ FinitelyReaped => (AfterLast(s) ~> Ended(s))
  <2>1. AfterLast(s) => Due(s)
    BY DEF Due
  <2> QED BY <2>1, DueEnds, PTL DEF EntrypointEnds
<1> QED BY <1>1 DEF EndsWithLastProcess
=============================================================================
