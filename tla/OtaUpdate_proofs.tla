-------------------------- MODULE OtaUpdate_proofs --------------------------
(***************************************************************************)
(* Proofs about OtaUpdate and the order of versions, for every set of      *)
(* releases of three numbers, every number of updates at once and every    *)
(* bound.                                                                  *)
(***************************************************************************)
EXTENDS OtaUpdate, SequenceTheorems, TLAPS

Triples == [1..3 -> Nat]

\* The steps of an update that has noted its check, and of one that has
\* replaced the shell.
Busy     == {"entered", "shell", "agent", "note", "noting"}
Replaced == {"agent", "note", "noting"}

\* What is true of an update in each of its steps.
JobInv(q) ==
    /\ q.at \in Busy \ {"entered"} =>
          ~Newer(q.target, latest) /\ ~Newer(noted, q.target)
    /\ q.at \in Replaced => shellBin = q.target

\* While updates have not overlapped: at most one is busy, and the notes, the
\* shell and the latest release are in this order.
Inv ==
    ~overlapped =>
       /\ shellBin \in Releases /\ agentBin \in Releases
       /\ ~Newer(noted, shellBin) /\ ~Newer(shellBin, latest)
       /\ \A j \in Jobs : JobInv(job[j])
       /\ \A j, k \in Jobs : job[j].at \in Busy /\ job[k].at \in Busy => j = k

-----------------------------------------------------------------------------
\* The numbers of a version of three are read as they are.
LEMMA NumberOfTriple ==
  ASSUME NEW v \in Triples, NEW i \in 1..3
  PROVE  Number(v, i) = v[i] /\ v[i] \in Nat
<1>1. v \in Seq(Nat) /\ Len(v) = 3
  <2>1. v \in Seq(Nat)
    BY SeqDef, 3 \in Nat DEF Triples
  <2>2. 1..Len(v) = 1..3 /\ Len(v) \in Nat
    BY <2>1, LenProperties DEF Triples
  <2>3. 3 \in 1..3 /\ 4 \notin 1..3
    OBVIOUS
  <2>4. 3 \in 1..Len(v) /\ 4 \notin 1..Len(v)
    BY <2>2, <2>3
  <2>5. \A n \in Nat : 3 \in 1..n /\ 4 \notin 1..n => n = 3
    OBVIOUS
  <2>6. QED
    BY <2>1, <2>2, <2>4, <2>5
<1>2. QED
  BY <1>1 DEF Number, Triples

\* Newer, written out.
LEMMA NewerOfTriples ==
  ASSUME NEW v \in Triples, NEW w \in Triples
  PROVE  Newer(v, w) <=> \/ v[1] > w[1]
                         \/ v[1] = w[1] /\ v[2] > w[2]
                         \/ v[1] = w[1] /\ v[2] = w[2] /\ v[3] > w[3]
<1>1. \A i \in 1..3 : Number(v, i) = v[i] /\ Number(w, i) = w[i]
  BY NumberOfTriple
<1>2. 1..3 = {1, 2, 3} /\ 1..(1-1) = {} /\ 1..(2-1) = {1} /\ 1..(3-1) = {1, 2}
  OBVIOUS
<1>3. QED
  BY <1>1, <1>2 DEF Newer

\* versionLess orders the versions of three numbers: no two are each less than
\* the other, of two different ones one is less, and it is transitive.  (It
\* does not order texts that differ and have the same numbers.)
THEOREM VersionsAreOrdered ==
  ASSUME NEW u \in Triples, NEW v \in Triples, NEW w \in Triples
  PROVE  /\ ~(versionLess(u, v) /\ versionLess(v, u))
         /\ u = v \/ versionLess(u, v) \/ versionLess(v, u)
         /\ versionLess(u, v) /\ versionLess(v, w) => versionLess(u, w)
<1>1. u = v <=> u[1] = v[1] /\ u[2] = v[2] /\ u[3] = v[3]
  BY DEF Triples
<1>2. v = w <=> v[1] = w[1] /\ v[2] = w[2] /\ v[3] = w[3]
  BY DEF Triples
<1>3. u = w <=> u[1] = w[1] /\ u[2] = w[2] /\ u[3] = w[3]
  BY DEF Triples
<1>4. \A i \in 1..3 : u[i] \in Nat /\ v[i] \in Nat /\ w[i] \in Nat
  BY DEF Triples
<1>5. QED
  BY <1>1, <1>2, <1>3, <1>4, NewerOfTriples DEF versionLess

\* Not to be newer is transitive, and to be newer is asymmetric.
LEMMA NewerFacts ==
  ASSUME NEW u \in Triples, NEW v \in Triples, NEW w \in Triples
  PROVE  /\ ~Newer(u, v) /\ ~Newer(v, w) => ~Newer(u, w)
         /\ Newer(u, v) => ~Newer(v, u)
         /\ ~Newer(u, u)
<1>1. \A i \in 1..3 : u[i] \in Nat /\ v[i] \in Nat /\ w[i] \in Nat
  BY DEF Triples
<1>2. QED
  BY <1>1, NewerOfTriples

\* What the assumptions say of releases.
LEMMA ReleaseFacts ==
  /\ Releases \subseteq Triples /\ First \in Releases
  /\ Torn \notin Releases /\ None \notin Releases
  /\ \A r \in Releases : ~Newer(First, r)
BY OtaAssumption DEF Triples

-----------------------------------------------------------------------------
\* Every state of the specification has its types: binaries and notes are
\* releases, torn or missing, and the wait of the loop is one of six.
THEOREM TypeCorrect == Spec => []TypeOK
<1>1. Init => TypeOK
  <2> SUFFICES ASSUME Init PROVE TypeOK
    OBVIOUS
  <2>1. NoJob \in JobStates
    BY ReleaseFacts DEF NoJob, JobStates, Steps
  <2>2. job \in [Jobs -> JobStates]
    BY <2>1 DEF Init
  <2>3. clicks \in Nat /\ faults \in Nat
    BY OtaAssumption DEF Init
  <2>4. QED
    BY <2>2, <2>3, ReleaseFacts DEF Init, TypeOK, Backoffs
<1>2. TypeOK /\ [Next]_vars => TypeOK'
  <2> SUFFICES ASSUME TypeOK, [Next]_vars PROVE TypeOK'
    OBVIOUS
  <2> USE ReleaseFacts
  <2>a. NoJob \in JobStates
    BY DEF NoJob, JobStates, Steps
  <2>b. \A j \in Jobs : job[j] \in JobStates
    BY DEF TypeOK
  <2>c. \A j \in Jobs, s \in Steps : [job[j] EXCEPT !.at = s] \in JobStates
    BY <2>b DEF JobStates
  <2>d. ASSUME NEW j \in Jobs, NEW from, NEW to \in Steps, Step(j, from, to)
        PROVE  job' \in [Jobs -> JobStates]
    <3>1. job' = [job EXCEPT ![j] = [job[j] EXCEPT !.at = to]]
      BY <2>d DEF Step, TypeOK
    <3>2. QED
      BY <3>1, <2>c DEF TypeOK
  <2>1. ASSUME NEW j \in Jobs, NEW c \in BOOLEAN, Start(j, c)
        PROVE  job' \in [Jobs -> JobStates]
    <3>1. [NoJob EXCEPT !.at = "asked", !.command = c, !.auto = c \/ auto]
             \in JobStates
      BY <2>a DEF JobStates, Steps
    <3>2. QED
      BY <2>1, <3>1 DEF Start, TypeOK
  <2>2. ASSUME NEW j \in Jobs, TickDone(j) PROVE TypeOK'
    BY <2>2, <2>1 DEF TypeOK, TickDone, Start, Regular, binary, wishes, Backoffs
  <2>3. ASSUME NEW j \in Jobs, CommandCheck(j) PROVE TypeOK'
    <3>1. job' \in [Jobs -> JobStates]
      BY <2>3, <2>1 DEF CommandCheck
    <3>2. clicks' \in Nat /\ faults' \in Nat
      BY <2>3 DEF CommandCheck, Click, TypeOK
    <3>3. QED
      BY <2>3, <3>1, <3>2 DEF TypeOK, CommandCheck, Start, binary, wishes, Backoffs
  <2>4. ASSUME NEW j \in Jobs, Gate(j) PROVE TypeOK'
    <3>1. [job[j] EXCEPT !.at = "passed", !.forced = forced] \in JobStates
      BY <2>b DEF TypeOK, JobStates, Steps
    <3>2. job' \in [Jobs -> JobStates]
      BY <2>4, <2>a, <3>1 DEF TypeOK, Gate
    <3>3. QED
      BY <2>4, <3>2 DEF TypeOK, Gate, Regular, binary, wishes, loop
  <2>5. ASSUME NEW j \in Jobs, Enter(j) PROVE TypeOK'
    <3>1. job' \in [Jobs -> JobStates]
      BY <2>5, <2>d DEF Enter, Steps
    <3>2. forced' \in BOOLEAN /\ overlapped' \in BOOLEAN
      BY <2>5, <2>b DEF TypeOK, Enter, JobStates
    <3>3. QED
      BY <2>5, <3>1, <3>2 DEF TypeOK, Enter, Regular, binary, wishes, loop
  <2>6. ASSUME NEW j \in Jobs, Check(j) PROVE TypeOK'
    <3>1. [job[j] EXCEPT !.at = "shell", !.target = latest] \in JobStates
      BY <2>b DEF TypeOK, JobStates, Steps
    <3>2. job' \in [Jobs -> JobStates]
      BY <2>6, <2>a, <3>1 DEF TypeOK, Check
    <3>3. QED
      BY <2>6, <3>2 DEF TypeOK, Check, Regular, binary, wishes, loop
  <2>7. ASSUME NEW j \in Jobs PROVE Downloaded(j) \subseteq Releases \cup {Torn}
    BY <2>b DEF Downloaded, JobStates
  <2>8. ASSUME NEW j \in Jobs, InstallShell(j) PROVE TypeOK'
    <3>1. job' \in [Jobs -> JobStates]
      BY <2>8, <2>d DEF InstallShell, Steps
    <3>2. QED
      BY <2>8, <2>7, <3>1 DEF TypeOK, InstallShell, Regular, wishes, loop
  <2>9. ASSUME NEW j \in Jobs, InstallAgent(j) PROVE TypeOK'
    <3>1. job' \in [Jobs -> JobStates]
      BY <2>9, <2>d DEF InstallAgent, Steps
    <3>2. QED
      BY <2>9, <2>7, <3>1 DEF TypeOK, InstallAgent, Regular, wishes, loop
  <2>10. ASSUME NEW j \in Jobs, NoteTruncates(j) PROVE TypeOK'
    <3>1. job' \in [Jobs -> JobStates]
      BY <2>10, <2>d DEF NoteTruncates, Steps
    <3>2. QED
      BY <2>10, <3>1 DEF TypeOK, NoteTruncates, Regular, binary, wishes, loop
  <2>11. ASSUME NEW j \in Jobs, Note(j) PROVE TypeOK'
    <3>1. noted' \in Releases
      BY <2>11, <2>b DEF Note, JobStates
    <3>2. QED
      BY <2>11, <2>a, <3>1 DEF TypeOK, Note, Regular, binary, wishes, loop
  <2>12. ASSUME NEW j \in Jobs, UpdateFails(j) PROVE TypeOK'
    BY <2>12, <2>a DEF TypeOK, UpdateFails, Fault, binary, wishes, loop
  <2>13. ASSUME TickIdle PROVE TypeOK'
    BY <2>13 DEF TypeOK, TickIdle, Regular, binary, wishes, ota, Backoffs
  <2>14. ASSUME TickFails PROVE TypeOK'
    BY <2>14 DEF TypeOK, TickFails, Fault, Regular, binary, wishes, ota, Backoffs
  <2>15. ASSUME TokenExpires PROVE TypeOK'
    BY <2>15 DEF TypeOK, TokenExpires, Click, binary, wishes, ota
  <2>16. ASSUME NewProcess, faults' \in Nat, clicks' \in Nat PROVE TypeOK'
    BY <2>16, <2>a DEF TypeOK, NewProcess, wishes, Backoffs
  <2>17. ASSUME RestartAgent PROVE TypeOK'
    BY <2>17, <2>16 DEF TypeOK, RestartAgent, Regular
  <2>18. ASSUME Crash PROVE TypeOK'
    BY <2>18, <2>16 DEF TypeOK, Crash, Fault
  <2>19. ASSUME DueAgain PROVE TypeOK'
    BY <2>19 DEF TypeOK, DueAgain, Regular, binary, wishes, loop
  <2>20. ASSUME ForceCheck PROVE TypeOK'
    BY <2>20 DEF TypeOK, ForceCheck, Click, binary, wishes, loop
  <2>21. ASSUME Wish PROVE TypeOK'
    BY <2>21 DEF TypeOK, Wish, Click, binary, ota, loop
  <2>22. ASSUME Publish PROVE TypeOK'
    BY <2>22 DEF TypeOK, Publish, Click, binary, wishes, ota, loop
  <2>23. ASSUME UNCHANGED vars PROVE TypeOK'
    BY <2>23 DEF TypeOK, vars, binary, wishes, ota, loop
  <2>24. QED
    BY <2>2, <2>3, <2>4, <2>5, <2>6, <2>8, <2>9, <2>10, <2>11, <2>12, <2>13, <2>14,
       <2>15, <2>17, <2>18, <2>19, <2>20, <2>21, <2>22, <2>23 DEF Next, Work
<1>3. QED
  BY <1>1, <1>2, PTL DEF Spec

-----------------------------------------------------------------------------
\* The invariant holds at the start.
LEMMA InvInitially == Init => Inv
<1> SUFFICES ASSUME Init PROVE Inv
  OBVIOUS
<1>1. \A j \in Jobs : job[j].at = "idle"
  BY DEF Init, NoJob
<1>2. QED
  BY <1>1, ReleaseFacts DEF Init, Inv, JobInv, Busy, Replaced

\* The invariant survives a step that leaves versions alone and, for every
\* update, keeps what it is at or ends it or keeps it out of the busy steps.
LEMMA InvQuiet ==
  ASSUME TypeOK, Inv,
         UNCHANGED <<shellBin, agentBin, noted, latest, overlapped>>,
         \A j \in Jobs : job'[j] = job[j] \/ job'[j].at \notin Busy
  PROVE  Inv'
<1>1. Replaced \subseteq Busy
  BY DEF Replaced, Busy
<1>2. \A j \in Jobs : job'[j].at \in Busy => job'[j] = job[j]
  OBVIOUS
<1>3. ASSUME ~overlapped', NEW j \in Jobs PROVE JobInv(job[j])'
  <2>1. JobInv(job[j])
    BY <1>3 DEF Inv
  <2>2. CASE job'[j] = job[j]
    BY <2>1, <2>2 DEF JobInv
  <2>3. CASE job'[j].at \notin Busy
    BY <2>3, <1>1 DEF JobInv
  <2>4. QED
    BY <2>2, <2>3
<1>4. QED
  BY <1>2, <1>3 DEF Inv

\* The invariant is preserved by every step.
LEMMA InvPreserved == TypeOK /\ TypeOK' /\ Inv /\ [Next]_vars => Inv'
<1> SUFFICES ASSUME TypeOK, TypeOK', Inv, [Next]_vars PROVE Inv'
  OBVIOUS
<1> USE ReleaseFacts
<1>a. \A j \in Jobs : job[j].target \in Releases /\ job'[j].target \in Releases
  BY DEF TypeOK, JobStates
<1>b. noted \in Triples /\ latest \in Triples /\ noted' \in Triples /\ latest' \in Triples
  BY DEF TypeOK
<1>c. NoJob.at \notin Busy
  BY DEF NoJob, Busy
<1>1. ASSUME NEW j \in Jobs, NEW c \in BOOLEAN, Start(j, c) PROVE Inv'
  <2>1. \A k \in Jobs : job'[k] = job[k] \/ job'[k].at \notin Busy
    BY <1>1 DEF Start, TypeOK, NoJob, Busy
  <2>2. QED
    BY <1>1, <2>1, InvQuiet DEF Start, binary
<1>2. ASSUME NEW j \in Jobs, Gate(j) PROVE Inv'
  <2>1. \A k \in Jobs : job'[k] = job[k] \/ job'[k].at \notin Busy
    BY <1>2 DEF Gate, TypeOK, NoJob, JobStates, Busy
  <2>2. QED
    BY <1>2, <2>1, InvQuiet DEF Gate, binary
<1>3. ASSUME NEW j \in Jobs, Enter(j) PROVE Inv'
  <2> SUFFICES ASSUME ~overlapped' PROVE Inv'
    BY DEF Inv
  <2>1. ~overlapped /\ \A k \in Jobs \ {j} : job[k].at \notin Busy
    BY <1>3 DEF Enter, TypeOK, Steps, Busy
  <2>2. \A k \in Jobs \ {j} : job'[k] = job[k]
    BY <1>3 DEF Enter, Step, TypeOK
  <2>3. job'[j].at = "entered"
    BY <1>3 DEF Enter, Step, TypeOK, JobStates
  <2>4. UNCHANGED <<shellBin, agentBin, noted, latest>>
    BY <1>3 DEF Enter, binary
  <2>5. ASSUME NEW k \in Jobs PROVE JobInv(job[k])'
    BY <2>1, <2>2, <2>3, <2>4 DEF Inv, JobInv, Busy, Replaced
  <2>6. QED
    BY <2>1, <2>2, <2>4, <2>5 DEF Inv
<1>4. ASSUME NEW j \in Jobs, Check(j) PROVE Inv'
  <2> SUFFICES ASSUME ~overlapped PROVE Inv'
    BY <1>4 DEF Inv, Check
  <2>1. UNCHANGED <<shellBin, agentBin, noted, latest, overlapped>>
    BY <1>4 DEF Check, binary
  <2>2. \A k \in Jobs \ {j} : job'[k] = job[k]
    BY <1>4 DEF Check, TypeOK
  <2>3. CASE job'[j] = NoJob
    BY <2>1, <2>2, <2>3, <1>c, InvQuiet
  <2>4. CASE job'[j] = [job[j] EXCEPT !.at = "shell", !.target = latest]
    <3>1. job'[j].at = "shell" /\ job'[j].target = latest
      BY <2>4 DEF TypeOK, JobStates
    <3>2. ~Newer(noted, latest) /\ ~Newer(latest, latest)
      BY <1>b, NewerFacts DEF Inv
    <3>3. job[j].at \in Busy
      BY <1>4 DEF Check, Busy
    <3>4. ASSUME NEW k \in Jobs PROVE JobInv(job[k])'
      BY <2>1, <2>2, <3>1, <3>2 DEF Inv, JobInv, Busy, Replaced
    <3>5. QED
      BY <2>1, <2>2, <3>3, <3>4 DEF Inv
  <2>5. QED
    BY <1>4, <2>3, <2>4 DEF Check, TypeOK
<1>5. ASSUME NEW j \in Jobs, InstallShell(j) PROVE Inv'
  <2> SUFFICES ASSUME ~overlapped PROVE Inv'
    BY <1>5 DEF Inv, InstallShell
  <2>1. UNCHANGED <<agentBin, noted, latest, overlapped>>
    BY <1>5 DEF InstallShell
  <2>2. shellBin' = job[j].target
    BY <1>5 DEF InstallShell, Downloaded
  <2>3. \A k \in Jobs \ {j} : job'[k] = job[k]
    BY <1>5 DEF InstallShell, Step, TypeOK
  <2>4. job'[j].at = "agent" /\ job'[j].target = job[j].target
    BY <1>5 DEF InstallShell, Step, TypeOK, JobStates
  <2>5. job[j].at = "shell"
    BY <1>5 DEF InstallShell, Step
  <2>6. ~Newer(noted, job[j].target) /\ ~Newer(job[j].target, latest)
    BY <2>5 DEF Inv, JobInv, Busy
  <2>7. \A k \in Jobs \ {j} : job[k].at \notin Busy
    BY <2>5 DEF Inv, Busy
  <2>8. ASSUME NEW k \in Jobs PROVE JobInv(job[k])'
    BY <2>1, <2>2, <2>3, <2>4, <2>6, <2>7 DEF JobInv, Busy, Replaced
  <2>9. QED
    BY <1>a, <2>1, <2>2, <2>3, <2>6, <2>7, <2>8 DEF Inv
<1>6. ASSUME NEW j \in Jobs, InstallAgent(j) \/ NoteTruncates(j) PROVE Inv'
  <2> SUFFICES ASSUME ~overlapped PROVE Inv'
    BY <1>6 DEF Inv, InstallAgent, NoteTruncates
  <2>1. UNCHANGED <<shellBin, latest, overlapped>>
    BY <1>6 DEF InstallAgent, NoteTruncates, binary
  <2>2. agentBin' \in Releases
    BY <1>6, <1>a DEF InstallAgent, NoteTruncates, Downloaded, binary, Inv
  <2>3. noted' \in {noted, First}
    BY <1>6 DEF InstallAgent, NoteTruncates
  <2>4. \A k \in Jobs \ {j} : job'[k] = job[k]
    BY <1>6 DEF InstallAgent, NoteTruncates, Step, TypeOK
  <2>5. job'[j].at \in Replaced /\ job'[j].target = job[j].target
    BY <1>6 DEF InstallAgent, NoteTruncates, Step, TypeOK, JobStates, Replaced
  <2>6. job[j].at \in {"agent", "note"}
    BY <1>6 DEF InstallAgent, NoteTruncates, Step
  <2>7. \A r \in Releases : ~Newer(noted, r) => ~Newer(noted', r)
    BY <2>3
  <2>8. \A k \in Jobs \ {j} : job[k].at \notin Busy
    BY <2>6 DEF Inv, Busy
  <2>9. ASSUME NEW k \in Jobs PROVE JobInv(job[k])'
    <3>1. CASE k = j
      BY <3>1, <1>a, <2>1, <2>5, <2>6, <2>7 DEF Inv, JobInv, Busy, Replaced
    <3>2. CASE k # j
      BY <3>2, <2>4, <2>8 DEF JobInv, Busy, Replaced
    <3>3. QED
      BY <3>1, <3>2
  <2>10. QED
    BY <2>1, <2>2, <2>4, <2>7, <2>8, <2>9 DEF Inv
<1>7. ASSUME NEW j \in Jobs, Note(j) PROVE Inv'
  <2> SUFFICES ASSUME ~overlapped PROVE Inv'
    BY <1>7 DEF Inv, Note
  <2>1. UNCHANGED <<shellBin, agentBin, latest, overlapped>>
    BY <1>7 DEF Note, binary
  <2>2. job[j].at = "noting" /\ job'[j] = NoJob /\ noted' = job[j].target
    BY <1>7 DEF Note, TypeOK
  <2>3. \A k \in Jobs \ {j} : job'[k] = job[k]
    BY <1>7 DEF Note, TypeOK
  <2>4. noted' = shellBin
    BY <2>2 DEF Inv, JobInv, Replaced
  <2>5. ~Newer(noted', shellBin)
    BY <2>4, <1>b, NewerFacts
  <2>6. \A k \in Jobs : job'[k].at \notin Busy
    BY <1>c, <2>2, <2>3 DEF Inv, Busy
  <2>7. QED
    BY <2>1, <2>5, <2>6 DEF Inv, JobInv, Busy, Replaced
<1>8. ASSUME NEW j \in Jobs, UpdateFails(j) PROVE Inv'
  <2>1. \A k \in Jobs : job'[k] = job[k] \/ job'[k].at \notin Busy
    BY <1>8, <1>c DEF UpdateFails, TypeOK
  <2>2. QED
    BY <1>8, <2>1, InvQuiet DEF UpdateFails, binary
<1>9. ASSUME NewProcess, UNCHANGED latest PROVE Inv'
  <2>1. \A k \in Jobs : job'[k].at \notin Busy
    BY <1>9, <1>c DEF NewProcess
  <2>2. QED
    BY <1>9, <2>1, InvQuiet DEF NewProcess
<1>10. ASSUME Publish PROVE Inv'
  <2> SUFFICES ASSUME ~overlapped PROVE Inv'
    BY <1>10 DEF Inv, Publish, ota
  <2>1. UNCHANGED <<shellBin, agentBin, noted, job, overlapped>>
    BY <1>10 DEF Publish, binary, ota
  <2>2. \A r \in Releases : ~Newer(r, latest) => ~Newer(r, latest')
    BY <1>10, <1>b, NewerFacts DEF Publish
  <2>3. ASSUME NEW k \in Jobs PROVE JobInv(job[k])'
    BY <1>a, <2>1, <2>2 DEF Inv, JobInv
  <2>4. QED
    BY <2>1, <2>2, <2>3 DEF Inv
<1>11. ASSUME UNCHANGED <<shellBin, agentBin, noted, latest, job, overlapped>>
       PROVE Inv'
  BY <1>11, InvQuiet
<1>12. QED
  <2>1. CASE \E j \in Jobs : TickDone(j) \/ CommandCheck(j)
    BY <2>1, <1>1 DEF TickDone, CommandCheck
  <2>2. CASE \E j \in Jobs : Work(j) \/ UpdateFails(j)
    BY <2>2, <1>2, <1>3, <1>4, <1>5, <1>6, <1>7, <1>8 DEF Work
  <2>3. CASE TickIdle \/ TickFails \/ TokenExpires
    BY <2>3, <1>11 DEF TickIdle, TickFails, TokenExpires, binary, ota
  <2>4. CASE RestartAgent \/ Crash
    BY <2>4, <1>9 DEF RestartAgent, Crash, NewProcess
  <2>5. CASE DueAgain \/ ForceCheck \/ Wish
    BY <2>5, <1>11 DEF DueAgain, ForceCheck, Wish, binary, ota
  <2>6. CASE Publish
    BY <2>6, <1>10
  <2>7. CASE UNCHANGED vars
    BY <2>7, <1>11 DEF vars, binary, ota
  <2>8. QED
    BY <2>1, <2>2, <2>3, <2>4, <2>5, <2>6, <2>7 DEF Next

\* The invariant holds in every state.
LEMMA Invariance == Spec => []Inv
BY InvInitially, InvPreserved, TypeCorrect, PTL DEF Spec

\* versions.json never claims more than is installed.
THEOREM NotesAreTrue == Spec => []NotedIsInstalled
<1>1. Inv => NotedIsInstalled
  BY DEF Inv, NotedIsInstalled
<1>2. QED
  BY <1>1, Invariance, PTL

-----------------------------------------------------------------------------
\* While updates have not overlapped, nothing that is installed or about to be
\* replaced is newer than what is about to be installed.
Behind ==
    ~overlapped =>
       /\ ~Newer(agentBin, latest)
       /\ \A j \in Jobs :
             /\ job[j].at = "shell" => ~Newer(shellBin, job[j].target)
             /\ job[j].at \in {"shell", "agent"} => ~Newer(agentBin, job[j].target)

\* Two releases of which neither is newer are one release.
LEMMA NotNewerBothWays ==
  ASSUME NEW u \in Triples, NEW v \in Triples, ~Newer(u, v), ~Newer(v, u)
  PROVE  u = v
BY VersionsAreOrdered DEF versionLess

\* What any step does to the binaries and the running agent: an update under
\* way installs its own target, and an agent starts from the installed one.
LEMMA BinaryStep ==
  ASSUME TypeOK, [Next]_vars, ~overlapped'
  PROVE  /\ ~overlapped
         /\ \/ shellBin' = shellBin
            \/ \E j \in Jobs : /\ job[j].at = "shell" /\ shellBin' = job[j].target
                               /\ UNCHANGED <<agentBin, agent, latest>>
         /\ \/ agentBin' = agentBin
            \/ \E j \in Jobs : /\ job[j].at = "agent" /\ agentBin' = job[j].target
                               /\ UNCHANGED <<shellBin, agent, latest>>
         /\ \/ agent' = agent
            \/ agentBin # Torn => agent' = agentBin
<1>1. CASE \E j \in Jobs : TickDone(j) \/ CommandCheck(j)
  BY <1>1 DEF TickDone, CommandCheck, Start, binary
<1>2. CASE \E j \in Jobs : Gate(j) \/ Check(j) \/ NoteTruncates(j) \/ Note(j)
  BY <1>2 DEF Gate, Check, NoteTruncates, Note, binary
<1>3. CASE \E j \in Jobs : Enter(j)
  <2>1. PICK j \in Jobs : Enter(j)
    BY <1>3
  <2>2. UNCHANGED binary /\ ~overlapped
    BY <2>1 DEF Enter, TypeOK
  <2>3. QED
    BY <2>2 DEF binary
<1>4. CASE \E j \in Jobs : InstallShell(j)
  BY <1>4 DEF InstallShell, Step, Downloaded
<1>5. CASE \E j \in Jobs : InstallAgent(j)
  BY <1>5 DEF InstallAgent, Step, Downloaded
<1>6. CASE \E j \in Jobs : UpdateFails(j)
  BY <1>6 DEF UpdateFails, binary
<1>7. CASE TickIdle \/ TickFails \/ TokenExpires
  BY <1>7 DEF TickIdle, TickFails, TokenExpires, binary, ota
<1>8. CASE RestartAgent \/ Crash
  BY <1>8 DEF RestartAgent, Crash, NewProcess
<1>9. CASE DueAgain \/ ForceCheck \/ Wish
  BY <1>9 DEF DueAgain, ForceCheck, Wish, binary, ota
<1>10. CASE Publish
  BY <1>10 DEF Publish, binary, ota
<1>11. CASE UNCHANGED vars
  BY <1>11 DEF vars, binary, ota
<1>12. QED
  BY <1>1, <1>2, <1>3, <1>4, <1>5, <1>6, <1>7, <1>8, <1>9, <1>10, <1>11 DEF Next, Work

\* Only a publication changes the latest release.
LEMMA ReleaseStep ==
  ASSUME [Next]_vars
  PROVE  latest' = latest \/ Publish
<1>1. CASE \E j \in Jobs : TickDone(j)
  BY <1>1 DEF TickDone, Start
<1>2. CASE \E j \in Jobs : CommandCheck(j)
  BY <1>2 DEF CommandCheck, Start
<1>3. CASE \E j \in Jobs : Gate(j) \/ Enter(j) \/ Check(j) \/ NoteTruncates(j) \/ Note(j)
  BY <1>3 DEF Gate, Enter, Check, NoteTruncates, Note
<1>4. CASE \E j \in Jobs : InstallShell(j) \/ InstallAgent(j) \/ UpdateFails(j)
  BY <1>4 DEF InstallShell, InstallAgent, UpdateFails
<1>5. CASE TickIdle \/ TickFails \/ TokenExpires
  BY <1>5 DEF TickIdle, TickFails, TokenExpires
<1>6. CASE RestartAgent \/ Crash \/ DueAgain \/ ForceCheck \/ Wish
  BY <1>6 DEF RestartAgent, Crash, NewProcess, DueAgain, ForceCheck, Wish
<1>7. CASE UNCHANGED vars
  BY <1>7 DEF vars
<1>8. QED
  BY <1>1, <1>2, <1>3, <1>4, <1>5, <1>6, <1>7 DEF Next, Work

\* Which updates can be about to install something after a step: those that
\* were, and one that has just found the latest release.
LEMMA TargetStep ==
  ASSUME TypeOK, [Next]_vars, NEW j \in Jobs, job'[j].at \in {"shell", "agent"}
  PROVE  \/ job'[j] = job[j]
         \/ /\ job'[j].at = "shell" /\ job'[j].target = latest
            /\ UNCHANGED <<latest, shellBin, agentBin>>
         \/ /\ job[j].at = "shell" /\ job'[j].at = "agent"
            /\ job'[j].target = job[j].target
            /\ UNCHANGED agentBin
<1> USE DEF TypeOK
<1>1. CASE \E k \in Jobs : TickDone(k) \/ CommandCheck(k)
  BY <1>1 DEF TickDone, CommandCheck, Start, NoJob
<1>2. CASE \E k \in Jobs : Enter(k)
  BY <1>2 DEF Enter, Step, JobStates
<1>11. CASE \E k \in Jobs : Gate(k)
  <2>1. PICK k \in Jobs : Gate(k)
    BY <1>11
  <2>2. job'[k].at \in {"passed", "idle"} /\ \A i \in Jobs \ {k} : job'[i] = job[i]
    BY <2>1 DEF Gate, NoJob, JobStates
  <2>3. QED
    BY <2>2
<1>3. CASE \E k \in Jobs : Check(k)
  BY <1>3 DEF Check, NoJob, JobStates, binary
<1>4. CASE \E k \in Jobs : InstallShell(k)
  BY <1>4 DEF InstallShell, Step, JobStates
<1>5. CASE \E k \in Jobs : InstallAgent(k) \/ NoteTruncates(k)
  BY <1>5 DEF InstallAgent, NoteTruncates, Step, JobStates
<1>6. CASE \E k \in Jobs : Note(k) \/ UpdateFails(k)
  BY <1>6 DEF Note, UpdateFails, NoJob
<1>7. CASE TickIdle \/ TickFails \/ TokenExpires
  BY <1>7 DEF TickIdle, TickFails, TokenExpires, ota
<1>8. CASE RestartAgent \/ Crash
  BY <1>8 DEF RestartAgent, Crash, NewProcess, NoJob
<1>9. CASE DueAgain \/ ForceCheck \/ Wish \/ Publish \/ UNCHANGED vars
  BY <1>9 DEF DueAgain, ForceCheck, Wish, Publish, vars, ota
<1>10. QED
  BY <1>1, <1>2, <1>11, <1>3, <1>4, <1>5, <1>6, <1>7, <1>8, <1>9 DEF Next, Work

\* Nothing that is installed is newer than what replaces it: from the notes,
\* at most one update at a time, and the order of versions.
LEMMA BehindPreserved ==
  TypeOK /\ TypeOK' /\ Inv /\ Inv' /\ Behind /\ [Next]_vars => Behind'
<1> SUFFICES ASSUME TypeOK, TypeOK', Inv, Inv', Behind, [Next]_vars, ~overlapped'
             PROVE  Behind'
  BY DEF Behind
<1>1. ~overlapped
  BY BinaryStep
<1>2. /\ agentBin \in Triples /\ shellBin \in Triples
      /\ latest \in Triples /\ latest' \in Triples
  BY <1>1, ReleaseFacts DEF Inv, TypeOK
<1>3. \A j \in Jobs : job[j].target \in Triples
  BY ReleaseFacts DEF TypeOK, JobStates
<1>4. ~Newer(agentBin, latest) /\ ~Newer(shellBin, latest)
  BY <1>1 DEF Behind, Inv
<1>5. \A r \in Triples : ~Newer(r, latest) => ~Newer(r, latest')
  <2>1. CASE Publish
    BY <1>2, <2>1, NewerFacts DEF Publish
  <2>2. QED
    BY <2>1, ReleaseStep
<1>6. ~Newer(agentBin', latest')
  <2>1. CASE agentBin' = agentBin
    BY <1>2, <1>4, <1>5, <2>1, NewerFacts
  <2>2. CASE agentBin' # agentBin
    <3>1. PICK j \in Jobs :
             job[j].at = "agent" /\ agentBin' = job[j].target /\ latest' = latest
      BY <2>2, BinaryStep
    <3>2. QED
      BY <1>1, <3>1 DEF Inv, JobInv, Busy
  <2>3. QED
    BY <2>1, <2>2
<1>7. ASSUME NEW j \in Jobs, job'[j].at = "shell"
      PROVE  ~Newer(shellBin', job'[j].target) /\ ~Newer(agentBin', job'[j].target)
  <2>1. CASE job'[j] = job[j]
    <3>1. ~Newer(shellBin, job[j].target) /\ ~Newer(agentBin, job[j].target)
      BY <1>1, <1>7, <2>1 DEF Behind
    <3>2. \A k \in Jobs : job[k].at \in Busy => k = j
      BY <1>1, <1>7, <2>1 DEF Inv, Busy
    <3>3. shellBin' = shellBin \/ shellBin' = job[j].target
      BY <3>2, BinaryStep DEF Busy
    <3>4. agentBin' = agentBin
      BY <1>7, <2>1, <3>2, BinaryStep DEF Busy
    <3>5. ~Newer(job[j].target, job[j].target)
      BY <1>3, NewerFacts
    <3>6. QED
      BY <2>1, <3>1, <3>3, <3>4, <3>5
  <2>2. CASE /\ job'[j].target = latest
             /\ UNCHANGED <<latest, shellBin, agentBin>>
    BY <1>4, <2>2
  <2>3. QED
    BY <1>7, <2>1, <2>2, TargetStep
<1>8. ASSUME NEW j \in Jobs, job'[j].at = "agent"
      PROVE  ~Newer(agentBin', job'[j].target)
  <2>1. CASE job'[j] = job[j]
    <3>1. ~Newer(agentBin, job[j].target)
      BY <1>1, <1>8, <2>1 DEF Behind
    <3>2. \A k \in Jobs : job[k].at \in Busy => k = j
      BY <1>1, <1>8, <2>1 DEF Inv, Busy
    <3>3. agentBin' = agentBin \/ agentBin' = job[j].target
      BY <3>2, BinaryStep DEF Busy
    <3>4. ~Newer(job[j].target, job[j].target)
      BY <1>3, NewerFacts
    <3>5. QED
      BY <2>1, <3>1, <3>3, <3>4
  <2>2. CASE /\ job[j].at = "shell" /\ job'[j].target = job[j].target
             /\ UNCHANGED agentBin
    BY <1>1, <2>2 DEF Behind
  <2>3. QED
    BY <1>8, <2>1, <2>2, TargetStep
<1>9. QED
  BY <1>6, <1>7, <1>8 DEF Behind

\* Nothing is ever replaced by something older, while updates do not overlap.
LEMMA BehindInvariant == Spec => []Behind
<1>1. Init => Behind
  <2> SUFFICES ASSUME Init PROVE Behind
    OBVIOUS
  <2>1. \A j \in Jobs : job[j].at = "idle"
    BY DEF Init, NoJob
  <2>2. QED
    BY <2>1 DEF Init, Behind
<1>2. QED
  BY <1>1, BehindPreserved, Invariance, TypeCorrect, PTL DEF Spec

\* A step from an up-to-date machine leaves it up to date: what an update
\* installs is not older than what is there, and nothing is newer than the
\* latest release, so it is the same release.
LEMMA StaysStep ==
  ASSUME TypeOK, Inv, Behind, [Next]_vars, UpToDate, latest' = latest, ~overlapped'
  PROVE  UpToDate'
<1>1. ~overlapped /\ latest \in Triples /\ agentBin # Torn
  BY BinaryStep, ReleaseFacts DEF TypeOK, UpToDate
<1>2. ASSUME NEW j \in Jobs, job[j].at \in {"shell", "agent"}
      PROVE  job[j].target = latest
  <2>1. job[j].target \in Triples
    BY ReleaseFacts DEF TypeOK, JobStates
  <2>2. ~Newer(job[j].target, latest)
    BY <1>1, <1>2 DEF Inv, JobInv, Busy
  <2>3. ~Newer(latest, job[j].target)
    BY <1>1, <1>2 DEF Behind, UpToDate
  <2>4. QED
    BY <1>1, <2>1, <2>2, <2>3, NotNewerBothWays
<1>3. shellBin' = latest
  BY <1>2, BinaryStep DEF UpToDate
<1>4. agentBin' = latest
  BY <1>2, BinaryStep DEF UpToDate
<1>5. agent' = latest
  BY <1>1, BinaryStep DEF UpToDate
<1>6. QED
  BY <1>3, <1>4, <1>5 DEF UpToDate

\* An up-to-date machine stays so until a newer release is published.
THEOREM UpdatesAreKept == Spec => StaysUpToDate
<1>1. TypeOK /\ Inv /\ Behind /\ [Next]_vars
      => [UpToDate /\ latest' = latest => UpToDate' \/ overlapped']_vars
  <2> SUFFICES ASSUME TypeOK, Inv, Behind, [Next]_vars, UpToDate, latest' = latest,
                      ~overlapped'
               PROVE  UpToDate'
    OBVIOUS
  <2> QED
    BY StaysStep
<1>2. QED
  BY <1>1, TypeCorrect, Invariance, BehindInvariant, PTL DEF Spec, StaysUpToDate

-----------------------------------------------------------------------------
\* While updates have not overlapped, an agent runs, and it is not newer than
\* the one that is installed.
Running == ~overlapped => agent \in Releases /\ ~Newer(agent, agentBin)

\* The installed agent is only ever replaced by one that is not older.
LEMMA RunningPreserved ==
  TypeOK /\ Inv /\ Behind /\ Running /\ [Next]_vars => Running'
<1> SUFFICES ASSUME TypeOK, Inv, Behind, Running, [Next]_vars, ~overlapped'
             PROVE  agent' \in Releases /\ ~Newer(agent', agentBin')
  BY DEF Running
<1>1. /\ ~overlapped
      /\ agent \in Releases /\ agent \in Triples
      /\ agentBin \in Releases /\ agentBin \in Triples
      /\ ~Newer(agent, agentBin)
  BY BinaryStep, ReleaseFacts DEF Inv, Running
<1>2. CASE agent' = agent /\ agentBin' = agentBin
  BY <1>1, <1>2
<1>3. CASE agentBin' # agentBin
  <2>1. PICK j \in Jobs :
           job[j].at = "agent" /\ agentBin' = job[j].target /\ agent' = agent
    BY <1>3, BinaryStep
  <2>2. ~Newer(agentBin, job[j].target)
    BY <1>1, <2>1 DEF Behind
  <2>3. job[j].target \in Triples
    BY ReleaseFacts DEF TypeOK, JobStates
  <2>4. QED
    BY <1>1, <2>1, <2>2, <2>3, NewerFacts
<1>4. CASE agentBin' = agentBin /\ agent' = agentBin
  BY <1>1, <1>4, NewerFacts
<1>5. QED
  BY <1>1, <1>2, <1>3, <1>4, BinaryStep, ReleaseFacts

\* Whichever half of a machine is old, the next check sees it: versions.json
\* never claims more than the installed shell and the running agent is never
\* newer than the installed one, so that what the check compares is at most
\* what is there - however updates failed and were cut short.
THEOREM MixedIsNeverHidden == Spec => []MixedIsSeen
<1>1. Init => Running
  BY ReleaseFacts, NewerFacts DEF Init, Running
<1>2. TypeOK /\ Inv /\ Behind /\ Running => MixedIsSeen
  <2> SUFFICES ASSUME TypeOK, Inv, Behind, Running, ~overlapped,
                      shellBin # latest \/ agentBin # latest
               PROVE  UpdateAvailable
    BY DEF MixedIsSeen
  <2>1. /\ shellBin \in Triples /\ agentBin \in Triples /\ agent \in Triples
        /\ noted \in Triples /\ latest \in Triples
    BY ReleaseFacts DEF Inv, Running, TypeOK
  <2>2. ~Newer(noted, shellBin) /\ ~Newer(shellBin, latest)
    BY DEF Inv
  <2>3. ~Newer(agent, agentBin) /\ ~Newer(agentBin, latest)
    BY DEF Behind, Running
  <2>4. ~Newer(noted, latest) /\ ~Newer(agent, latest)
    BY <2>1, <2>2, <2>3, NewerFacts
  <2>5. noted = latest => shellBin = latest
    BY <2>1, <2>2, NotNewerBothWays
  <2>6. agent = latest => agentBin = latest
    BY <2>1, <2>3, NotNewerBothWays
  <2>7. QED
    BY <2>4, <2>5, <2>6 DEF UpdateAvailable, versionLess
<1>3. QED
  BY <1>1, <1>2, RunningPreserved, Invariance, BehindInvariant, TypeCorrect, PTL
  DEF Spec
=============================================================================
